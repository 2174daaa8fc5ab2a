---------------------------- MODULE ProviderProofs ----------------------------
(***************************************************************************)
(* What the provider's two sides keep for every capacity, bound and limit. *)
(*                                                                         *)
(* StreamRelay: the loop is handed the vendor's events once and in order,  *)
(* and what it is told of the stream's end is true, also after the token.  *)
(* The invariant is about the fragments between the two sides, wherever a  *)
(* read has cut them: those in the reader's buffer followed by those in    *)
(* the channel are the lines of the events that were written and not       *)
(* handed out, each whole (InFlight).  RelayInv and ReaderInv say what     *)
(* each side may still do; no step of one of them reads a variable of the  *)
(* other but through the channel and its two ends.                         *)
(*                                                                         *)
(* ProviderTurn: what is repeated, and what the vendor is shown.  RetryInv *)
(* says, of each place a round can be at, how the last request and its     *)
(* answer stand to the round (Underway, Again, Afresh, Judged).  VendorInv *)
(* says that the transcript, replayed, shows the vendor's own words of     *)
(* every answer taken in so far (Ledger): a sequence of messages is Sound  *)
(* by itself, and each way the transcript grows keeps it so.  That what is *)
(* kept of one answer is the vendor's own (Faithful) is shown block by     *)
(* block, by sets of the lengths at which it holds.                        *)
(*                                                                         *)
(* GuestStream: how the kernel cuts a body does not matter.  The invariant *)
(* is about the text the parser has read (Parses): its unfinished line is  *)
(* what stands after the last line feed, its data and its name are those   *)
(* of the lines after the last blank one, what it returned are the events  *)
(* of the text, and it has failed if and only if the text is past a cap.   *)
(* A byte more keeps that (ByteStep), and so a chunk does.                 *)
(***************************************************************************)
EXTENDS StreamRelay, ProviderTurn, GuestStream, SequenceFacts

(* The k-th fragment between the relay and the loop: first those of the    *)
(* buffer b, then those of the channel c.                                  *)
At(b, c, k) == IF k <= Len(b) THEN b[k] ELSE c[k - Len(b)]

(* The fragments of b and c are the lines of the events written and not    *)
(* handed out.                                                             *)
InFlightOf(b, c, handed, written) ==
  LET total == Len(b) + Len(c)
  IN /\ total = 0 => handed = written
     /\ total > 0 => /\ At(b, c, 1).n = handed + 1
                     /\ At(b, c, total).n = written /\ At(b, c, total).last
     /\ \A i, j \in 1..total : i < j =>
          /\ At(b, c, i).n <= At(b, c, j).n
          /\ At(b, c, i).n < At(b, c, j).n => \E m \in i..(j - 1) : At(b, c, m).last
     /\ \A i \in 1..(total - 1) :
          At(b, c, i).last => At(b, c, i + 1).n = At(b, c, i).n + 1

(* How many events the relay has written, or will not write any more. *)
Written == Len(sent) - queue

InFlight == InFlightOf(buf, channel, Len(got), Written)

RelayInv ==
  /\ relay \in {"poll", "read", "excerpt"} => queue = 0
  /\ relay = "excerpt" => sent = <<>>
  /\ relay # "over" <=> producer = "open"
  /\ relay # "over" => \A k \in 1..Written : sent[k] \notin Terminal
  /\ producer = "closed" /\ ~cancelled /\ consumer = "open" => queue = 0

ReaderInv ==
  /\ reader = "wait" => Newlines(buf) = {} /\ Len(buf) <= Cap
  /\ reader # "gone" =>
       /\ consumer = "open" /\ outcome = "reading"
       /\ \A k \in 1..Len(got) : sent[k] \notin Terminal
  /\ outcome \in Terminal \cup {"ended"} => relay = "over"
  /\ outcome \in Terminal => Len(sent) > 0

IInv == DeliveredInOrder /\ InFlight /\ RelayInv /\ ReaderInv

-----------------------------------------------------------------------------
(* What the translator makes of a chunk. *)

(* A chunk's contract events: a prefix of it, in which only the last one   *)
(* may be terminal.                                                        *)
LEMMA TranslatedProperties ==
  ASSUME NEW chunk \in VendorChunk
  PROVE  /\ Translated(chunk) \in Seq(Kind)
         /\ \A k \in 1..(Len(Translated(chunk)) - 1) : Translated(chunk)[k] \notin Terminal
<1> DEFINE n == CHOOSE k \in Live(chunk) : \A j \in Live(chunk) : j <= k
<1>1. chunk \in Seq(Kind) /\ Len(chunk) \in Nat
  BY SeqDef, ChannelAssumption DEF VendorChunk
<1>2. Live(chunk) \in SUBSET (0..Len(chunk)) /\ Live(chunk) # {}
  <2>1. 0 \in Live(chunk)
    BY <1>1 DEF Live
  <2> QED
    BY <2>1 DEF Live
<1>3. \E k \in Live(chunk) : \A j \in Live(chunk) : j <= k
  BY <1>1, <1>2, GreatestElement
<1>4. n \in Live(chunk)
  BY <1>3
<1>5. Translated(chunk) = SubSeq(chunk, 1, n)
  BY DEF Translated
<1> HIDE DEF n
<1>6. n \in 0..Len(chunk) /\ \A j \in 1..(n - 1) : chunk[j] \notin Terminal
  BY <1>4 DEF Live
<1>7. /\ Translated(chunk) \in Seq(Kind) /\ Len(Translated(chunk)) = n
      /\ \A k \in 1..n : Translated(chunk)[k] = chunk[k]
  BY <1>1, <1>5, <1>6
<1> QED
  BY <1>6, <1>7

-----------------------------------------------------------------------------
(* Lines and newlines. *)

LEMMA FragmentTypes ==
  /\ \A f \in Fragment : f.n \in Nat /\ f.last \in BOOLEAN
  /\ \A n \in Nat, last \in BOOLEAN :
       /\ [n |-> n, last |-> last] \in Fragment
       /\ [n |-> n, last |-> last].n = n /\ [n |-> n, last |-> last].last = last
BY DEF Fragment

(* Reading the sequences the two sides build. *)
LEMMA ConcatFragments ==
  ASSUME NEW s \in Seq(Fragment), NEW t \in Seq(Fragment)
  PROVE  /\ s \o t \in Seq(Fragment)
         /\ Len(s \o t) = Len(s) + Len(t) /\ Len(s) \in Nat /\ Len(t) \in Nat
         /\ \A k \in 1..Len(s) : (s \o t)[k] = s[k]
         /\ \A k \in 1..Len(t) : (s \o t)[Len(s) + k] = t[k]
OBVIOUS

LEMMA PartsOfFragments ==
  ASSUME NEW s \in Seq(Fragment), NEW n \in 0..Len(s)
  PROVE  /\ SubSeq(s, 1, n) \in Seq(Fragment) /\ Len(SubSeq(s, 1, n)) = n
         /\ \A k \in 1..n : SubSeq(s, 1, n)[k] = s[k]
         /\ SubSeq(s, n + 1, Len(s)) \in Seq(Fragment)
         /\ Len(SubSeq(s, n + 1, Len(s))) = Len(s) - n /\ Len(s) \in Nat
         /\ \A k \in 1..(Len(s) - n) : SubSeq(s, n + 1, Len(s))[k] = s[n + k]
OBVIOUS

LEMMA NewlinesFinite ==
  ASSUME NEW s \in Seq(Fragment)
  PROVE  IsFiniteSet(Newlines(s)) /\ Cardinality(Newlines(s)) \in Nat
<1>1. Newlines(s) \in SUBSET (1..Len(s)) /\ Len(s) \in Int /\ 1 \in Int
  BY DEF Newlines
<1>2. IsFiniteSet(1..Len(s))
  BY <1>1, FS_Interval
<1>3. IsFiniteSet(Newlines(s))
  BY <1>1, <1>2, FS_Subset
<1> QED
  BY <1>3, FS_CardinalityType

LEMMA LineProperties ==
  ASSUME NEW n \in Nat, NEW size \in 1..MaxLine
  PROVE  /\ Line(n, size) \in Seq(Fragment) /\ Len(Line(n, size)) = size /\ size \in Nat
         /\ \A k \in 1..size : Line(n, size)[k].n = n /\ (Line(n, size)[k].last <=> k = size)
<1>1. size \in Nat
  BY ChannelAssumption
<1>2. Line(n, size) \in [1..size -> Fragment]
  BY FragmentTypes DEF Line
<1>3. ASSUME NEW k \in 1..size
      PROVE  Line(n, size)[k].n = n /\ (Line(n, size)[k].last <=> k = size)
  BY FragmentTypes DEF Line
<1>4. Line(n, size) \in Seq(Fragment) /\ Len(Line(n, size)) = size
  BY <1>1, <1>2, SeqDef
<1> QED
  BY <1>1, <1>3, <1>4

(* A line adds one newline to a channel that has room for it. *)
LEMMA LineFits ==
  ASSUME NEW s \in Seq(Fragment), NEW n \in Nat, NEW size \in 1..MaxLine,
         Cardinality(Newlines(s)) <= Capacity, Cardinality(Newlines(s)) # Capacity
  PROVE  Cardinality(Newlines(s \o Line(n, size))) <= Capacity
<1> DEFINE t == Line(n, size)
<1>1. /\ t \in Seq(Fragment) /\ Len(t) = size /\ size \in Nat
      /\ \A k \in 1..size : t[k].last <=> k = size
  BY LineProperties
<1> HIDE DEF t
<1>2. /\ Len(s \o t) = Len(s) + size /\ Len(s) \in Nat
      /\ \A k \in 1..Len(s) : (s \o t)[k] = s[k]
      /\ \A k \in 1..size : (s \o t)[Len(s) + k] = t[k]
  BY <1>1, ConcatFragments
<1>3. Newlines(s \o t) = Newlines(s) \cup {Len(s) + size}
  <2>1. ASSUME NEW k \in Newlines(s \o t)
        PROVE  k \in Newlines(s) \cup {Len(s) + size}
    <3>1. k \in 1..(Len(s) + size) /\ (s \o t)[k].last
      BY <1>2, <2>1 DEF Newlines
    <3>2. CASE k \in 1..Len(s)
      BY <1>2, <3>1, <3>2 DEF Newlines
    <3>3. CASE k \notin 1..Len(s)
      <4>1. k - Len(s) \in 1..size /\ k = Len(s) + (k - Len(s))
        BY <1>1, <1>2, <3>1, <3>3
      <4>2. t[k - Len(s)].last
        BY <1>2, <3>1, <4>1
      <4>3. k - Len(s) = size
        BY <1>1, <4>1, <4>2
      <4> QED
        BY <1>1, <1>2, <4>1, <4>3
    <3> QED
      BY <3>2, <3>3
  <2>2. Newlines(s) \subseteq Newlines(s \o t)
    BY <1>1, <1>2 DEF Newlines
  <2>3. Len(s) + size \in Newlines(s \o t)
    <3>1. size \in 1..size /\ Len(s) + size \in 1..(Len(s) + size)
      BY <1>1, <1>2
    <3>2. (s \o t)[Len(s) + size].last
      BY <1>1, <1>2, <3>1
    <3> QED
      BY <1>2, <3>1, <3>2 DEF Newlines
  <2> QED
    BY <2>1, <2>2, <2>3
<1>4. /\ Cardinality(Newlines(s \o t)) <= Cardinality(Newlines(s)) + 1
      /\ Cardinality(Newlines(s)) \in Nat
  <2> DEFINE x == Len(s) + size
  <2>1. IsFiniteSet(Newlines(s)) /\ Cardinality(Newlines(s)) \in Nat
    BY NewlinesFinite
  <2> HIDE DEF x
  <2>2. Cardinality(Newlines(s) \cup {x})
          = IF x \in Newlines(s) THEN Cardinality(Newlines(s)) ELSE Cardinality(Newlines(s)) + 1
    BY <2>1, FS_AddElement
  <2>3. Cardinality(Newlines(s) \cup {x}) <= Cardinality(Newlines(s)) + 1
    BY <2>1, <2>2
  <2> QED
    BY <1>3, <2>1, <2>3 DEF x
<1>5. Cardinality(Newlines(s \o t)) \in Nat
  BY <1>1, ConcatFragments, NewlinesFinite
<1>6. Cardinality(Newlines(s \o t)) <= Capacity
  BY <1>4, <1>5, ChannelAssumption
<1> QED
  BY <1>6 DEF t

(* What is left of the fragments holds no more newlines than they did. *)
LEMMA RestFits ==
  ASSUME NEW s \in Seq(Fragment), NEW n \in 0..Len(s),
         Cardinality(Newlines(s)) <= Capacity
  PROVE  Cardinality(Newlines(SubSeq(s, n + 1, Len(s)))) <= Capacity
<1> DEFINE rest == SubSeq(s, n + 1, Len(s))
           back == [k \in Newlines(rest) |-> n + k]
<1>1. /\ rest \in Seq(Fragment) /\ Len(rest) = Len(s) - n /\ Len(s) \in Nat
      /\ \A k \in 1..(Len(s) - n) : rest[k] = s[n + k]
  BY PartsOfFragments
<1> HIDE DEF rest
<1>2. back \in [Newlines(rest) -> Newlines(s)]
  <2> SUFFICES ASSUME NEW k \in Newlines(rest)
               PROVE  n + k \in Newlines(s)
    OBVIOUS
  <2>1. k \in 1..(Len(s) - n) /\ rest[k].last
    BY <1>1 DEF Newlines
  <2>2. n + k \in 1..Len(s) /\ s[n + k].last
    BY <1>1, <2>1
  <2> QED
    BY <2>2 DEF Newlines
<1>3. back \in Injection(Newlines(rest), Newlines(s))
  <2>1. \A j, k \in Newlines(rest) : n + j = n + k => j = k
    BY <1>1 DEF Newlines
  <2> QED
    BY <1>2, <2>1 DEF Injection, IsInjective
<1>4. Cardinality(Newlines(rest)) <= Cardinality(Newlines(s))
  BY <1>3, NewlinesFinite, FS_Injection
<1>5. Cardinality(Newlines(rest)) \in Nat /\ Cardinality(Newlines(s)) \in Nat
  BY <1>1, NewlinesFinite
<1>6. Cardinality(Newlines(rest)) <= Capacity
  BY <1>4, <1>5, ChannelAssumption
<1> QED
  BY <1>6 DEF rest

-----------------------------------------------------------------------------
(* The fragments in flight. *)

LEMMA AtTypes ==
  ASSUME NEW b \in Seq(Fragment), NEW c \in Seq(Fragment)
  PROVE  /\ Len(b) \in Nat /\ Len(c) \in Nat
         /\ \A k \in 1..(Len(b) + Len(c)) :
              /\ At(b, c, k) \in Fragment
              /\ At(b, c, k).n \in Nat /\ At(b, c, k).last \in BOOLEAN
         /\ \A k \in 1..Len(b) : At(b, c, k) = b[k]
         /\ \A k \in 1..Len(c) : At(b, c, Len(b) + k) = c[k]
<1>1. Len(b) \in Nat /\ Len(c) \in Nat
  OBVIOUS
<1>2. \A k \in 1..Len(b) : At(b, c, k) = b[k]
  BY <1>1 DEF At
<1>3. ASSUME NEW k \in 1..Len(c)
      PROVE  At(b, c, Len(b) + k) = c[k]
  <2>1. ~(Len(b) + k <= Len(b)) /\ Len(b) + k - Len(b) = k
    BY <1>1
  <2> QED
    BY <2>1 DEF At
<1>4. ASSUME NEW k \in 1..(Len(b) + Len(c))
      PROVE  At(b, c, k) \in Fragment
  <2>1. CASE k \in 1..Len(b)
    BY <1>2, <2>1
  <2>2. CASE k \notin 1..Len(b)
    <3>1. k - Len(b) \in 1..Len(c) /\ k = Len(b) + (k - Len(b))
      BY <1>1, <2>2
    <3>2. At(b, c, k) = c[k - Len(b)]
      BY <1>3, <3>1
    <3> QED
      BY <3>1, <3>2
  <2> QED
    BY <2>1, <2>2
<1> QED
  BY <1>1, <1>2, <1>3, <1>4, FragmentTypes

(* What is between the two sides was written and not handed out. *)
LEMMA NotHandedOut ==
  ASSUME NEW b \in Seq(Fragment), NEW c \in Seq(Fragment), NEW handed \in Nat,
         NEW written \in Nat, InFlightOf(b, c, handed, written)
  PROVE  /\ handed <= written
         /\ \A i \in 1..(Len(b) + Len(c)) : At(b, c, i).n \in (handed + 1)..written
<1> DEFINE total == Len(b) + Len(c)
<1>1. /\ total \in Nat /\ \A i \in 1..total : At(b, c, i).n \in Nat
  BY AtTypes
<1>2. /\ total = 0 => handed = written
      /\ total > 0 => At(b, c, 1).n = handed + 1 /\ At(b, c, total).n = written
      /\ \A i, j \in 1..total : i < j => At(b, c, i).n <= At(b, c, j).n
  BY DEF InFlightOf
<1> HIDE DEF total
<1>3. ASSUME NEW i \in 1..total
      PROVE  At(b, c, i).n \in (handed + 1)..written
  <2>1. 1 \in 1..total /\ total \in 1..total /\ total > 0
    BY <1>1
  <2>2. At(b, c, 1).n <= At(b, c, i).n
    BY <1>1, <1>2, <2>1
  <2>3. At(b, c, i).n <= At(b, c, total).n
    BY <1>1, <1>2, <2>1
  <2> QED
    BY <1>1, <1>2, <2>1, <2>2, <2>3
<1>4. handed <= written
  <2>1. CASE total = 0
    BY <1>2, <2>1
  <2>2. CASE total # 0
    <3>1. 1 \in 1..total
      BY <1>1, <2>2
    <3> QED
      BY <1>1, <1>3, <3>1
  <2> QED
    BY <2>1, <2>2
<1> QED
  BY <1>3, <1>4 DEF total

(* The first line in the buffer is that of the next event. *)
LEMMA FirstLine ==
  ASSUME NEW b \in Seq(Fragment), NEW c \in Seq(Fragment), NEW handed \in Nat,
         NEW written \in Nat, InFlightOf(b, c, handed, written),
         NEW k \in Newlines(b), \A j \in Newlines(b) : k <= j
  PROVE  /\ k \in 1..Len(b) /\ b[k].last /\ At(b, c, k) = b[k]
         /\ b[k].n = handed + 1 /\ handed + 1 \in 1..written
<1> DEFINE total == Len(b) + Len(c)
<1>1. /\ Len(b) \in Nat /\ Len(c) \in Nat /\ total \in Nat
      /\ \A i \in 1..total : At(b, c, i).n \in Nat
      /\ \A i \in 1..Len(b) : At(b, c, i) = b[i]
  <2>1. /\ Len(b) \in Nat /\ Len(c) \in Nat
        /\ \A i \in 1..total : At(b, c, i).n \in Nat
    BY AtTypes
  <2>2. \A i \in 1..Len(b) : At(b, c, i) = b[i]
    BY AtTypes
  <2> QED
    BY <2>1, <2>2
<1>2. k \in 1..Len(b) /\ b[k].last
  BY DEF Newlines
<1>3. k \in 1..total /\ 1 \in 1..total /\ total > 0
  BY <1>1, <1>2
<1>4. /\ At(b, c, 1).n = handed + 1
      /\ 1 < k => /\ At(b, c, 1).n <= At(b, c, k).n
                  /\ At(b, c, 1).n < At(b, c, k).n => \E m \in 1..(k - 1) : At(b, c, m).last
  BY <1>3 DEF InFlightOf
<1>5. \A m \in 1..(k - 1) : ~At(b, c, m).last
  <2> SUFFICES ASSUME NEW m \in 1..(k - 1), At(b, c, m).last
               PROVE  FALSE
    OBVIOUS
  <2>1. m \in 1..Len(b) /\ m < k
    BY <1>1, <1>2
  <2>2. m \in Newlines(b)
    BY <1>1, <2>1 DEF Newlines
  <2> QED
    BY <1>2, <2>1, <2>2
<1>6. At(b, c, k).n = handed + 1
  <2>1. CASE k = 1
    BY <1>4, <2>1
  <2>2. CASE 1 < k
    BY <1>1, <1>3, <1>4, <1>5, <2>2
  <2> QED
    BY <1>2, <2>1, <2>2
<1>7. At(b, c, k).n \in (handed + 1)..written
  BY <1>3, NotHandedOut
<1> QED
  BY <1>1, <1>2, <1>6, <1>7

(* The line of the next event is taken out of the buffer. *)
LEMMA LineHandedOut ==
  ASSUME NEW b \in Seq(Fragment), NEW c \in Seq(Fragment), NEW handed \in Nat,
         NEW written \in Nat, InFlightOf(b, c, handed, written),
         NEW k \in Newlines(b), \A j \in Newlines(b) : k <= j
  PROVE  InFlightOf(SubSeq(b, k + 1, Len(b)), c, handed + 1, written)
<1> DEFINE total == Len(b) + Len(c)
           rest == SubSeq(b, k + 1, Len(b))
           A(i) == At(b, c, i)
           R(i) == At(rest, c, i)
<1>1. /\ k \in 1..Len(b) /\ A(k).last /\ A(k).n = handed + 1
  BY FirstLine
<1>2. Len(b) \in Nat /\ Len(c) \in Nat /\ total \in Nat /\ k \in 1..total /\ k \in 0..Len(b)
  BY <1>1, AtTypes
<1>3. rest \in Seq(Fragment) /\ Len(rest) = Len(b) - k
      /\ \A i \in 1..(Len(b) - k) : rest[i] = b[k + i]
  BY <1>2, PartsOfFragments
<1> HIDE DEF rest
<1>4. ASSUME NEW i \in 1..(total - k)
      PROVE  R(i) = A(k + i)
  <2>1. CASE i <= Len(b) - k
    <3>1. i \in 1..(Len(b) - k) /\ k + i <= Len(b)
      BY <1>2, <2>1
    <3> QED
      BY <1>3, <2>1, <3>1 DEF At
  <2>2. CASE ~(i <= Len(b) - k)
    <3>1. ~(k + i <= Len(b)) /\ ~(i <= Len(rest)) /\ i - Len(rest) = k + i - Len(b)
      BY <1>2, <1>3, <2>2
    <3>2. R(i) = c[i - Len(rest)]
      BY <3>1 DEF At
    <3>3. A(k + i) = c[k + i - Len(b)]
      BY <1>2, <3>1 DEF At
    <3> QED
      BY <3>1, <3>2, <3>3
  <2> QED
    BY <2>1, <2>2
<1>5. Len(rest) + Len(c) = total - k
  BY <1>2, <1>3
<1>6. /\ A(total).n = written /\ A(total).last
      /\ \A i, j \in 1..total : i < j =>
           /\ A(i).n <= A(j).n
           /\ A(i).n < A(j).n => \E m \in i..(j - 1) : A(m).last
      /\ \A i \in 1..(total - 1) : A(i).last => A(i + 1).n = A(i).n + 1
  BY <1>2 DEF InFlightOf
<1> HIDE DEF total, A, R
<1>7. total - k = 0 => handed + 1 = written
  BY <1>1, <1>2, <1>6
<1>8. total - k > 0 => R(1).n = (handed + 1) + 1 /\ R(total - k).n = written /\ R(total - k).last
  <2> SUFFICES ASSUME total - k > 0
               PROVE  R(1).n = (handed + 1) + 1 /\ R(total - k).n = written /\ R(total - k).last
    OBVIOUS
  <2>1. k \in 1..(total - 1) /\ 1 \in 1..(total - k) /\ total - k \in 1..(total - k)
        /\ k + (total - k) = total
    BY <1>2
  <2>2. R(1) = A(k + 1) /\ R(total - k) = A(total)
    BY <1>4, <2>1
  <2>3. A(k + 1).n = A(k).n + 1
    BY <1>1, <1>6, <2>1
  <2> QED
    BY <1>1, <1>6, <2>2, <2>3
<1>9. ASSUME NEW i \in 1..(total - k), NEW j \in 1..(total - k), i < j
      PROVE  /\ R(i).n <= R(j).n
             /\ R(i).n < R(j).n => \E m \in i..(j - 1) : R(m).last
  <2> DEFINE p == k + i
             q == k + j
  <2>1. p \in 1..total /\ q \in 1..total /\ p < q /\ p \in Nat /\ q \in Nat
    BY <1>2, <1>9
  <2>2. R(i) = A(p) /\ R(j) = A(q)
    BY <1>4
  <2>3. \A m \in p..(q - 1) :
          m - k \in i..(j - 1) /\ m - k \in 1..(total - k) /\ k + (m - k) = m
    BY <1>2, <2>1
  <2> HIDE DEF p, q
  <2>4. /\ A(p).n <= A(q).n
        /\ A(p).n < A(q).n => \E m \in p..(q - 1) : A(m).last
    BY <1>6, <2>1
  <2>5. ASSUME NEW m \in p..(q - 1), A(m).last
        PROVE  \E l \in i..(j - 1) : R(l).last
    <3>1. m - k \in i..(j - 1) /\ R(m - k) = A(m)
      BY <1>4, <2>3
    <3> QED
      BY <2>5, <3>1
  <2> QED
    BY <2>2, <2>4, <2>5
<1>10. ASSUME NEW i \in 1..(total - k - 1), R(i).last
       PROVE  R(i + 1).n = R(i).n + 1
  <2>1. k + i \in 1..(total - 1) /\ i \in 1..(total - k) /\ i + 1 \in 1..(total - k)
        /\ k + (i + 1) = (k + i) + 1
    BY <1>2
  <2>2. R(i) = A(k + i) /\ R(i + 1) = A((k + i) + 1)
    BY <1>4, <2>1
  <2> QED
    BY <1>6, <1>10, <2>1, <2>2
<1>11. InFlightOf(rest, c, handed + 1, written)
  BY <1>5, <1>7, <1>8, <1>9, <1>10 DEF InFlightOf, R
<1> QED
  BY <1>11 DEF rest

(* A line is written: it follows the last one that was. *)
LEMMA LineWritten ==
  ASSUME NEW b \in Seq(Fragment), NEW c \in Seq(Fragment), NEW handed \in Nat,
         NEW written \in Nat, InFlightOf(b, c, handed, written), NEW size \in 1..MaxLine
  PROVE  InFlightOf(b, c \o Line(written + 1, size), handed, written + 1)
<1> DEFINE total == Len(b) + Len(c)
           line == Line(written + 1, size)
           more == c \o line
           A(i) == At(b, c, i)
           M(i) == At(b, more, i)
<1>1. /\ line \in Seq(Fragment) /\ Len(line) = size /\ size \in Nat /\ size > 0
      /\ \A k \in 1..size : line[k].n = written + 1 /\ (line[k].last <=> k = size)
  <2>1. written + 1 \in Nat
    OBVIOUS
  <2> QED
    BY <2>1, LineProperties
<1>2. /\ Len(b) \in Nat /\ Len(c) \in Nat /\ total \in Nat
      /\ \A i \in 1..total : A(i).n \in Nat
  BY AtTypes
<1> HIDE DEF line
<1>3. /\ more \in Seq(Fragment) /\ Len(more) = Len(c) + size
      /\ \A k \in 1..Len(c) : more[k] = c[k]
      /\ \A k \in 1..size : more[Len(c) + k] = line[k]
  BY <1>1, ConcatFragments
<1> HIDE DEF more
<1>4. ASSUME NEW i \in 1..total
      PROVE  M(i) = A(i)
  <2>1. CASE i <= Len(b)
    BY <2>1 DEF At
  <2>2. CASE ~(i <= Len(b))
    <3>1. i - Len(b) \in 1..Len(c)
      BY <1>2, <2>2
    <3> QED
      BY <1>3, <2>2, <3>1 DEF At
  <2> QED
    BY <2>1, <2>2
<1>5. ASSUME NEW i \in 1..size
      PROVE  M(total + i).n = written + 1 /\ (M(total + i).last <=> i = size)
  <2>1. ~(total + i <= Len(b)) /\ total + i - Len(b) = Len(c) + i
    BY <1>1, <1>2
  <2>2. M(total + i) = line[i]
    BY <1>3, <2>1 DEF At
  <2> QED
    BY <1>1, <2>2
<1>6. Len(b) + Len(more) = total + size
  BY <1>1, <1>2, <1>3
<1>7. /\ total = 0 => handed = written
      /\ total > 0 => A(1).n = handed + 1 /\ A(total).n = written /\ A(total).last
      /\ \A i, j \in 1..total : i < j =>
           /\ A(i).n <= A(j).n
           /\ A(i).n < A(j).n => \E m \in i..(j - 1) : A(m).last
      /\ \A i \in 1..(total - 1) : A(i).last => A(i + 1).n = A(i).n + 1
  BY DEF InFlightOf
<1>8. \A i \in 1..total : A(i).n <= written
  <2>1. \A i \in 1..total : A(i).n \in (handed + 1)..written
    BY NotHandedOut
  <2> QED
    BY <1>2, <2>1
<1> HIDE DEF total, A, M
<1>9. \A i \in 1..(total + size) : i \in 1..total \/ (i - total \in 1..size /\ i = total + (i - total))
  BY <1>1, <1>2
<1>10. M(1).n = handed + 1 /\ M(total + size).n = written + 1 /\ M(total + size).last
  <2>1. size \in 1..size /\ 1 \in 1..size
    BY <1>1
  <2>2. CASE total = 0
    <3>1. M(total + 1).n = written + 1 /\ total + 1 = 1
      BY <1>5, <2>1, <2>2
    <3> QED
      BY <1>5, <1>7, <2>1, <2>2, <3>1
  <2>3. CASE total > 0
    <3>1. 1 \in 1..total
      BY <1>2, <2>3
    <3> QED
      BY <1>4, <1>5, <1>7, <2>1, <2>3, <3>1
  <2> QED
    BY <1>2, <2>2, <2>3
<1>11. ASSUME NEW i \in 1..(total + size), NEW j \in 1..(total + size), i < j
       PROVE  /\ M(i).n <= M(j).n
              /\ M(i).n < M(j).n => \E m \in i..(j - 1) : M(m).last
  <2>1. CASE i \in 1..total /\ j \in 1..total
    <3>1. M(i) = A(i) /\ M(j) = A(j) /\ \A m \in i..(j - 1) : M(m) = A(m)
      BY <1>2, <1>4, <2>1
    <3>2. A(i).n < A(j).n => \E m \in i..(j - 1) : A(m).last
      BY <1>7, <1>11, <2>1
    <3>3. A(i).n <= A(j).n
      BY <1>7, <1>11, <2>1
    <3> QED
      BY <3>1, <3>2, <3>3
  <2>2. CASE i \in 1..total /\ j \notin 1..total
    <3>1. j - total \in 1..size /\ j = total + (j - total) /\ total \in 1..total /\ total > 0
          /\ total \in i..(j - 1)
      BY <1>2, <1>9, <1>11, <2>2
    <3>2. M(j).n = written + 1
      BY <1>5, <3>1
    <3>3. M(i).n <= written /\ M(i).n \in Nat
      BY <1>2, <1>4, <1>8, <2>2
    <3>4. M(total).last
      BY <1>4, <1>7, <3>1
    <3> QED
      BY <3>1, <3>2, <3>3, <3>4
  <2>3. CASE i \notin 1..total
    <3>1. i - total \in 1..size /\ i = total + (i - total)
      BY <1>9, <2>3
    <3>2. j - total \in 1..size /\ j = total + (j - total)
      BY <1>1, <1>2, <1>9, <1>11, <2>3
    <3>3. M(i).n = written + 1 /\ M(j).n = written + 1
      BY <1>5, <3>1, <3>2
    <3> QED
      BY <3>3
  <2> QED
    BY <2>1, <2>2, <2>3
<1>12. ASSUME NEW i \in 1..(total + size - 1), M(i).last
       PROVE  M(i + 1).n = M(i).n + 1
  <2>1. CASE i \in 1..(total - 1)
    <3>1. i \in 1..total /\ i + 1 \in 1..total
      BY <1>2, <2>1
    <3> QED
      BY <1>4, <1>7, <1>12, <2>1, <3>1
  <2>2. CASE i = total
    <3>1. total \in 1..total /\ 1 \in 1..size /\ total > 0
      BY <1>1, <1>2, <2>2
    <3>2. M(total).n = written /\ M(total + 1).n = written + 1
      BY <1>4, <1>5, <1>7, <3>1
    <3> QED
      BY <2>2, <3>2
  <2>3. CASE i > total
    <3>1. i - total \in 1..size /\ i = total + (i - total) /\ i - total # size
      BY <1>1, <1>2, <2>3
    <3> QED
      BY <1>5, <1>12, <3>1
  <2> QED
    BY <1>1, <1>2, <2>1, <2>2, <2>3
<1> DEFINE all == Len(b) + Len(more)
<1>13. all = total + size /\ all > 0
  BY <1>1, <1>2, <1>6
<1> HIDE DEF all
<1>14. /\ At(b, more, 1).n = handed + 1
       /\ At(b, more, all).n = written + 1 /\ At(b, more, all).last
  BY <1>10, <1>13 DEF M
<1>15. \A i, j \in 1..all : i < j =>
         /\ At(b, more, i).n <= At(b, more, j).n
         /\ At(b, more, i).n < At(b, more, j).n => \E m \in i..(j - 1) : At(b, more, m).last
  BY <1>11, <1>13 DEF M
<1>16. \A i \in 1..(all - 1) : At(b, more, i).last => At(b, more, i + 1).n = At(b, more, i).n + 1
  <2> SUFFICES ASSUME NEW i \in 1..(all - 1), M(i).last
               PROVE  M(i + 1).n = M(i).n + 1
    BY DEF M
  <2>1. i \in 1..(total + size - 1)
    BY <1>1, <1>2, <1>13
  <2> QED
    BY <1>12, <2>1
<1>17. InFlightOf(b, more, handed, written + 1)
  <2>1. ~(Len(b) + Len(more) = 0)
    BY <1>1, <1>2, <1>6
  <2> QED
    BY <1>14, <1>15, <1>16, <2>1 DEF InFlightOf, all
<1> QED
  BY <1>17 DEF more, line

(* Fragments are read: only where the two parts meet has moved. *)
LEMMA FragmentsRead ==
  ASSUME NEW b \in Seq(Fragment), NEW c \in Seq(Fragment), NEW handed \in Nat,
         NEW written \in Nat, InFlightOf(b, c, handed, written), NEW n \in 0..Len(c)
  PROVE  InFlightOf(b \o SubSeq(c, 1, n), SubSeq(c, n + 1, Len(c)), handed, written)
<1> DEFINE b2 == b \o SubSeq(c, 1, n)
           c2 == SubSeq(c, n + 1, Len(c))
           total == Len(b) + Len(c)
<1>1. Len(b) \in Nat /\ Len(c) \in Nat /\ total \in Nat
  BY AtTypes
<1>2. /\ SubSeq(c, 1, n) \in Seq(Fragment) /\ Len(SubSeq(c, 1, n)) = n
      /\ \A k \in 1..n : SubSeq(c, 1, n)[k] = c[k]
      /\ c2 \in Seq(Fragment) /\ Len(c2) = Len(c) - n
      /\ \A k \in 1..(Len(c) - n) : c2[k] = c[n + k]
  BY PartsOfFragments
<1>3. /\ b2 \in Seq(Fragment) /\ Len(b2) = Len(b) + n
      /\ \A k \in 1..Len(b) : b2[k] = b[k]
      /\ \A k \in 1..n : b2[Len(b) + k] = c[k]
  BY <1>2, ConcatFragments
<1> HIDE DEF b2, c2
<1>4. ASSUME NEW i \in 1..total
      PROVE  At(b2, c2, i) = At(b, c, i)
  <2>1. CASE i <= Len(b)
    <3>1. i <= Len(b2) /\ i \in 1..Len(b)
      BY <1>1, <1>3, <2>1
    <3> QED
      BY <1>3, <2>1, <3>1 DEF At
  <2>2. CASE ~(i <= Len(b)) /\ i <= Len(b) + n
    <3>1. i - Len(b) \in 1..n /\ i = Len(b) + (i - Len(b)) /\ i <= Len(b2)
      BY <1>1, <1>3, <2>2
    <3>2. b2[i] = c[i - Len(b)]
      BY <1>3, <3>1
    <3> QED
      BY <2>2, <3>1, <3>2 DEF At
  <2>3. CASE ~(i <= Len(b) + n)
    <3>1. /\ ~(i <= Len(b)) /\ ~(i <= Len(b2))
          /\ i - Len(b2) \in 1..(Len(c) - n) /\ n + (i - Len(b2)) = i - Len(b)
      BY <1>1, <1>3, <2>3
    <3>2. c2[i - Len(b2)] = c[i - Len(b)]
      BY <1>2, <3>1
    <3> QED
      BY <3>1, <3>2 DEF At
  <2> QED
    BY <2>1, <2>2, <2>3
<1>5. Len(b2) + Len(c2) = total
  BY <1>1, <1>2, <1>3
<1>6. /\ total = 0 => handed = written
      /\ total > 0 => /\ At(b2, c2, 1).n = handed + 1
                      /\ At(b2, c2, total).n = written /\ At(b2, c2, total).last
  <2>1. total > 0 => 1 \in 1..total /\ total \in 1..total
    BY <1>1
  <2> QED
    BY <1>4, <2>1 DEF InFlightOf
<1>7. ASSUME NEW i \in 1..total, NEW j \in 1..total, i < j
      PROVE  /\ At(b2, c2, i).n <= At(b2, c2, j).n
             /\ At(b2, c2, i).n < At(b2, c2, j).n => \E m \in i..(j - 1) : At(b2, c2, m).last
  <2>1. \A m \in i..(j - 1) : m \in 1..total
    BY <1>1
  <2>2. /\ At(b, c, i).n <= At(b, c, j).n
        /\ At(b, c, i).n < At(b, c, j).n => \E m \in i..(j - 1) : At(b, c, m).last
    BY <1>7 DEF InFlightOf
  <2> QED
    BY <1>4, <2>1, <2>2
<1>8. ASSUME NEW i \in 1..(total - 1), At(b2, c2, i).last
      PROVE  At(b2, c2, i + 1).n = At(b2, c2, i).n + 1
  <2>1. i \in 1..total /\ i + 1 \in 1..total
    BY <1>1
  <2>2. At(b, c, i).last => At(b, c, i + 1).n = At(b, c, i).n + 1
    BY DEF InFlightOf
  <2> QED
    BY <1>4, <1>8, <2>1, <2>2
<1>9. InFlightOf(b2, c2, handed, written)
  BY <1>5, <1>6, <1>7, <1>8 DEF InFlightOf
<1> QED
  BY <1>9 DEF b2, c2

-----------------------------------------------------------------------------
(* The invariant: at the start, and step by step. *)

LEMMA StateTypes ==
  ASSUME TypeOK
  PROVE  /\ Len(sent) \in Nat /\ Len(got) \in Nat /\ Len(buf) \in Nat /\ Len(channel) \in Nat
         /\ queue \in Nat /\ queue <= Len(sent)
         /\ Written \in Nat /\ Written <= Len(sent) /\ Written + queue = Len(sent)
<1>1. Len(sent) \in Nat /\ Len(got) \in Nat /\ Len(buf) \in Nat /\ Len(channel) \in Nat
  BY DEF TypeOK
<1>2. queue \in 0..Len(sent)
  BY DEF TypeOK
<1> QED
  BY <1>1, <1>2 DEF Written

LEMMA InitInv == Init => IInv
<1> SUFFICES ASSUME Init
             PROVE  IInv
  OBVIOUS
<1>1. /\ Len(sent) = 0 /\ Len(got) = 0 /\ Len(buf) = 0 /\ Len(channel) = 0 /\ queue = 0
      /\ buf \in Seq(Fragment) /\ channel \in Seq(Fragment)
      /\ sent \in Seq(Kind) /\ got \in Seq(Nat)
  BY DEF Init
<1>2. Newlines(channel) = {} /\ Newlines(buf) = {}
  BY <1>1 DEF Newlines
<1>3. Cardinality(Newlines(channel)) <= Capacity
  BY <1>2, FS_EmptySet, ChannelAssumption
<1>4. chunks \in 0..MaxChunks
  BY ChannelAssumption DEF Init
<1>5. queue \in 0..Len(sent)
  BY <1>1
<1>6. Len(buf) <= Cap + MaxRead
  BY <1>1, ChannelAssumption
<1>7. TypeOK
  <2>1. /\ relay \in {"excerpt", "poll", "read", "emit", "over"}
        /\ producer \in {"open", "closed", "failed"} /\ consumer \in {"open", "closed"}
        /\ reader \in {"scan", "wait", "gone"} /\ outcome \in Outcome
        /\ cancelled \in BOOLEAN
    BY DEF Init, Outcome
  <2> QED
    BY <1>1, <1>3, <1>4, <1>5, <1>6, <2>1 DEF TypeOK
<1>8. outcome = "reading" /\ outcome \notin Terminal \cup {"ended"}
  BY DEF Init, Terminal
<1>9. DeliveredInOrder
  BY <1>1, <1>7, <1>8 DEF DeliveredInOrder
<1>10. InFlight
  <2>1. Len(buf) + Len(channel) = 0 /\ Len(got) = Written
    BY <1>1 DEF Written
  <2> QED
    BY <2>1 DEF InFlight, InFlightOf
<1>11. RelayInv
  BY <1>1 DEF RelayInv, Init, Written
<1>12. ReaderInv
  BY <1>1, <1>8 DEF ReaderInv, Init
<1> QED
  BY <1>9, <1>10, <1>11, <1>12 DEF IInv

(* No relay step but the five below changes what was sent or written, and  *)
(* no reader step but NextEvent and ReadBytes changes what is in flight.   *)
LEMMA QuietSteps ==
  ASSUME [Next]_vars
  PROVE  \/ RelayReads \/ Excerpt \/ Emit \/ NextEvent \/ ReadBytes
         \/ UNCHANGED <<chunks, sent, queue, channel, buf, got>>
BY DEF Next, RelayNext, ReaderNext, Cancel, RelayPoll, UpstreamEnds, UpstreamFails,
       ReadReleased, ChunkDone, EmitReleased, RelayStopped, RelayOver, TooLong, StartRead,
       ReadOver, WaitReleased, AllOver, relayVars, readerVars, vars

(* What the relay makes of a chunk is appended, and all of it is still to  *)
(* be written.                                                             *)
LEMMA ReadsEffect ==
  ASSUME TypeOK, RelayInv, RelayReads
  PROVE  /\ sent' \in Seq(Kind) /\ Len(sent') \in Nat /\ Len(sent') >= Len(sent)
         /\ queue' \in 0..Len(sent')
         /\ Written' = Written /\ Written = Len(sent) /\ relay # "over" /\ relay' = "emit"
         /\ \A k \in 1..Len(sent) : sent'[k] = sent[k]
         /\ \A k \in 1..(Len(sent') - 1) : k > Len(sent) => sent'[k] \notin Terminal
<1> PICK chunk \in VendorChunk : sent' = sent \o Translated(chunk)
                                 /\ queue' = Len(Translated(chunk))
  BY DEF RelayReads
<1> DEFINE t == Translated(chunk)
<1>1. t \in Seq(Kind) /\ \A k \in 1..(Len(t) - 1) : t[k] \notin Terminal
  BY TranslatedProperties
<1>2. sent' = sent \o t /\ queue' = Len(t)
  OBVIOUS
<1> HIDE DEF t
<1>3. sent \in Seq(Kind) /\ Len(sent) \in Nat /\ Len(t) \in Nat
  BY <1>1 DEF TypeOK
<1>4. /\ sent \o t \in Seq(Kind) /\ Len(sent \o t) = Len(sent) + Len(t)
      /\ \A k \in 1..Len(sent) : (sent \o t)[k] = sent[k]
      /\ \A k \in 1..Len(t) : (sent \o t)[Len(sent) + k] = t[k]
  BY <1>1, <1>3
<1>5. relay = "read" /\ relay' = "emit" /\ queue = 0
  BY DEF RelayReads, RelayInv
<1>6. ASSUME NEW k \in 1..(Len(sent') - 1), k > Len(sent)
      PROVE  sent'[k] \notin Terminal
  <2>1. k - Len(sent) \in 1..(Len(t) - 1) /\ k - Len(sent) \in 1..Len(t)
        /\ k = Len(sent) + (k - Len(sent))
    BY <1>2, <1>3, <1>4, <1>6
  <2>2. (sent \o t)[k] = t[k - Len(sent)]
    BY <1>4, <2>1
  <2> QED
    BY <1>1, <1>2, <2>1, <2>2
<1>7. Written = Len(sent) /\ Written' = Len(sent) /\ queue' \in 0..Len(sent')
      /\ Len(sent') \in Nat /\ Len(sent') >= Len(sent)
  BY <1>2, <1>3, <1>4, <1>5 DEF Written
<1> QED
  BY <1>2, <1>4, <1>5, <1>6, <1>7

LEMMA ExcerptEffect ==
  ASSUME TypeOK, RelayInv, Excerpt
  PROVE  /\ sent' \in Seq(Kind) /\ Len(sent') = 1 /\ Len(sent) = 0 /\ queue' \in 0..Len(sent')
         /\ Written' = Written /\ Written = 0 /\ relay # "over" /\ relay' = "emit"
<1>1. sent = <<>> /\ queue = 0 /\ sent' = <<"error">> /\ queue' = 1
      /\ relay = "excerpt" /\ relay' = "emit"
  BY DEF Excerpt, RelayInv
<1>2. "error" \in Kind
  BY DEF Kind, Terminal
<1>3. sent' \in Seq(Kind) /\ Len(sent') = 1 /\ Len(sent) = 0
  BY <1>1, <1>2
<1> QED
  BY <1>1, <1>3 DEF Written

(* The next event is written as one line, and is the one after those that  *)
(* were.                                                                   *)
LEMMA EmitEffect ==
  ASSUME TypeOK, Emit
  PROVE  /\ Written' = Written + 1 /\ Written + 1 \in 1..Len(sent) /\ queue' = queue - 1
         /\ \E size \in 1..MaxLine : channel' = channel \o Line(Written + 1, size)
         /\ Cardinality(Newlines(channel)) # Capacity
         /\ relay = "emit" /\ queue > 0
         /\ sent[Written + 1] \in Terminal => relay' = "over" /\ producer' = "closed"
         /\ sent[Written + 1] \notin Terminal => relay' = relay /\ producer' = producer
         /\ UNCHANGED <<chunks, sent, reader, buf, got, outcome, consumer, cancelled>>
<1>1. relay = "emit" /\ queue > 0 /\ "Delivered" \in classify_write
  BY DEF Emit, write_all
<1>2. Cardinality(Newlines(channel)) # Capacity
  BY <1>1 DEF classify_write, IsFull
<1>3. Due = Written + 1
  BY DEF Due, Written
<1>4. /\ queue' = queue - 1 /\ UNCHANGED <<chunks, sent, reader, buf, got, outcome, consumer, cancelled>>
      /\ \E size \in 1..MaxLine : channel' = channel \o Line(Written + 1, size)
      /\ sent[Written + 1] \in Terminal => relay' = "over" /\ producer' = "closed"
      /\ sent[Written + 1] \notin Terminal => relay' = relay /\ producer' = producer
  BY <1>3 DEF Emit, readerVars
<1>5. Written' = Written + 1 /\ Written + 1 \in 1..Len(sent)
  <2>1. Written' = Len(sent) - (queue - 1)
    BY <1>4 DEF Written
  <2> QED
    BY <1>1, <2>1, StateTypes DEF Written
<1>6. \E size \in 1..MaxLine : channel' = channel \o Line(Written + 1, size)
  BY <1>4
<1>7. /\ sent[Written + 1] \in Terminal => relay' = "over" /\ producer' = "closed"
      /\ sent[Written + 1] \notin Terminal => relay' = relay /\ producer' = producer
      /\ UNCHANGED <<chunks, sent, reader, buf, got, outcome, consumer, cancelled>> /\ queue' = queue - 1
  BY <1>4
<1> QED
  BY <1>1, <1>2, <1>5, <1>6, <1>7

(* The loop is handed the next event, which the relay has written.         *)
LEMMA NextEventEffect ==
  ASSUME TypeOK, InFlight, NextEvent
  PROVE  \E k \in Newlines(buf) :
           /\ \A j \in Newlines(buf) : k <= j
           /\ k \in 1..Len(buf)
           /\ buf' = SubSeq(buf, k + 1, Len(buf))
           /\ got' = Append(got, Len(got) + 1)
           /\ Len(got) + 1 \in 1..Written
           /\ reader = "scan"
           /\ sent[Len(got) + 1] \in Terminal =>
                outcome' = sent[Len(got) + 1] /\ reader' = "gone" /\ consumer' = "closed"
           /\ sent[Len(got) + 1] \notin Terminal => UNCHANGED <<reader, outcome, consumer>>
           /\ UNCHANGED <<relay, chunks, sent, queue, producer, channel, cancelled>>
<1> PICK k \in Newlines(buf) :
           /\ \A j \in Newlines(buf) : k <= j
           /\ buf' = SubSeq(buf, k + 1, Len(buf))
           /\ got' = Append(got, buf[k].n)
           /\ IF sent[buf[k].n] \in Terminal
              THEN Leave(sent[buf[k].n])
              ELSE UNCHANGED <<reader, outcome, consumer>>
  BY DEF NextEvent
<1>1. buf \in Seq(Fragment) /\ channel \in Seq(Fragment) /\ Len(got) \in Nat /\ Written \in Nat
  BY StateTypes DEF TypeOK
<1>2. InFlightOf(buf, channel, Len(got), Written)
  BY DEF InFlight
<1>3. k \in 1..Len(buf) /\ buf[k].n = Len(got) + 1 /\ Len(got) + 1 \in 1..Written
  BY <1>1, <1>2, FirstLine
<1>4. reader = "scan" /\ UNCHANGED <<relay, chunks, sent, queue, producer, channel, cancelled>>
  BY DEF NextEvent, relayVars
<1> QED
  BY <1>3, <1>4 DEF Leave

LEMMA TypeStep ==
  ASSUME TypeOK, InFlight, RelayInv, ReaderInv, [Next]_vars
  PROVE  TypeOK'
<1>1. /\ Len(sent) \in Nat /\ Len(got) \in Nat /\ Len(buf) \in Nat /\ Len(channel) \in Nat
      /\ queue \in 0..Len(sent) /\ chunks \in 0..MaxChunks
      /\ channel \in Seq(Fragment) /\ buf \in Seq(Fragment) /\ Written \in Nat
      /\ Cardinality(Newlines(channel)) <= Capacity /\ Len(buf) <= Cap + MaxRead
  BY StateTypes DEF TypeOK
<1>2. /\ relay' \in {"excerpt", "poll", "read", "emit", "over"}
      /\ producer' \in {"open", "closed", "failed"}
  BY DEF TypeOK, Next, RelayNext, ReaderNext, Cancel, RelayPoll, RelayReads, UpstreamEnds,
         UpstreamFails, ReadReleased, Excerpt, ChunkDone, Emit, EmitReleased, RelayStopped,
         RelayOver, NextEvent, TooLong, StartRead, ReadBytes, ReadOver, WaitReleased, AllOver,
         relayVars, vars
<1>3. consumer' \in {"open", "closed"} /\ reader' \in {"scan", "wait", "gone"}
  BY DEF TypeOK, Next, RelayNext, ReaderNext, Cancel, RelayPoll, RelayReads, UpstreamEnds,
         UpstreamFails, ReadReleased, Excerpt, ChunkDone, Emit, EmitReleased, RelayStopped,
         NextEvent, TooLong, StartRead, ReadBytes, ReadOver, WaitReleased, AllOver, Leave,
         readerVars, vars
<1>4. cancelled' \in BOOLEAN
  BY DEF TypeOK, Next, RelayNext, ReaderNext, Cancel, RelayPoll, RelayReads, UpstreamEnds,
         UpstreamFails, ReadReleased, Excerpt, ChunkDone, Emit, EmitReleased, RelayStopped,
         NextEvent, TooLong, StartRead, ReadBytes, ReadOver, WaitReleased, AllOver, vars
<1>5. outcome' \in Outcome
  <2>1. CASE NextEvent
    <3>1. outcome' \in Terminal \/ outcome' = outcome
      BY <2>1, NextEventEffect
    <3> QED
      BY <3>1 DEF TypeOK, Outcome, Terminal
  <2>2. CASE ~NextEvent
    BY <2>2 DEF TypeOK, Outcome, Next, RelayNext, ReaderNext, Cancel, RelayPoll, RelayReads,
         UpstreamEnds, UpstreamFails, ReadReleased, Excerpt, ChunkDone, Emit, EmitReleased,
         RelayStopped, TooLong, StartRead, ReadBytes, ReadOver, WaitReleased, AllOver,
         Leave, readerVars, vars
  <2> QED
    BY <2>1, <2>2
<1>6. CASE RelayReads
  <2>1. chunks' \in 0..MaxChunks
    BY <1>1, <1>6, ChannelAssumption DEF RelayReads
  <2>2. UNCHANGED <<channel, buf, got>>
    BY <1>6 DEF RelayReads, readerVars
  <2>3. sent' \in Seq(Kind) /\ queue' \in 0..Len(sent')
    BY <1>6, ReadsEffect
  <2> QED
    BY <1>1, <1>2, <1>3, <1>4, <1>5, <2>1, <2>2, <2>3 DEF TypeOK
<1>7. CASE Excerpt
  <2>1. UNCHANGED <<chunks, channel, buf, got>>
    BY <1>7 DEF Excerpt, readerVars
  <2>2. sent' \in Seq(Kind) /\ queue' \in 0..Len(sent')
    BY <1>7, ExcerptEffect
  <2> QED
    BY <1>1, <1>2, <1>3, <1>4, <1>5, <2>1, <2>2 DEF TypeOK
<1>8. CASE Emit
  <2>1. UNCHANGED <<chunks, sent, buf, got>> /\ queue' = queue - 1 /\ queue > 0
        /\ Cardinality(Newlines(channel)) # Capacity
    BY <1>8, EmitEffect
  <2> PICK size \in 1..MaxLine : channel' = channel \o Line(Written + 1, size)
    BY <1>8, EmitEffect
  <2>2. Written + 1 \in Nat /\ Line(Written + 1, size) \in Seq(Fragment)
    <3>1. Written + 1 \in Nat
      BY <1>1
    <3> HIDE DEF Written
    <3> QED BY <3>1, LineProperties
  <2>3. channel' \in Seq(Fragment)
    BY <1>1, <2>2, ConcatFragments
  <2>4. Cardinality(Newlines(channel \o Line(Written + 1, size))) <= Capacity
    BY <1>1, <2>1, <2>2, LineFits
  <2>5. Cardinality(Newlines(channel))' <= Capacity
    BY <2>4
  <2>6. queue' \in 0..Len(sent')
    BY <1>1, <2>1
  <2> QED
    BY <1>1, <1>2, <1>3, <1>4, <1>5, <2>1, <2>3, <2>5, <2>6 DEF TypeOK
<1>9. CASE NextEvent
  <2> PICK k \in 1..Len(buf) : buf' = SubSeq(buf, k + 1, Len(buf))
    BY <1>9, NextEventEffect
  <2>1. /\ got' = Append(got, Len(got) + 1) /\ Len(got) + 1 \in Nat
        /\ UNCHANGED <<chunks, sent, queue, channel>>
    BY <1>1, <1>9, NextEventEffect
  <2>2. k \in 0..Len(buf) /\ k \in Nat /\ k >= 1
    BY <1>1
  <2>3. buf' \in Seq(Fragment) /\ Len(buf') = Len(buf) - k
    BY <1>1, <2>2, PartsOfFragments
  <2>4. Len(buf') <= Cap + MaxRead
    BY <1>1, <2>2, <2>3, ChannelAssumption
  <2>5. got' \in Seq(Nat)
    BY <2>1 DEF TypeOK
  <2> QED
    BY <1>1, <1>2, <1>3, <1>4, <1>5, <2>1, <2>3, <2>4, <2>5 DEF TypeOK
<1>10. CASE ReadBytes
  <2> PICK n \in 1..MaxRead : /\ n <= Len(channel)
                              /\ buf' = buf \o SubSeq(channel, 1, n)
                              /\ channel' = SubSeq(channel, n + 1, Len(channel))
    BY <1>10 DEF ReadBytes
  <2>1. n \in 0..Len(channel) /\ n \in Nat /\ n <= MaxRead
    BY <1>1, ChannelAssumption
  <2>2. /\ SubSeq(channel, 1, n) \in Seq(Fragment) /\ Len(SubSeq(channel, 1, n)) = n
        /\ channel' \in Seq(Fragment)
    BY <1>1, <2>1, PartsOfFragments
  <2>3. buf' \in Seq(Fragment) /\ Len(buf') = Len(buf) + n
    BY <1>1, <2>2, ConcatFragments
  <2>4. Len(buf) <= Cap
    BY <1>10 DEF ReadBytes, ReaderInv
  <2>5. Len(buf') <= Cap + MaxRead
    BY <1>1, <2>1, <2>3, <2>4, ChannelAssumption
  <2>6. Cardinality(Newlines(SubSeq(channel, n + 1, Len(channel)))) <= Capacity
    BY <1>1, <2>1, RestFits
  <2>7. Cardinality(Newlines(channel))' <= Capacity
    BY <2>6
  <2>8. UNCHANGED <<chunks, sent, queue, got>>
    BY <1>10 DEF ReadBytes, relayVars
  <2> QED
    BY <1>1, <1>2, <1>3, <1>4, <1>5, <2>2, <2>3, <2>5, <2>7, <2>8 DEF TypeOK
<1>11. CASE UNCHANGED <<chunks, sent, queue, channel, buf, got>>
  <2>1. Cardinality(Newlines(channel))' <= Capacity
    <3>1. Newlines(channel)' = Newlines(channel)
      BY <1>11 DEF Newlines
    <3> QED
      BY <1>1, <3>1
  <2> QED
    BY <1>1, <1>2, <1>3, <1>4, <1>5, <1>11, <2>1 DEF TypeOK
<1> QED
  BY <1>6, <1>7, <1>8, <1>9, <1>10, <1>11, QuietSteps

LEMMA InFlightStep ==
  ASSUME TypeOK, InFlight, RelayInv, [Next]_vars
  PROVE  InFlight'
<1>1. /\ Len(got) \in Nat /\ Written \in Nat
      /\ buf \in Seq(Fragment) /\ channel \in Seq(Fragment)
      /\ InFlightOf(buf, channel, Len(got), Written)
  BY StateTypes DEF TypeOK, InFlight
<1>2. ASSUME UNCHANGED <<buf, channel, got>>, Written' = Written
      PROVE  InFlight'
  <2>1. InFlightOf(buf', channel', Len(got'), Written')
    BY <1>1, <1>2
  <2> QED
    BY <2>1 DEF InFlight
<1>3. CASE RelayReads
  <2>1. UNCHANGED <<buf, channel, got>>
    BY <1>3 DEF RelayReads, readerVars
  <2> QED
    BY <1>2, <1>3, <2>1, ReadsEffect
<1>4. CASE Excerpt
  <2>1. UNCHANGED <<buf, channel, got>>
    BY <1>4 DEF Excerpt, readerVars
  <2> QED
    BY <1>2, <1>4, <2>1, ExcerptEffect
<1>5. CASE Emit
  <2>1. UNCHANGED <<buf, got>> /\ Written' = Written + 1
    BY <1>5, EmitEffect
  <2> PICK size \in 1..MaxLine : channel' = channel \o Line(Written + 1, size)
    BY <1>5, EmitEffect
  <2>2. InFlightOf(buf, channel \o Line(Written + 1, size), Len(got), Written + 1)
    BY <1>1, LineWritten
  <2>3. InFlightOf(buf', channel', Len(got'), Written')
    BY <2>1, <2>2
  <2> QED
    BY <2>3 DEF InFlight
<1>6. CASE NextEvent
  <2> PICK k \in Newlines(buf) : /\ \A j \in Newlines(buf) : k <= j
                                 /\ buf' = SubSeq(buf, k + 1, Len(buf))
    BY <1>6, NextEventEffect
  <2>1. got' = Append(got, Len(got) + 1) /\ UNCHANGED <<sent, queue, channel>>
    BY <1>6, NextEventEffect
  <2>2. Len(got') = Len(got) + 1 /\ Written' = Written
    BY <2>1 DEF Written, TypeOK
  <2>3. InFlightOf(SubSeq(buf, k + 1, Len(buf)), channel, Len(got) + 1, Written)
    BY <1>1, LineHandedOut
  <2>4. InFlightOf(buf', channel', Len(got'), Written')
    BY <2>1, <2>2, <2>3
  <2> QED
    BY <2>4 DEF InFlight
<1>7. CASE ReadBytes
  <2> PICK n \in 1..MaxRead : /\ n <= Len(channel)
                              /\ buf' = buf \o SubSeq(channel, 1, n)
                              /\ channel' = SubSeq(channel, n + 1, Len(channel))
    BY <1>7 DEF ReadBytes
  <2>1. UNCHANGED <<sent, queue, got>>
    BY <1>7 DEF ReadBytes, relayVars
  <2>2. n \in 0..Len(channel) /\ Written' = Written
    BY <1>1, <2>1, ChannelAssumption DEF Written
  <2>3. InFlightOf(buf \o SubSeq(channel, 1, n), SubSeq(channel, n + 1, Len(channel)),
                   Len(got), Written)
    BY <1>1, <2>2, FragmentsRead
  <2>4. InFlightOf(buf', channel', Len(got'), Written')
    BY <2>1, <2>2, <2>3
  <2> QED
    BY <2>4 DEF InFlight
<1>8. CASE UNCHANGED <<chunks, sent, queue, channel, buf, got>>
  BY <1>2, <1>8 DEF Written
<1> QED
  BY <1>3, <1>4, <1>5, <1>6, <1>7, <1>8, QuietSteps

(* What the relay may still write: it goes on only while nothing terminal  *)
(* was written, and closes its output with all written, unless it was cut. *)
LEMMA RelayStep ==
  ASSUME DeliveredInOrder, InFlight, RelayInv, ReaderInv, [Next]_vars
  PROVE  RelayInv'
<1>1. /\ TypeOK /\ Len(sent) \in Nat /\ Written \in Nat /\ queue \in Nat
      /\ Written + queue = Len(sent)
      /\ \A k \in 1..(Len(sent) - 1) : sent[k] \notin Terminal
  BY StateTypes DEF DeliveredInOrder
<1>2. CASE RelayReads
  <2>1. UNCHANGED <<producer, consumer, cancelled>>
    BY <1>2 DEF RelayReads, readerVars
  <2>2. relay' = "emit" /\ relay # "over" /\ Written' = Written /\ Written = Len(sent)
        /\ \A k \in 1..Len(sent) : sent'[k] = sent[k]
    BY <1>1, <1>2, ReadsEffect
  <2>3. producer = "open" /\ \A k \in 1..Written : sent[k] \notin Terminal
    BY <2>2 DEF RelayInv
  <2>4. \A k \in 1..Written' : sent'[k] \notin Terminal
    BY <2>2, <2>3
  <2> QED
    BY <2>1, <2>2, <2>3, <2>4 DEF RelayInv
<1>3. CASE Excerpt
  <2>1. UNCHANGED <<producer, consumer, cancelled>>
    BY <1>3 DEF Excerpt, readerVars
  <2>2. relay' = "emit" /\ relay # "over" /\ Written' = 0
    BY <1>1, <1>3, ExcerptEffect
  <2> QED
    BY <2>1, <2>2 DEF RelayInv
<1>4. CASE Emit
  <2>1. /\ Written' = Written + 1 /\ Written + 1 \in 1..Len(sent) /\ queue' = queue - 1
        /\ relay = "emit" /\ queue > 0
        /\ UNCHANGED <<sent, consumer, cancelled>>
    BY <1>1, <1>4, EmitEffect
  <2>2. \A k \in 1..Written : sent[k] \notin Terminal
    BY <2>1 DEF RelayInv
  <2>3. CASE sent[Written + 1] \in Terminal
    <3>1. relay' = "over" /\ producer' = "closed"
      BY <1>1, <1>4, <2>3, EmitEffect
    <3>2. Written + 1 = Len(sent)
      BY <1>1, <2>1, <2>3
    <3>3. queue' = 0
      BY <1>1, <2>1, <3>2
    <3> QED
      BY <3>1, <3>3 DEF RelayInv
  <2>4. CASE sent[Written + 1] \notin Terminal
    <3>1. UNCHANGED <<relay, producer>>
      BY <1>1, <1>4, <2>4, EmitEffect
    <3>2. \A k \in 1..Written' : sent'[k] \notin Terminal
      BY <1>1, <2>1, <2>2, <2>4
    <3>3. producer = "open"
      BY <2>1 DEF RelayInv
    <3> QED
      BY <2>1, <3>1, <3>2, <3>3 DEF RelayInv
  <2> QED
    BY <2>3, <2>4
<1>5. CASE UNCHANGED <<sent, queue>>
  <2>1. Written' = Written /\ UNCHANGED <<sent, queue>>
    BY <1>5 DEF Written
  <2>2. CASE UNCHANGED <<relay, producer>> /\ (consumer' = "open" => consumer = "open")
             /\ (cancelled => cancelled')
    BY <2>1, <2>2 DEF RelayInv
  <2>3. ASSUME RelayPoll \/ UpstreamEnds \/ UpstreamFails \/ ReadReleased \/ ChunkDone
               \/ EmitReleased \/ RelayStopped
        PROVE  RelayInv'
    <3>1. UNCHANGED <<consumer, cancelled>> /\ relay # "over"
      BY <2>3 DEF RelayPoll, UpstreamEnds, UpstreamFails, ReadReleased, ChunkDone,
                  EmitReleased, RelayStopped, write_all, readerVars
    <3>2. \/ relay' = "over" /\ producer' = "failed"
          \/ relay' = "over" /\ producer' = "closed" /\ (cancelled \/ queue = 0)
          \/ relay' = "over" /\ producer' = "closed" /\ EmitReleased
          \/ relay' \in {"read", "poll"} /\ queue = 0 /\ producer' = producer
      BY <2>3 DEF RelayPoll, UpstreamEnds, UpstreamFails, ReadReleased, ChunkDone,
                  EmitReleased, RelayStopped, RelayOver, RelayInv
    <3>3. EmitReleased => consumer = "closed" \/ cancelled
      BY DEF EmitReleased, write_all, classify_write
    <3>4. producer = "open" /\ \A k \in 1..Written : sent[k] \notin Terminal
      BY <3>1 DEF RelayInv
    <3> QED
      BY <2>1, <3>1, <3>2, <3>3, <3>4 DEF RelayInv
  <2>4. Cancel \/ ReaderNext \/ AllOver \/ UNCHANGED vars
        => UNCHANGED <<relay, producer>> /\ (consumer' = "open" => consumer = "open")
           /\ (cancelled => cancelled')
    BY DEF Cancel, ReaderNext, NextEvent, TooLong, StartRead, ReadBytes, ReadOver,
           WaitReleased, AllOver, Leave, relayVars, readerVars, vars
  <2>5. \/ RelayPoll \/ UpstreamEnds \/ UpstreamFails \/ ReadReleased \/ ChunkDone
        \/ EmitReleased \/ RelayStopped \/ RelayReads \/ Excerpt \/ Emit
        \/ Cancel \/ ReaderNext \/ AllOver \/ UNCHANGED vars
    BY DEF Next, RelayNext
  <2> QED
    BY <1>2, <1>3, <1>4, <2>2, <2>3, <2>4, <2>5
<1>6. NextEvent \/ ReadBytes => UNCHANGED <<sent, queue>>
  BY DEF NextEvent, ReadBytes, relayVars
<1> QED
  BY <1>2, <1>3, <1>4, <1>5, <1>6, QuietSteps

(* While the loop reads, it was handed nothing terminal; and an end it was *)
(* told of is the relay's.                                                 *)
LEMMA ReaderStep ==
  ASSUME DeliveredInOrder, InFlight, RelayInv, ReaderInv, [Next]_vars
  PROVE  ReaderInv'
<1>1. /\ TypeOK /\ Len(sent) \in Nat /\ Written \in Nat /\ Len(got) \in Nat
      /\ Written <= Len(sent) /\ got \in Seq(Nat)
  BY StateTypes DEF DeliveredInOrder, TypeOK
<1>2. Len(got) <= Written
  BY <1>1, NotHandedOut DEF InFlight, TypeOK
<1>3. outcome # "reading" => reader = "gone"
  BY DEF ReaderInv
<1>4. CASE RelayReads
  <2>1. UNCHANGED <<reader, buf, got, outcome, consumer>>
    BY <1>4 DEF RelayReads, readerVars
  <2>2. relay # "over" /\ Written = Len(sent)
        /\ \A k \in 1..Len(sent) : sent'[k] = sent[k]
    BY <1>1, <1>4, ReadsEffect
  <2>3. Newlines(buf)' = Newlines(buf)
    BY <2>1 DEF Newlines
  <2>4. \A k \in 1..Len(got) : sent'[k] = sent[k]
    BY <1>1, <1>2, <2>2
  <2> QED
    BY <2>1, <2>2, <2>3, <2>4 DEF ReaderInv
<1>5. CASE Excerpt
  <2>1. UNCHANGED <<reader, buf, got, outcome, consumer>>
    BY <1>5 DEF Excerpt, readerVars
  <2>2. relay # "over" /\ Written = 0
    BY <1>1, <1>5, ExcerptEffect
  <2>3. Newlines(buf)' = Newlines(buf)
    BY <2>1 DEF Newlines
  <2>4. Len(got) = 0
    BY <1>1, <1>2, <2>2
  <2> QED
    BY <2>1, <2>2, <2>3, <2>4 DEF ReaderInv
<1>6. CASE NextEvent
  <2>1. /\ got' = Append(got, Len(got) + 1) /\ Len(got) + 1 \in 1..Written /\ reader = "scan"
        /\ UNCHANGED <<relay, sent>>
    BY <1>1, <1>6, NextEventEffect
  <2>2. Len(got') = Len(got) + 1 /\ Len(sent) > 0
    BY <1>1, <2>1
  <2>3. \A k \in 1..Len(got) : sent[k] \notin Terminal
    BY <2>1 DEF ReaderInv
  <2>4. CASE sent[Len(got) + 1] \in Terminal
    <3>1. reader' = "gone" /\ outcome' \in Terminal
      BY <1>1, <1>6, <2>4, NextEventEffect
    <3>2. relay = "over"
      BY <2>1, <2>4 DEF RelayInv
    <3> QED
      BY <2>1, <2>2, <3>1, <3>2 DEF ReaderInv
  <2>5. CASE sent[Len(got) + 1] \notin Terminal
    <3>1. UNCHANGED <<reader, outcome, consumer>>
      BY <1>1, <1>6, <2>5, NextEventEffect
    <3>2. \A k \in 1..Len(got') : sent'[k] \notin Terminal
      BY <1>1, <2>1, <2>2, <2>3, <2>5
    <3> QED
      BY <2>1, <3>1, <3>2 DEF ReaderInv
  <2> QED
    BY <2>4, <2>5
<1>7. CASE ~RelayReads /\ ~Excerpt /\ ~NextEvent
  <2>1. UNCHANGED <<sent, got>>
    BY <1>7 DEF Next, RelayNext, ReaderNext, Cancel, RelayPoll, UpstreamEnds, UpstreamFails,
       ReadReleased, ChunkDone, Emit, EmitReleased, RelayStopped, RelayOver, TooLong,
       StartRead, ReadBytes, ReadOver, WaitReleased, AllOver, relayVars, readerVars, vars
  <2>2. relay = "over" => relay' = "over"
    BY <1>7 DEF Next, RelayNext, ReaderNext, Cancel, RelayPoll, UpstreamEnds, UpstreamFails,
       ReadReleased, ChunkDone, Emit, EmitReleased, RelayStopped, RelayOver, TooLong, write_all,
       StartRead, ReadBytes, ReadOver, WaitReleased, AllOver, relayVars, vars
  <2>3. \/ UNCHANGED <<reader, buf, outcome, consumer>>
        \/ StartRead \/ ReadBytes
        \/ /\ reader' = "gone"
           /\ \/ outcome' \in {"too_long", "cancelled", "source_failed"}
              \/ outcome' = "ended" /\ producer = "closed" /\ relay' = relay
    BY <1>7 DEF Next, RelayNext, ReaderNext, Cancel, RelayPoll, UpstreamEnds, UpstreamFails,
       ReadReleased, ChunkDone, Emit, EmitReleased, RelayStopped, RelayOver, TooLong, Leave,
       ReadOver, WaitReleased, AllOver, relayVars, readerVars, vars
  <2>4. CASE UNCHANGED <<reader, buf, outcome, consumer>>
    <3>1. Newlines(buf)' = Newlines(buf)
      BY <2>4 DEF Newlines
    <3> QED
      BY <2>1, <2>2, <2>4, <3>1 DEF ReaderInv
  <2>5. CASE StartRead
    <3>1. reader = "scan" /\ Newlines(buf) = {} /\ Len(buf) <= Cap /\ UNCHANGED <<buf, relay>>
      BY <2>5 DEF StartRead, HasLine, relayVars
    <3>2. \/ reader' = "gone" /\ outcome' = "cancelled"
          \/ UNCHANGED <<outcome, consumer>>
      BY <2>5 DEF StartRead, Leave
    <3>3. Newlines(buf)' = {}
      BY <3>1 DEF Newlines
    <3> QED
      BY <2>1, <3>1, <3>2, <3>3 DEF ReaderInv, Terminal
  <2>6. CASE ReadBytes
    <3>1. reader = "wait" /\ reader' = "scan" /\ UNCHANGED <<outcome, consumer, relay>>
      BY <2>6 DEF ReadBytes, relayVars
    <3> QED
      BY <2>1, <3>1 DEF ReaderInv
  <2>7. CASE /\ reader' = "gone"
             /\ \/ outcome' \in {"too_long", "cancelled", "source_failed"}
                \/ outcome' = "ended" /\ producer = "closed" /\ relay' = relay
    <3>1. producer = "closed" => relay = "over"
      BY DEF RelayInv
    <3> QED
      BY <2>7, <3>1 DEF ReaderInv, Terminal
  <2> QED
    BY <2>3, <2>4, <2>5, <2>6, <2>7
<1> QED
  BY <1>4, <1>5, <1>6, <1>7

(* A terminal event is the last one, and the loop has the ones before it.  *)
LEMMA DeliveredStep ==
  ASSUME DeliveredInOrder, InFlight, RelayInv, ReaderInv, TypeOK', [Next]_vars
  PROVE  DeliveredInOrder'
<1>1. /\ TypeOK /\ Len(sent) \in Nat /\ Written \in Nat /\ Len(got) \in Nat
      /\ Written <= Len(sent) /\ got \in Seq(Nat)
      /\ \A k \in 1..Len(got) : got[k] = k
      /\ \A k \in 1..(Len(sent) - 1) : sent[k] \notin Terminal
  BY StateTypes DEF DeliveredInOrder, TypeOK
<1>2. /\ outcome \in Terminal => Len(got) = Len(sent) /\ sent[Len(sent)] = outcome
      /\ outcome = "ended" =>
           Len(got) = Len(sent) /\ \A k \in 1..Len(sent) : sent[k] \notin Terminal
      /\ outcome \in Terminal \cup {"ended"} => relay = "over"
  BY DEF DeliveredInOrder, ReaderInv
<1>3. CASE RelayReads
  <2>1. UNCHANGED <<got, outcome>>
    BY <1>3 DEF RelayReads, readerVars
  <2>2. /\ relay # "over" /\ Written = Len(sent) /\ Len(sent') \in Nat
        /\ \A k \in 1..Len(sent) : sent'[k] = sent[k]
        /\ \A k \in 1..(Len(sent') - 1) : k > Len(sent) => sent'[k] \notin Terminal
    BY <1>1, <1>3, ReadsEffect
  <2>3. \A k \in 1..Len(sent) : sent[k] \notin Terminal
    BY <2>2 DEF RelayInv
  <2>4. \A k \in 1..(Len(sent') - 1) : sent'[k] \notin Terminal
    <3>1. Len(sent) \in Nat
      BY <1>1
    <3> QED BY <2>2, <2>3, <3>1
  <2> QED
    BY <1>1, <1>2, <2>1, <2>2, <2>4 DEF DeliveredInOrder
<1>4. CASE Excerpt
  <2>1. UNCHANGED <<got, outcome>>
    BY <1>4 DEF Excerpt, readerVars
  <2>2. relay # "over" /\ Len(sent') = 1
    BY <1>1, <1>4, ExcerptEffect
  <2>3. \A k \in 1..(Len(sent') - 1) : sent'[k] \notin Terminal
    BY <2>2
  <2> QED
    BY <1>1, <1>2, <2>1, <2>2, <2>3 DEF DeliveredInOrder
<1>5. CASE NextEvent
  <2>1. /\ got' = Append(got, Len(got) + 1) /\ Len(got) + 1 \in 1..Written /\ reader = "scan"
        /\ UNCHANGED <<relay, sent>>
    BY <1>1, <1>5, NextEventEffect
  <2>2. Len(got') = Len(got) + 1 /\ \A k \in 1..Len(got') : got'[k] = k
    BY <1>1, <2>1
  <2>3. outcome = "reading"
    BY <2>1 DEF ReaderInv
  <2>4. CASE sent[Len(got) + 1] \in Terminal
    <3>1. outcome' = sent[Len(got) + 1]
      BY <1>1, <1>5, <2>4, NextEventEffect
    <3>2. Len(got) + 1 = Len(sent)
      BY <1>1, <2>1, <2>4
    <3>3. outcome' # "ended"
      BY <2>4, <3>1 DEF Terminal
    <3> QED
      BY <1>1, <2>1, <2>2, <3>1, <3>2, <3>3 DEF DeliveredInOrder
  <2>5. CASE sent[Len(got) + 1] \notin Terminal
    <3>1. outcome' = "reading"
      BY <1>1, <1>5, <2>3, <2>5, NextEventEffect
    <3> QED
      BY <1>1, <2>1, <2>2, <3>1 DEF DeliveredInOrder, Terminal
  <2> QED
    BY <2>4, <2>5
<1>6. CASE ReadOver
  <2>1. UNCHANGED <<sent, got>> /\ reader = "wait" /\ channel = <<>>
    BY <1>6 DEF ReadOver, relayVars
  <2>2. outcome' \in {"cancelled", "source_failed"}
        \/ (outcome' = "ended" /\ ~cancelled /\ producer = "closed")
    BY <1>6 DEF ReadOver, Leave
  <2>3. Newlines(buf) = {} /\ consumer = "open"
        /\ \A k \in 1..Len(got) : sent[k] \notin Terminal
    BY <2>1 DEF ReaderInv
  <2>4. Len(got) = Written
    <3>1. /\ Len(channel) = 0 /\ Len(buf) \in Nat
          /\ buf \in Seq(Fragment) /\ channel \in Seq(Fragment)
      BY <1>1, <2>1, StateTypes DEF TypeOK
    <3>2. Len(buf) = 0
      <4> SUFFICES ASSUME Len(buf) # 0
                   PROVE  FALSE
        OBVIOUS
      <4>1. Len(buf) \in 1..Len(buf) /\ Len(buf) + Len(channel) = Len(buf) /\ Len(buf) > 0
        BY <3>1
      <4>2. At(buf, channel, Len(buf)).last
        BY <4>1 DEF InFlight, InFlightOf
      <4>3. buf[Len(buf)].last
        BY <4>1, <4>2 DEF At
      <4> QED
        BY <2>3, <4>1, <4>3 DEF Newlines
    <3> QED
      BY <3>1, <3>2 DEF InFlight, InFlightOf
  <2>5. outcome' = "ended" => Written = Len(sent)
    <3>1. outcome' = "ended" => queue = 0
      BY <2>2, <2>3 DEF RelayInv
    <3> QED
      BY <1>1, <3>1 DEF Written
  <2>6. outcome' \notin Terminal
    BY <2>2 DEF Terminal
  <2> QED
    BY <1>1, <2>1, <2>3, <2>4, <2>5, <2>6 DEF DeliveredInOrder
<1>7. CASE ~RelayReads /\ ~Excerpt /\ ~NextEvent /\ ~ReadOver
  <2>1. UNCHANGED <<sent, got>>
    BY <1>7 DEF Next, RelayNext, ReaderNext, Cancel, RelayPoll, UpstreamEnds, UpstreamFails,
       ReadReleased, ChunkDone, Emit, EmitReleased, RelayStopped, RelayOver, TooLong,
       StartRead, ReadBytes, WaitReleased, AllOver, relayVars, readerVars, vars
  <2>2. outcome' \in {outcome, "too_long", "cancelled"}
    BY <1>7 DEF Next, RelayNext, ReaderNext, Cancel, RelayPoll, UpstreamEnds, UpstreamFails,
       ReadReleased, ChunkDone, Emit, EmitReleased, RelayStopped, TooLong, Leave,
       StartRead, ReadBytes, WaitReleased, AllOver, readerVars, vars
  <2>3. {"too_long", "cancelled"} \cap (Terminal \cup {"ended"}) = {}
    BY DEF Terminal
  <2> QED
    BY <1>1, <1>2, <2>1, <2>2, <2>3 DEF DeliveredInOrder
<1> QED
  BY <1>3, <1>4, <1>5, <1>6, <1>7

LEMMA Inductive == Spec => []IInv
<1>1. IInv /\ [Next]_vars => IInv'
  <2> SUFFICES ASSUME IInv, [Next]_vars
               PROVE  IInv'
    OBVIOUS
  <2>1. DeliveredInOrder /\ TypeOK /\ InFlight /\ RelayInv /\ ReaderInv
    BY DEF IInv, DeliveredInOrder
  <2>2. TypeOK'
    BY <2>1, TypeStep
  <2>3. InFlight' /\ RelayInv' /\ ReaderInv' /\ DeliveredInOrder'
    BY <2>1, <2>2, InFlightStep, RelayStep, ReaderStep, DeliveredStep
  <2> QED
    BY <2>3 DEF IInv
<1> QED
  BY <1>1, InitInv, PTL DEF Spec

-----------------------------------------------------------------------------
(***************************************************************************)
(* However the lines are cut and whatever the buffers hold, the loop is    *)
(* handed the vendor's events once and in order, the terminal one last,    *)
(* and an early end is one at which it has all there were (relay_sse,      *)
(* EventReader::next).                                                     *)
(***************************************************************************)
THEOREM EventsDelivered == Spec => []DeliveredInOrder
<1>1. IInv => DeliveredInOrder
  BY DEF IInv
<1> QED
  BY <1>1, Inductive, PTL

(***************************************************************************)
(* Nothing the relay still does once the token has fired makes the stream  *)
(* look ended or failed: the reader reads the token with the code of the   *)
(* read (EventReader::next).                                               *)
(***************************************************************************)
THEOREM TheTokenDecides == Spec => TokenDecides
<1>1. [Next]_vars => [cancelled /\ outcome' # outcome
                       => outcome' \notin {"ended", "source_failed"}]_vars
  <2> SUFFICES ASSUME Next, cancelled, outcome' # outcome
               PROVE  outcome' \notin {"ended", "source_failed"}
    BY Zenon
  <2>1. ASSUME NextEvent
        PROVE  outcome' \in Terminal
    BY <2>1 DEF NextEvent, Leave
  <2>2. ASSUME ~NextEvent
        PROVE  outcome' \in {"too_long", "cancelled"}
    BY <2>2 DEF Next, RelayNext, ReaderNext, Cancel, RelayPoll, RelayReads, UpstreamEnds,
       UpstreamFails, ReadReleased, Excerpt, ChunkDone, Emit, EmitReleased, RelayStopped,
       TooLong, StartRead, ReadBytes, ReadOver, WaitReleased, AllOver, Leave, readerVars, vars
  <2> QED
    BY <2>1, <2>2 DEF Terminal
<1> QED
  BY <1>1, PTL DEF Spec, TokenDecides

(***************************************************************************)
(* The fragments between the two sides are always whole lines of the       *)
(* events written and not yet handed out, but for what a read has taken    *)
(* off the first of them: nothing is lost or repeated where a read cuts a  *)
(* line (EventReader::next).                                               *)
(***************************************************************************)
THEOREM LinesStayWhole == Spec => []InFlight
<1>1. IInv => InFlight
  BY DEF IInv
<1> QED
  BY <1>1, Inductive, PTL
-----------------------------------------------------------------------------
(* The event stream: what it is handed, as kinds. *)

LEMMA HandedIs ==
  ASSUME IInv
  PROVE  /\ Len(got) \in Nat /\ Len(sent) \in Nat /\ Len(got) <= Len(sent)
         /\ Handed = [k \in 1..Len(got) |-> sent[k]]
         /\ Handed \in Seq(Kind) /\ Len(Handed) = Len(got)
<1>1. /\ Len(sent) \in Nat /\ Len(got) \in Nat /\ Written \in Nat /\ Written <= Len(sent)
      /\ buf \in Seq(Fragment) /\ channel \in Seq(Fragment) /\ sent \in Seq(Kind)
      /\ \A k \in 1..Len(got) : got[k] = k
  BY StateTypes DEF IInv, DeliveredInOrder, TypeOK
<1>2. Len(got) <= Written
  BY <1>1, NotHandedOut DEF IInv, InFlight
<1>3. Len(got) <= Len(sent)
  BY <1>1, <1>2
<1>4. Handed = [k \in 1..Len(got) |-> sent[k]]
  BY <1>1 DEF Handed
<1>5. \A k \in 1..Len(got) : sent[k] \in Kind
  BY <1>1, <1>3
<1> QED
  BY <1>1, <1>3, <1>4, <1>5

(* What was handed over stays so while more events are made. *)
LEMMA HandedStays ==
  ASSUME IInv, IInv', UNCHANGED got, \A k \in 1..Len(sent) : sent'[k] = sent[k]
  PROVE  UNCHANGED Handed
<1>1. /\ Len(got) \in Nat /\ Len(sent) \in Nat /\ Len(got) <= Len(sent)
      /\ Handed = [k \in 1..Len(got) |-> sent[k]]
  BY HandedIs
<1>2. Handed' = [k \in 1..Len(got') |-> sent'[k]]
  <2>1. \A k \in 1..Len(got') : got'[k] = k
    BY DEF IInv, DeliveredInOrder
  <2> QED
    BY <2>1 DEF Handed
<1>3. \A k \in 1..Len(got) : sent'[k] = sent[k]
  BY <1>1
<1> QED
  BY <1>1, <1>2, <1>3

(* Events made by the relay are events made. *)
LEMMA MakeStep ==
  ASSUME IInv, IInv', UNCHANGED <<got, outcome, cancelled>>, relay # "over",
         Len(sent') >= Len(sent), \A k \in 1..Len(sent) : sent'[k] = sent[k]
  PROVE  S!Make \/ UNCHANGED S!vars
<1>1. UNCHANGED Handed
  BY HandedStays
<1>2. /\ sent \in Seq(Kind) /\ sent' \in Seq(Kind)
      /\ \A k \in 1..(Len(sent') - 1) : sent'[k] \notin Terminal
      /\ outcome # "ended"
  BY DEF IInv, DeliveredInOrder, TypeOK, ReaderInv
<1>3. S!Kind = Kind /\ S!Terminal = Terminal
  BY DEF S!Kind, S!Terminal, Kind, Terminal
<1>4. CASE Len(sent') > Len(sent)
  BY <1>1, <1>2, <1>3, <1>4 DEF S!Make
<1>5. CASE Len(sent') = Len(sent)
  <2>1. sent' = sent
    BY <1>2, <1>5
  <2> QED
    BY <1>1, <2>1 DEF S!vars
<1> QED
  BY <1>2, <1>4, <1>5

(* The next line of the buffer is the next event. *)
LEMMA HandStep ==
  ASSUME IInv, IInv', NextEvent
  PROVE  S!Hand
<1>1. TypeOK /\ InFlight /\ ReaderInv /\ sent \in Seq(Kind) /\ got \in Seq(Nat)
  BY DEF IInv, DeliveredInOrder, TypeOK
<1>2. /\ got' = Append(got, Len(got) + 1) /\ Len(got) + 1 \in 1..Written
      /\ reader = "scan" /\ UNCHANGED <<sent, cancelled>>
      /\ sent[Len(got) + 1] \in Terminal => outcome' = sent[Len(got) + 1]
      /\ sent[Len(got) + 1] \notin Terminal => UNCHANGED outcome
  BY <1>1, NextEventEffect
<1>3. outcome = "reading"
  BY <1>1, <1>2 DEF ReaderInv
<1>4. /\ Len(got) \in Nat /\ Len(sent) \in Nat /\ Len(Handed) = Len(got)
      /\ Handed = [k \in 1..Len(got) |-> sent[k]] /\ Handed \in Seq(Kind)
      /\ Written \in Nat /\ Written <= Len(sent)
  BY <1>1, HandedIs, StateTypes
<1>5. Len(Handed) < Len(sent)
  BY <1>2, <1>4
<1>6. Handed' = Append(Handed, sent[Len(got) + 1])
  <2>1. /\ Len(got') = Len(got) + 1
        /\ \A k \in 1..Len(got') : got'[k] = k
    BY <1>1, <1>2, <1>4 DEF IInv, DeliveredInOrder
  <2>2. Handed' = [k \in 1..(Len(got) + 1) |-> sent[k]]
    BY <1>2, <2>1 DEF Handed
  <2>3. sent[Len(got) + 1] \in Kind
    BY <1>1, <1>4, <1>5
  <2>4. \A k \in 1..(Len(got) + 1) :
           Append(Handed, sent[Len(got) + 1])[k] = sent[k]
    BY <1>4, <2>3
  <2>5. /\ Append(Handed, sent[Len(got) + 1]) \in Seq(Kind)
        /\ Len(Append(Handed, sent[Len(got) + 1])) = Len(got) + 1
    BY <1>4, <2>3
  <2> HIDE DEF Handed
  <2>6. Append(Handed, sent[Len(got) + 1])
          = [k \in 1..(Len(got) + 1) |-> sent[k]]
    BY <1>4, <2>4, <2>5
  <2> QED
    BY <2>2, <2>6
<1>7. S!Terminal = Terminal
  BY DEF S!Terminal, Terminal
<1> QED
  BY <1>2, <1>3, <1>4, <1>5, <1>6, <1>7 DEF S!Hand

(* Where the reader leaves without an event, the stream breaks as it says. *)
LEMMA BreakStep ==
  ASSUME IInv, IInv', UNCHANGED <<sent, got, cancelled>>,
         TooLong \/ StartRead \/ ReadOver \/ WaitReleased
  PROVE  S!Break \/ UNCHANGED S!vars
<1>1. UNCHANGED Handed
  BY DEF Handed
<1>2. outcome = "reading"
  BY DEF IInv, ReaderInv, TooLong, StartRead, ReadOver, WaitReleased
<1>3. \/ outcome' = outcome
      \/ outcome' = "ended" /\ ~cancelled
      \/ outcome' = "source_failed" /\ ~cancelled
      \/ outcome' = "cancelled" /\ cancelled
      \/ outcome' = "too_long"
  BY DEF TooLong, StartRead, ReadOver, WaitReleased, Leave
<1>4. outcome' = "ended" => Len(Handed) = Len(sent)
  <2>1. outcome' = "ended" => Len(got') = Len(sent')
    BY DEF IInv, DeliveredInOrder
  <2> QED
    BY <2>1, HandedIs
<1> QED
  BY <1>1, <1>2, <1>3, <1>4 DEF S!Break, S!vars

LEMMA StepImplements ==
  ASSUME IInv, IInv', [Next]_vars
  PROVE  [S!Next]_S!vars
<1>1. TypeOK /\ RelayInv
  BY DEF IInv, DeliveredInOrder
<1>2. CASE RelayReads
  <2>1. UNCHANGED <<got, outcome, cancelled>>
    BY <1>2 DEF RelayReads, readerVars
  <2>2. /\ relay # "over" /\ Len(sent') >= Len(sent)
        /\ \A k \in 1..Len(sent) : sent'[k] = sent[k]
    BY <1>1, <1>2, ReadsEffect
  <2> QED
    BY <2>1, <2>2, MakeStep DEF S!Next
<1>3. CASE Excerpt
  <2>1. UNCHANGED <<got, outcome, cancelled>>
    BY <1>3 DEF Excerpt, readerVars
  <2>2. relay # "over" /\ Len(sent') = 1 /\ Len(sent) = 0
    BY <1>1, <1>3, ExcerptEffect
  <2> QED
    BY <2>1, <2>2, MakeStep DEF S!Next
<1>4. CASE NextEvent
  BY <1>4, HandStep DEF S!Next
<1>5. CASE TooLong \/ StartRead \/ ReadOver \/ WaitReleased
  <2>1. UNCHANGED <<sent, got, cancelled>>
    BY <1>5 DEF TooLong, StartRead, ReadOver, WaitReleased, relayVars
  <2> QED
    BY <1>5, <2>1, BreakStep DEF S!Next
<1>6. CASE Cancel
  BY <1>6 DEF Cancel, relayVars, readerVars, Handed, S!Next, S!Cancel
<1>7. CASE \/ RelayPoll \/ UpstreamEnds \/ UpstreamFails \/ ReadReleased \/ ChunkDone \/ Emit
           \/ EmitReleased \/ RelayStopped \/ ReadBytes \/ AllOver \/ UNCHANGED vars
  <2>1. UNCHANGED <<sent, got, outcome, cancelled>>
    BY <1>7 DEF RelayPoll, UpstreamEnds, UpstreamFails, ReadReleased, ChunkDone, Emit,
       EmitReleased, RelayStopped, RelayOver, ReadBytes, AllOver, relayVars, readerVars, vars
  <2> QED
    BY <2>1 DEF Handed, S!vars
<1> QED
  BY <1>2, <1>3, <1>4, <1>5, <1>6, <1>7 DEF Next, RelayNext, ReaderNext

(***************************************************************************)
(* Relay, channel and reader together are an event stream as the loop      *)
(* takes it to be, whatever the sizes: nothing is handed over out of order *)
(* or after the end, the stream ends once, and what it ends as is true     *)
(* (relay_sse, EventReader::next).                                         *)
(***************************************************************************)
THEOREM Refinement == Spec => IsEventStream
<1>1. Init => S!Init
  <2>1. ASSUME Init
        PROVE  Handed = <<>>
    BY <2>1 DEF Init, Handed
  <2> QED
    BY <2>1 DEF Init, S!Init
<1>2. IInv /\ IInv' /\ [Next]_vars => [S!Next]_S!vars
  BY StepImplements
<1> QED
  BY <1>1, <1>2, Inductive, PTL DEF Spec, IsEventStream, S!Spec

-----------------------------------------------------------------------------
(* ProviderTurn: the types of what is said and kept. *)
Kinds == {"text", "thinking", "tool_use", "tool_result", "opaque", "unknown", "malformed"}
Told == {"text", "thinking", "tool_use", "unknown", "malformed"}
Stops == Stop \cup {"pause_turn", "none"}
Reply == [status: {"ok", "busy", "refused", "none"},
          body: {"message", "overloaded", "invalid", "text", "none"},
          content: Seq(Told), stop: Stops, usage: BOOLEAN]
SaidOf == [answer: Reply, truncated: BOOLEAN]
Block == [type: Kinds, of: Nat \X Nat]
MessageOf == [role: {"user", "assistant"}, content: Seq(Block)]
Origins == {"unset", "default", "config", "input", "extra"}
RequestOf == [messages: Seq(MessageOf), from: [Key -> Origins]]
AskedOf == [turn: Nat, round: Nat, attempt: Nat, waited: Nat, request: RequestOf]
ResultOf ==
  [is: {"none"}] \cup [is: {"failed"}, retryable: {"yes", "no", "unknown"}]
    \cup [is: {"message"}, content: Seq(Block), stop: Stops]

Steps == {"idle", "ask", "vendor", "judge", "wait"}

TurnTypes ==
  /\ given \in [system: BOOLEAN, tools: BOOLEAN, max_tokens: {"none", "good", "bad"}]
  /\ messages \in Seq(MessageOf)
  /\ step \in Steps
  /\ turn \in Nat /\ round \in Nat /\ attempt \in Nat /\ backoff \in Nat /\ waited \in Nat
  /\ result \in ResultOf
  /\ asked \in Seq(AskedOf)
  /\ said \in Seq(SaidOf)
  /\ failed \in {"none", "step", "provider", "contract", "round_limit"}

LEMMA AnswersAreReplies == Answers \cup {NoAnswer} \subseteq Reply
<1> USE DEF Reply, Told, Stops, Stop
<1>1. Contents \subseteq Seq(Told)
  <2> SUFFICES ASSUME NEW c \in Contents
               PROVE  c \in Seq(Told)
    OBVIOUS
  <2>1. PICK k \in 0..LongestAnswer : c \in [1..k -> {"text", "thinking", "tool_use", "unknown"}]
    BY DEF Contents
  <2>2. k \in Nat
    BY TurnAssumption
  <2>3. c \in [1..k -> Told]
    BY <2>1
  <2> HIDE DEF Told
  <2> QED BY <2>2, <2>3
<1>2. /\ <<"malformed", "text">> \in Seq(Told) /\ <<"tool_use", "malformed">> \in Seq(Told)
      /\ <<"text">> \in Seq(Told) /\ <<>> \in Seq(Told)
  OBVIOUS
<1> DEFINE V == Seq(Told)
<1>3. Contents \subseteq V /\ <<"malformed", "text">> \in V /\ <<"tool_use", "malformed">> \in V
      /\ <<"text">> \in V /\ <<>> \in V
  BY <1>1, <1>2
<1> HIDE DEF V, Told
<1>4. NoAnswer \in [status: {"ok", "busy", "refused", "none"},
          body: {"message", "overloaded", "invalid", "text", "none"},
          content: V, stop: Stops, usage: BOOLEAN]
  BY <1>3 DEF NoAnswer
<1>5. \A a \in Answers : a \in [status: {"ok", "busy", "refused", "none"},
          body: {"message", "overloaded", "invalid", "text", "none"},
          content: V, stop: Stops, usage: BOOLEAN]
  BY <1>3 DEF Answers, Message
<1> QED BY <1>4, <1>5 DEF V

(* What the provider makes of an answer is worth repeating as the vendor says it is. *)
Worth(answer, truncated) ==
  /\ ~truncated
  /\ answer.body = "overloaded" \/ answer.status = "busy"
  /\ ~(/\ answer.status = "ok" /\ answer.body = "message")

LEMMA YesIsWorth ==
  ASSUME NEW n, NEW answer \in Reply, NEW truncated \in BOOLEAN,
         answer.status # "none"
  PROVE  LET out == buffered_output(n, answer, truncated)
         IN  out.is = "failed" /\ out.retryable = "yes" <=> Worth(answer, truncated)
<1> USE DEF buffered_output, Worth, RoundFailed, http_failure, retryable_kind, retryable_status,
            translate_message
<1>1. CASE truncated
  BY <1>1
<1>2. CASE ~truncated /\ answer.status # "ok"
  BY <1>2
<1>3. CASE ~truncated /\ answer.status = "ok" /\ answer.body # "message"
  BY <1>3
<1>4. CASE ~truncated /\ answer.status = "ok" /\ answer.body = "message"
  BY <1>4
<1> QED BY <1>1, <1>2, <1>3, <1>4

LEMMA WorthIs ==
  ASSUME NEW n, said[n] \in SaidOf
  PROVE  WorthRepeating(n) <=> Worth(said[n].answer, said[n].truncated)
BY DEF WorthRepeating, Worth, Completed

LEMMA FailedTypes ==
  \A r \in {"yes", "no", "unknown"} : RoundFailed(r) \in ResultOf
BY DEF RoundFailed, ResultOf

LEMMA ContractType ==
  ASSUME NEW n \in Nat, NEW c \in Seq(Kinds)
  PROVE  contract_content(n, c) \in Seq(Block)
<1> DEFINE Mapped(i) ==
        IF c[i] = "unknown" THEN <<>>
        ELSE IF c[i] = "thinking" THEN <<Part("opaque", <<n, i>>)>>
        ELSE <<Part(c[i], <<n, i>>)>>
      s == [i \in 1..Len(c) |-> Mapped(i)]
<1>1. ASSUME NEW i \in 1..Len(c)
      PROVE  Mapped(i) \in Seq(Block)
  <2>1. i \in Nat /\ c[i] \in Kinds /\ "opaque" \in Kinds /\ <<n, i>> \in Nat \X Nat
    BY DEF Kinds
  <2>2. Part(c[i], <<n, i>>) \in Block /\ Part("opaque", <<n, i>>) \in Block
    BY <2>1 DEF Part, Block
  <2> HIDE DEF Block, Part
  <2>3. <<Part(c[i], <<n, i>>)>> \in Seq(Block) /\ <<Part("opaque", <<n, i>>)>> \in Seq(Block)
        /\ <<>> \in Seq(Block)
    BY <2>2
  <2> QED BY <2>3
<1>2. s \in Seq(Seq(Block))
  <2> HIDE DEF Mapped
  <2> QED BY <1>1
<1> HIDE DEF s
<1>3. FlattenSeq(s) \in Seq(Block)
  BY <1>2, FlattenType
<1> QED BY <1>3 DEF contract_content, s

LEMMA OutputType ==
  ASSUME NEW n \in Nat, NEW answer \in Reply, NEW truncated \in BOOLEAN
  PROVE  buffered_output(n, answer, truncated) \in ResultOf
<1>1. \A r \in {"yes", "no", "unknown"} : RoundFailed(r) \in ResultOf
  BY FailedTypes
<1>2. http_failure(answer) \in ResultOf
  BY <1>1 DEF http_failure
<1>3. translate_message(n, answer) \in ResultOf
  <2>1. answer.content \in Seq(Kinds) /\ answer.stop \in Stops
    <3>1. Told \subseteq Kinds
      BY DEF Told, Kinds
    <3>2. answer.content \in Seq(Told) /\ answer.stop \in Stops
      BY DEF Reply
    <3> QED BY <3>1, <3>2
  <2>2. contract_content(n, answer.content) \in Seq(Block)
    BY <2>1, ContractType
  <2>3. [is |-> "message", content |-> contract_content(n, answer.content), stop |-> answer.stop] \in ResultOf
    BY <2>1, <2>2 DEF ResultOf
  <2>4. RoundFailed(retryable_kind(answer.body)) \in ResultOf
    BY <1>1 DEF retryable_kind
  <2> HIDE DEF ResultOf
  <2> QED BY <1>1, <2>3, <2>4 DEF translate_message
<1> QED BY <1>1, <1>2, <1>3 DEF buffered_output

(* A request is of the types it should be, and `extra` sets no key the provider owns. *)
LEMMA OriginTypes ==
  ASSUME NEW k \in Key
  PROVE  Origin(k) \in Origins /\ (k \in {"model", "max_tokens", "stream", "messages"} => Origin(k) # "extra")
BY DEF Origin, Owned, Origins

LEMMA ReplayedType ==
  ASSUME NEW b \in Block
  PROVE  Replayed(b) \in Block
BY DEF Replayed, Part, Block, Kinds

LEMMA ReplayType ==
  ASSUME messages \in Seq(MessageOf)
  PROVE  replay_messages \in Seq(MessageOf)
<1> DEFINE Rep(m) == IF m.role # "assistant" THEN m
                     ELSE [m EXCEPT !.content = [j \in DOMAIN @ |-> Replayed(@[j])]]
<1>1. ASSUME NEW m \in MessageOf
      PROVE  Rep(m) \in MessageOf
  <2>1. m.content \in Seq(Block)
    BY DEF MessageOf
  <2>2. [j \in DOMAIN m.content |-> Replayed(m.content[j])] \in Seq(Block)
    <3> DEFINE c == m.content
    <3>1. c \in Seq(Block) /\ DOMAIN c = 1..Len(c)
      BY <2>1
    <3>2. \A j \in 1..Len(c) : Replayed(c[j]) \in Block
      BY <3>1, ReplayedType
    <3> HIDE DEF c
    <3>3. [j \in DOMAIN c |-> Replayed(c[j])] \in Seq(Block)
      BY <3>1, <3>2
    <3> QED BY <3>3 DEF c
  <2> HIDE DEF Block
  <2> QED BY <2>2 DEF MessageOf
<1>2. replay_messages = [i \in 1..Len(messages) |-> Rep(messages[i])]
  BY DEF replay_messages
<1>3. \A i \in 1..Len(messages) : Rep(messages[i]) \in MessageOf
  BY <1>1
<1> HIDE DEF Rep
<1> QED BY <1>2, <1>3

LEMMA RequestType ==
  ASSUME messages \in Seq(MessageOf)
  PROVE  /\ build_request \in RequestOf
         /\ \A k \in {"model", "max_tokens", "stream", "messages"} : build_request.from[k] # "extra"
<1>1. replay_messages \in Seq(MessageOf)
  BY ReplayType
<1>2. \A k \in Key : Origin(k) \in Origins
  BY OriginTypes
<1>3. \A k \in {"model", "max_tokens", "stream", "messages"} : k \in Key /\ Origin(k) # "extra"
  BY OriginTypes DEF Key
<1>4. [k \in Key |-> Origin(k)] \in [Key -> Origins]
  BY <1>2
<1> QED BY <1>1, <1>3, <1>4 DEF build_request, RequestOf

(* Blocks of one type, of a sequence of blocks. *)
LEMMA OfTypeType ==
  ASSUME NEW T, NEW c \in Seq(T), NEW k
  PROVE  OfType(c, k) \in Seq({b \in T : b.type = k})
<1> DEFINE U == {b \in T : b.type = k}
           At1(i) == IF c[i].type = k THEN <<c[i]>> ELSE <<>>
           s == [i \in 1..Len(c) |-> At1(i)]
<1>1. ASSUME NEW i \in 1..Len(c)
      PROVE  At1(i) \in Seq(U)
  <2>1. c[i] \in T
    OBVIOUS
  <2>2. CASE c[i].type = k
    <3>1. c[i] \in U
      BY <2>1, <2>2
    <3> HIDE DEF U
    <3> QED BY <3>1, <2>2
  <2>3. CASE c[i].type # k
    BY <2>3
  <2> QED BY <2>2, <2>3
<1>2. s \in Seq(Seq(U))
  <2> HIDE DEF At1, U
  <2> QED BY <1>1
<1> HIDE DEF s, U
<1>3. FlattenSeq(s) \in Seq(U)
  BY <1>2, FlattenType
<1> QED BY <1>3 DEF OfType, s, U

LEMMA ResultsType ==
  ASSUME NEW c \in Seq(Block)
  PROVE  Results(c) \in Seq(Block)
<1> DEFINE calls == Calls(c)
<1>1. calls \in Seq({b \in Block : b.type = "tool_use"})
  BY OfTypeType DEF Calls
<1>2. calls \in Seq(Block)
  BY <1>1
<1>3. \A i \in 1..Len(calls) : Part("tool_result", calls[i].of) \in Block
  <2> TAKE i \in 1..Len(calls)
  <2>1. calls[i] \in Block
    BY <1>2
  <2> HIDE DEF calls
  <2> QED BY <2>1 DEF Part, Block, Kinds
<1> HIDE DEF calls
<1>4. [i \in 1..Len(calls) |-> Part("tool_result", calls[i].of)] \in Seq(Block)
  BY <1>2, <1>3
<1> QED BY <1>4 DEF Results, calls

LEMMA PushType ==
  ASSUME messages \in Seq(MessageOf), NEW n \in Nat
  PROVE  push_user_text(n) \in Seq(MessageOf)
<1>1. UserText(n) \in Block
  BY DEF UserText, Block, Kinds
<1>2. CASE messages # <<>> /\ Last(messages).role = "user"
  <2> DEFINE l == Len(messages)
             m == [messages[l] EXCEPT !.content = Append(@, UserText(n))]
  <2>1. l \in 1..Len(messages) /\ messages[l] \in MessageOf
    BY <1>2
  <2>2. messages[l].content \in Seq(Block)
    BY <2>1 DEF MessageOf
  <2>3. Append(messages[l].content, UserText(n)) \in Seq(Block)
    BY <2>2, <1>1
  <2>4. m \in MessageOf
    BY <2>1, <2>3 DEF MessageOf
  <2>5. push_user_text(n) = [messages EXCEPT ![l] = m]
    BY <1>2 DEF push_user_text
  <2> HIDE DEF m
  <2> QED BY <2>1, <2>4, <2>5
<1>3. CASE ~(messages # <<>> /\ Last(messages).role = "user")
  <2>1. [role |-> "user", content |-> <<UserText(n)>>] \in MessageOf
    <3>1. <<UserText(n)>> \in Seq(Block)
      BY <1>1
    <3> QED BY <3>1 DEF MessageOf
  <2> QED BY <1>3, <2>1 DEF push_user_text
<1> QED BY <1>2, <1>3

LEMMA MinType ==
  ASSUME NEW a \in Nat, NEW b \in Nat
  PROVE  Min({a, b}) \in Nat
BY MinOfTwo

LEMMA AtLeastOneType == AtLeastOne(MaxAttempts) \in Nat \ {0} /\ AtLeastOne(MaxRounds) \in Nat \ {0}
BY TurnAssumption DEF AtLeastOne

LEMMA TurnStart == TurnInit => TurnTypes
BY DEF TurnInit, TurnTypes, ResultOf, Steps

LEMMA TurnTypesStep == TurnTypes /\ [TurnNext]_providerVars => TurnTypes'
<1> SUFFICES ASSUME TurnTypes, [TurnNext]_providerVars
             PROVE  TurnTypes'
  OBVIOUS
<1> USE DEF Steps
<1>1. CASE Turn
  <2>1. turn + 1 \in Nat /\ push_user_text(turn + 1) \in Seq(MessageOf)
    BY PushType DEF TurnTypes
  <2> QED BY <1>1, <2>1, TurnAssumption DEF Turn, TurnTypes, StartRound, settings
<1>2. CASE Chat
  <2>1. CASE Refused
    BY <1>2, <2>1 DEF Chat, TurnTypes, TurnEnds, settings
  <2>2. CASE ~Refused
    <3>1. build_request \in RequestOf
      BY RequestType DEF TurnTypes
    <3> DEFINE a == [turn |-> turn, round |-> round, attempt |-> attempt,
                     waited |-> waited, request |-> build_request]
    <3>2. a \in AskedOf
      BY <3>1 DEF AskedOf, TurnTypes
    <3>3. asked' = Append(asked, a)
      BY <1>2, <2>2 DEF Chat
    <3> HIDE DEF a
    <3>4. asked' \in Seq(AskedOf)
      BY <3>2, <3>3 DEF TurnTypes
    <3> QED BY <1>2, <2>2, <3>4 DEF Chat, TurnTypes, settings
  <2> QED BY <2>1, <2>2
<1>3. CASE Answer
  <2>1. PICK answer \in Answers, truncated \in BOOLEAN :
          /\ said' = Append(said, [answer |-> answer, truncated |-> truncated])
          /\ result' = buffered_output(Len(asked), answer, truncated)
    BY <1>3 DEF Answer
  <2>2. answer \in Reply
    BY AnswersAreReplies
  <2>3. [answer |-> answer, truncated |-> truncated] \in SaidOf
    BY <2>2 DEF SaidOf
  <2>4. said' \in Seq(SaidOf)
    BY <2>1, <2>3 DEF TurnTypes
  <2>5. Len(asked) \in Nat
    BY DEF TurnTypes
  <2>6. result' \in ResultOf
    BY <2>1, <2>2, <2>5, OutputType
  <2> QED BY <1>3, <2>4, <2>6 DEF Answer, TurnTypes, settings
<1>4. CASE FetchFails
  <2>1. [answer |-> NoAnswer, truncated |-> FALSE] \in SaidOf
    BY AnswersAreReplies DEF SaidOf
  <2>2. said' \in Seq(SaidOf)
    BY <1>4, <2>1 DEF FetchFails, TurnTypes
  <2> QED BY <1>4, <2>2 DEF FetchFails, TurnTypes, TurnEnds, settings
<1>5. CASE RetryRound
  BY <1>5 DEF RetryRound, TurnTypes, settings
<1>6. CASE GiveUp
  BY <1>6 DEF GiveUp, TurnTypes, TurnEnds, settings
<1>7. CASE Wait
  <2>1. Min({backoff, MaxBackoff}) \in Nat
    BY MinType, TurnAssumption DEF TurnTypes
  <2>2. 2 * backoff \in Nat /\ attempt + 1 \in Nat
    BY DEF TurnTypes
  <2> QED BY <1>7, <2>1, <2>2 DEF Wait, TurnTypes, settings
<1>8. CASE NoCalls
  <2>1. result.content \in Seq(Block)
    BY <1>8 DEF NoCalls, TurnTypes, ResultOf
  <2>2. [role |-> "assistant", content |-> result.content] \in MessageOf
    BY <2>1 DEF MessageOf
  <2>3. messages' \in Seq(MessageOf)
    <3> DEFINE a == [role |-> "assistant", content |-> result.content]
    <3>1. messages' = messages \/ messages' = Append(messages, a)
      BY <1>8 DEF NoCalls
    <3>2. a \in MessageOf
      BY <2>2
    <3> HIDE DEF a
    <3>3. messages \in Seq(MessageOf)
      BY DEF TurnTypes
    <3>4. Append(messages, a) \in Seq(MessageOf)
      BY ONLY <3>2, <3>3
    <3> QED BY <3>1, <3>3, <3>4
  <2>4. failed' \in {"none", "step", "provider", "contract", "round_limit"} /\ step' = "idle"
    BY <1>8 DEF NoCalls, TurnEnds
  <2> QED BY <1>8, <2>3, <2>4 DEF NoCalls, TurnTypes, settings
<1>9. CASE AnswerCalls
  <2>1. result.content \in Seq(Block)
    BY <1>9 DEF AnswerCalls, TurnTypes, ResultOf
  <2>2. Results(result.content) \in Seq(Block)
    BY <2>1, ResultsType
  <2> DEFINE a == [role |-> "assistant", content |-> result.content]
             b == [role |-> "user", content |-> Results(result.content)]
  <2>3. a \in MessageOf /\ b \in MessageOf
    BY <2>1, <2>2 DEF MessageOf
  <2>4. messages' = messages \o <<a, b>>
    BY <1>9 DEF AnswerCalls
  <2> HIDE DEF a, b
  <2>5. messages' \in Seq(MessageOf)
    BY <2>3, <2>4 DEF TurnTypes
  <2>6. /\ failed' \in {"none", "step", "provider", "contract", "round_limit"} /\ step' \in Steps
        /\ round' \in Nat /\ attempt' \in Nat /\ backoff' \in Nat /\ waited' \in Nat
    <3>1. /\ failed \in {"none", "step", "provider", "contract", "round_limit"} /\ round \in Nat
          /\ attempt \in Nat /\ backoff \in Nat /\ waited \in Nat /\ InitialBackoff \in Nat
      BY TurnAssumption DEF TurnTypes
    <3>2. CASE result.stop = "refusal"
      BY ONLY <1>9, <3>1, <3>2 DEF AnswerCalls, TurnEnds, Steps
    <3>3. CASE result.stop # "refusal" /\ round >= AtLeastOne(MaxRounds)
      BY ONLY <1>9, <3>1, <3>3 DEF AnswerCalls, TurnEnds, Steps
    <3>4. CASE result.stop # "refusal" /\ ~(round >= AtLeastOne(MaxRounds))
      BY ONLY <1>9, <3>1, <3>4 DEF AnswerCalls, StartRound, Steps
    <3> QED BY <3>2, <3>3, <3>4
  <2> QED BY <1>9, <2>5, <2>6 DEF AnswerCalls, TurnTypes, settings
<1>10. CASE UNCHANGED providerVars
  BY <1>10 DEF providerVars, settings, TurnTypes
<1> QED BY <1>1, <1>2, <1>3, <1>4, <1>5, <1>6, <1>7, <1>8, <1>9, <1>10 DEF TurnNext

-----------------------------------------------------------------------------
(* ProviderTurn: what is repeated. *)

(* Of two requests in a row: the second repeats the first, or it is of a later round. *)
Repeated(n) ==
  (asked[n + 1].turn = asked[n].turn /\ asked[n + 1].round = asked[n].round) =>
    /\ asked[n + 1].request = asked[n].request
    /\ WorthRepeating(n)
    /\ asked[n + 1].attempt = asked[n].attempt + 1
    /\ asked[n + 1].waited =
         Min({IF asked[n].attempt = 1 THEN InitialBackoff ELSE 2 * asked[n].waited, MaxBackoff})

Allowed(n) ==
  /\ asked[n].attempt <= AtLeastOne(MaxAttempts)
  /\ \A k \in {"model", "max_tokens", "stream", "messages"} : asked[n].request.from[k] # "extra"

GivenUp ==
  failed = "provider" =>
    ~WorthRepeating(Len(asked)) \/ Last(asked).attempt = AtLeastOne(MaxAttempts)

LEMMA RetryRepeatsIs ==
  ASSUME asked \in Seq(AskedOf)
  PROVE  RetryRepeats <=> /\ \A n \in 1..(Len(asked) - 1) : Repeated(n)
                          /\ \A n \in 1..Len(asked) : Allowed(n)
                          /\ GivenUp
<1>1. DOMAIN asked = 1..Len(asked)
  OBVIOUS
<1> QED BY <1>1, Zenon DEF RetryRepeats, Repeated, Allowed, GivenUp

(* The last request is the one of this round's attempt at. *)
Current(at) ==
  /\ asked # <<>>
  /\ asked[Len(asked)].turn = turn /\ asked[Len(asked)].round = round
  /\ asked[Len(asked)].attempt = at
  /\ asked[Len(asked)].request = build_request

Counted == Len(asked) = IF step = "vendor" THEN Len(said) + 1 ELSE Len(said)

InRound == step # "idle" => failed = "none" /\ attempt \in 1..AtLeastOne(MaxAttempts)

(* What the next wait will be. *)
Doubles == Min({backoff, MaxBackoff}) = Min({2 * waited, MaxBackoff})

Underway ==
  step \in {"vendor", "judge", "wait"} =>
    /\ Current(attempt) /\ asked[Len(asked)].waited = waited
    /\ IF attempt = 1 THEN backoff = InitialBackoff ELSE Doubles

Again ==
  step = "ask" /\ attempt # 1 =>
    /\ Current(attempt - 1) /\ WorthRepeating(Len(asked)) /\ Doubles
    /\ waited = Min({IF asked[Len(asked)].attempt = 1 THEN InitialBackoff
                     ELSE 2 * asked[Len(asked)].waited, MaxBackoff})

Afresh ==
  step = "ask" /\ attempt = 1 =>
    /\ backoff = InitialBackoff
    /\ asked # <<>> => \/ asked[Len(asked)].turn < turn
                       \/ asked[Len(asked)].turn = turn /\ asked[Len(asked)].round < round

BetweenTurns == step = "idle" /\ asked # <<>> => asked[Len(asked)].turn <= turn

Judged ==
  /\ step = "judge" =>
       (result.is = "failed" /\ result.retryable = "yes" <=> WorthRepeating(Len(asked)))
  /\ step = "wait" => WorthRepeating(Len(asked)) /\ attempt < AtLeastOne(MaxAttempts)

RetryInv ==
  /\ TurnTypes /\ Counted /\ InRound /\ Underway /\ Again /\ Afresh /\ BetweenTurns /\ Judged
  /\ \A n \in 1..(Len(asked) - 1) : Repeated(n)
  /\ \A n \in 1..Len(asked) : Allowed(n)
  /\ GivenUp

LEMMA SameWorth ==
  ASSUME NEW k, said'[k] = said[k]
  PROVE  WorthRepeating(k)' <=> WorthRepeating(k)
BY DEF WorthRepeating, Completed

LEMMA SameRequest ==
  ASSUME UNCHANGED <<given, config, messages>>
  PROVE  build_request' = build_request
<1>1. given' = given /\ config' = config /\ messages' = messages
  OBVIOUS
<1>2. Owned' = Owned
  BY <1>1 DEF Owned
<1>3. \A k : Origin(k)' = Origin(k)
  BY <1>1, <1>2 DEF Origin
<1>4. replay_messages' = replay_messages
  BY <1>1 DEF replay_messages
<1> QED BY <1>3, <1>4 DEF build_request

LEMMA Doubled ==
  ASSUME NEW b \in Nat, NEW m \in Nat
  PROVE  Min({2 * b, m}) = Min({2 * Min({b, m}), m})
<1>1. Min({b, m}) = IF b <= m THEN b ELSE m
  BY MinOfTwo
<1>2. 2 * b \in Nat /\ 2 * m \in Nat
  OBVIOUS
<1>3. Min({2 * b, m}) = IF 2 * b <= m THEN 2 * b ELSE m
  BY <1>2, MinOfTwo
<1>4. CASE b <= m
  BY <1>4, <1>1
<1>5. CASE ~(b <= m)
  <2>1. Min({2 * m, m}) = IF 2 * m <= m THEN 2 * m ELSE m
    BY <1>2, MinOfTwo
  <2>2. (2 * m <= m => 2 * m = m) /\ ~(2 * b <= m)
    BY <1>5
  <2>3. Min({2 * m, m}) = m
    BY <2>1, <2>2
  <2> QED BY <1>1, <1>3, <1>5, <2>2, <2>3
<1> QED BY <1>4, <1>5

LEMMA RetryStart == TurnInit => RetryInv
<1> SUFFICES ASSUME TurnInit
             PROVE  RetryInv
  OBVIOUS
<1>1. TurnTypes
  BY TurnStart
<1>2. asked = <<>> /\ said = <<>> /\ step = "idle" /\ failed = "none" /\ Len(asked) = 0
  BY DEF TurnInit
<1> QED BY <1>1, <1>2 DEF RetryInv, Counted, InRound, Underway, Again, Afresh, BetweenTurns, Judged, GivenUp

(* While asked and said stay, so does what is known of the requests. *)
LEMMA SameHistory ==
  ASSUME UNCHANGED <<asked, said>>
  PROVE  /\ \A n \in 1..(Len(asked) - 1) : Repeated(n)' <=> Repeated(n)
         /\ \A n \in 1..Len(asked) : Allowed(n)' <=> Allowed(n)
         /\ \A n : WorthRepeating(n)' <=> WorthRepeating(n)
<1>1. asked' = asked /\ said' = said
  OBVIOUS
<1>2. \A n : WorthRepeating(n)' <=> WorthRepeating(n)
  BY <1>1 DEF WorthRepeating, Completed
<1> QED BY <1>1, <1>2, Zenon DEF Repeated, Allowed

LEMMA RetryKept ==
  ASSUME RetryInv, UNCHANGED <<asked, said>>, TurnTypes', failed' # "provider"
  PROVE  /\ \A n \in 1..(Len(asked') - 1) : Repeated(n)'
         /\ \A n \in 1..Len(asked') : Allowed(n)'
         /\ GivenUp'
<1>1. asked' = asked /\ said' = said
  OBVIOUS
<1>2. (\A n \in 1..(Len(asked) - 1) : Repeated(n)) /\ (\A n \in 1..Len(asked) : Allowed(n))
  BY DEF RetryInv
<1>3. (\A n \in 1..(Len(asked) - 1) : Repeated(n)') /\ (\A n \in 1..Len(asked) : Allowed(n)')
  BY <1>2, SameHistory
<1> QED BY <1>1, <1>3 DEF GivenUp

LEMMA RetryStep == RetryInv /\ [TurnNext]_providerVars => RetryInv'
<1> SUFFICES ASSUME RetryInv, [TurnNext]_providerVars
             PROVE  RetryInv'
  OBVIOUS
<1> USE DEF Steps
<1>0. TurnTypes /\ TurnTypes'
  BY TurnTypesStep DEF RetryInv
<1>m. /\ Counted /\ InRound /\ Underway /\ Again /\ Afresh /\ BetweenTurns /\ Judged
      /\ \A n \in 1..(Len(asked) - 1) : Repeated(n)
      /\ \A n \in 1..Len(asked) : Allowed(n)
      /\ GivenUp
  BY DEF RetryInv
<1>t. /\ turn \in Nat /\ round \in Nat /\ attempt \in Nat /\ waited \in Nat /\ backoff \in Nat
      /\ asked \in Seq(AskedOf) /\ said \in Seq(SaidOf) /\ step \in Steps
  BY <1>0 DEF TurnTypes
<1>u. \A i \in 1..Len(asked) : asked[i].turn \in Nat /\ asked[i].round \in Nat
                               /\ asked[i].attempt \in Nat /\ asked[i].waited \in Nat
  <2>1. \A i \in 1..Len(asked) : asked[i] \in AskedOf
    BY <1>t
  <2> QED BY <2>1 DEF AskedOf
<1>n. asked # <<>> => Len(asked) \in 1..Len(asked)
  BY <1>t
<1>a. AtLeastOne(MaxAttempts) \in Nat /\ 1 <= AtLeastOne(MaxAttempts)
  BY AtLeastOneType
<1>1. CASE Turn
  <2>1. UNCHANGED <<asked, said>> /\ failed' = "none" /\ step' = "ask" /\ attempt' = 1 /\ round' = 1
        /\ turn' = turn + 1 /\ backoff' = InitialBackoff /\ step = "idle"
    BY <1>1 DEF Turn, StartRound
  <2>2. /\ \A n \in 1..(Len(asked') - 1) : Repeated(n)'
        /\ \A n \in 1..Len(asked') : Allowed(n)'
        /\ GivenUp'
    BY <2>1, <1>0, RetryKept
  <2>3. Afresh'
    <3>1. asked # <<>> => asked[Len(asked)].turn < turn + 1
      BY <2>1, <1>m, <1>t, <1>u, <1>n DEF BetweenTurns
    <3> QED BY <2>1, <3>1 DEF Afresh
  <2>4. InRound'
    BY <2>1, <1>a DEF InRound
  <2>5. Counted' /\ Underway' /\ Again' /\ BetweenTurns' /\ Judged'
    BY <2>1, <1>m DEF Counted, Underway, Again, BetweenTurns, Judged
  <2> QED BY <1>0, <2>2, <2>3, <2>4, <2>5 DEF RetryInv
<1>2. CASE Chat /\ Refused
  <2>1. UNCHANGED <<asked, said, turn>> /\ failed' = "step" /\ step' = "idle" /\ step = "ask"
    BY <1>2 DEF Chat, TurnEnds
  <2>2. /\ \A n \in 1..(Len(asked') - 1) : Repeated(n)'
        /\ \A n \in 1..Len(asked') : Allowed(n)'
        /\ GivenUp'
    BY <2>1, <1>0, RetryKept
  <2>3. BetweenTurns'
    <3>1. asked # <<>> => asked[Len(asked)].turn <= turn
      BY <2>1, <1>m, <1>t, <1>u, <1>n DEF Again, Afresh, Current
    <3> QED BY <2>1, <3>1 DEF BetweenTurns
  <2>4. Counted' /\ InRound' /\ Underway' /\ Again' /\ Afresh' /\ Judged'
    BY <2>1, <1>m DEF Counted, InRound, Underway, Again, Afresh, Judged
  <2> QED BY <1>0, <2>2, <2>3, <2>4 DEF RetryInv
<1>3. CASE Chat /\ ~Refused
  <2> DEFINE a == [turn |-> turn, round |-> round, attempt |-> attempt,
                   waited |-> waited, request |-> build_request]
  <2>0. PICK m \in Nat : m = Len(asked)
    BY <1>t
  <2>1. /\ asked' = Append(asked, a) /\ step' = "vendor" /\ step = "ask"
        /\ UNCHANGED <<given, config, messages, turn, round, attempt, backoff, waited, said, failed>>
    BY <1>3 DEF Chat, settings
  <2>2. /\ build_request \in RequestOf
        /\ \A k \in {"model", "max_tokens", "stream", "messages"} : build_request.from[k] # "extra"
    BY <1>0, RequestType DEF TurnTypes
  <2>3. a \in AskedOf
    BY <2>2, <1>t DEF AskedOf
  <2>4. /\ a.turn = turn /\ a.round = round /\ a.attempt = attempt
        /\ a.waited = waited /\ a.request = build_request
    OBVIOUS
  <2> HIDE DEF a
  <2>5. /\ m \in Nat /\ Len(asked') = m + 1 /\ asked'[m + 1] = a /\ asked' # <<>>
        /\ \A i \in 1..m : asked'[i] = asked[i]
    BY <2>0, <2>1, <2>3, <1>t
  <2>6. m = Len(asked)
    BY <2>0
  <2>7. build_request' = build_request
    BY <2>1, SameRequest
  <2>8. \A n \in 1..m : Allowed(n)'
    <3> TAKE n \in 1..m
    <3>1. Allowed(n) /\ asked'[n] = asked[n]
      BY <2>5, <2>6, <1>m
    <3> QED BY <3>1 DEF Allowed
  <2>9. Allowed(m + 1)'
    <3>1. attempt <= AtLeastOne(MaxAttempts)
      BY <1>m, <2>1 DEF InRound
    <3> QED BY <3>1, <2>2, <2>4, <2>5 DEF Allowed
  <2>10. \A n \in 1..(m - 1) : Repeated(n)'
    <3> TAKE n \in 1..(m - 1)
    <3>1. n \in 1..m /\ n + 1 \in 1..m
      BY <2>5
    <3>2. Repeated(n) /\ asked'[n] = asked[n] /\ asked'[n + 1] = asked[n + 1]
      BY <3>1, <2>5, <2>6, <1>m
    <3>3. WorthRepeating(n)' <=> WorthRepeating(n)
      BY <2>1, SameWorth
    <3> QED BY <3>2, <3>3 DEF Repeated
  <2>11. m # 0 => Repeated(m)'
    <3> SUFFICES ASSUME m # 0
                 PROVE  Repeated(m)'
      OBVIOUS
    <3>1. asked'[m] = asked[m] /\ asked'[m + 1] = a /\ m \in 1..m
      BY <2>5
    <3>2. asked # <<>>
      BY <1>t, <2>6
    <3>3. WorthRepeating(m)' <=> WorthRepeating(m)
      BY <2>1, SameWorth
    <3>4. CASE attempt = 1
      <4>1. ~(asked[m].turn = turn /\ asked[m].round = round)
        BY <3>2, <3>4, <3>1, <2>1, <2>6, <1>m, <1>t, <1>u DEF Afresh
      <4> QED BY <4>1, <3>1, <2>4 DEF Repeated
    <3>5. CASE attempt # 1
      <4>1. /\ asked[m].turn = turn /\ asked[m].round = round /\ asked[m].attempt = attempt - 1
            /\ asked[m].request = build_request /\ WorthRepeating(m)
            /\ waited = Min({IF asked[m].attempt = 1 THEN InitialBackoff
                             ELSE 2 * asked[m].waited, MaxBackoff})
        BY <3>5, <2>1, <2>6, <1>m DEF Again, Current
      <4>2. attempt = asked[m].attempt + 1
        BY <4>1, <1>t
      <4> QED BY <4>1, <4>2, <3>1, <3>3, <2>4 DEF Repeated
    <3> QED BY <3>4, <3>5
  <2>12. \A n \in 1..(Len(asked') - 1) : Repeated(n)'
    <3>1. \A n \in 1..(m + 1 - 1) : n \in 1..(m - 1) \/ (n = m /\ m # 0)
      BY <2>5
    <3> QED BY <3>1, <2>5, <2>10, <2>11
  <2>13. \A n \in 1..Len(asked') : Allowed(n)'
    <3>1. \A n \in 1..(m + 1) : n \in 1..m \/ n = m + 1
      BY <2>5
    <3> QED BY <3>1, <2>5, <2>8, <2>9
  <2>14. failed' = "none"
    BY <2>1, <1>m DEF InRound
  <2>15. Underway'
    <3>1. Current(attempt)'
      BY <2>1, <2>4, <2>5, <2>7 DEF Current
    <3>2. IF attempt = 1 THEN backoff = InitialBackoff ELSE Doubles
      BY <2>1, <1>m DEF Again, Afresh
    <3>3. (IF attempt = 1 THEN backoff = InitialBackoff ELSE Doubles)'
      BY <3>2, <2>1 DEF Doubles
    <3>4. asked'[Len(asked')].waited = waited'
      BY <2>1, <2>4, <2>5
    <3> QED BY <3>1, <3>3, <3>4 DEF Underway
  <2>16. Counted' /\ InRound' /\ Again' /\ Afresh' /\ BetweenTurns' /\ Judged' /\ GivenUp'
    BY <2>1, <2>5, <2>6, <2>14, <1>m, <1>t
    DEF Counted, InRound, Again, Afresh, BetweenTurns, Judged, GivenUp
  <2> QED BY <1>0, <2>12, <2>13, <2>15, <2>16 DEF RetryInv
<1>4. CASE Answer \/ FetchFails
  <2>0. PICK m \in Nat : m = Len(asked)
    BY <1>t
  <2>1. /\ UNCHANGED <<given, config, messages, turn, round, attempt, backoff, waited, asked>>
        /\ step = "vendor"
    BY <1>4 DEF Answer, FetchFails, settings
  <2>2. m = Len(said) + 1 /\ m \in Nat /\ m # 0
    BY <2>0, <2>1, <1>m, <1>t DEF Counted
  <2>3. PICK x \in SaidOf : said' = Append(said, x)
    <3>1. Answers \cup {NoAnswer} \subseteq Reply
      BY AnswersAreReplies
    <3> QED BY <3>1, <1>4 DEF Answer, FetchFails, SaidOf
  <2>4. /\ Len(said') = m /\ said'[m] = x
        /\ \A i \in 1..(m - 1) : said'[i] = said[i]
    BY <2>2, <2>3, <1>t
  <2>5. m = Len(asked) /\ asked' = asked
    BY <2>0, <2>1
  <2>6. \A n \in 1..(m - 1) : Repeated(n)'
    <3> TAKE n \in 1..(m - 1)
    <3>1. Repeated(n)
      BY <2>5, <1>m
    <3>2. WorthRepeating(n)' <=> WorthRepeating(n)
      BY <2>4, SameWorth
    <3> QED BY <3>1, <3>2, <2>5 DEF Repeated
  <2>7. \A n \in 1..m : Allowed(n)'
    <3> TAKE n \in 1..m
    <3>1. Allowed(n)
      BY <2>5, <1>m
    <3> QED BY <3>1, <2>5 DEF Allowed
  <2>8. build_request' = build_request
    BY <2>1, SameRequest
  <2>9. failed = "none" /\ attempt \in 1..AtLeastOne(MaxAttempts)
    BY <2>1, <1>m DEF InRound
  <2>10. asked # <<>> /\ asked[m].turn = turn
    BY <2>1, <2>5, <1>m DEF Underway, Current
  <2>11. CASE FetchFails
    <3>1. step' = "idle" /\ failed' = "step"
      BY <2>11 DEF FetchFails, TurnEnds
    <3>2. BetweenTurns'
      BY <3>1, <2>1, <2>5, <2>10, <1>t DEF BetweenTurns
    <3>3. Counted' /\ InRound' /\ Underway' /\ Again' /\ Afresh' /\ Judged' /\ GivenUp'
      BY <3>1, <2>4, <2>5 DEF Counted, InRound, Underway, Again, Afresh, Judged, GivenUp
    <3> QED BY <1>0, <2>5, <2>6, <2>7, <3>2, <3>3 DEF RetryInv
  <2>12. CASE Answer
    <3>1. step' = "judge" /\ failed' = failed
      BY <2>12 DEF Answer
    <3>2. Judged'
      <4>1. PICK answer \in Answers, truncated \in BOOLEAN :
              /\ said' = Append(said, [answer |-> answer, truncated |-> truncated])
              /\ result' = buffered_output(m, answer, truncated)
        BY <2>12, <2>5 DEF Answer
      <4>2. answer \in Reply
        BY AnswersAreReplies
      <4>3. answer.status # "none"
        BY DEF Answers, Message
      <4>4. said'[m] = [answer |-> answer, truncated |-> truncated]
        <5> DEFINE y == [answer |-> answer, truncated |-> truncated]
        <5>1. y \in SaidOf
          BY <4>2 DEF SaidOf
        <5>2. said' = Append(said, y) /\ said \in Seq(SaidOf) /\ m = Len(said) + 1
          BY <4>1, <1>t, <2>2
        <5> HIDE DEF y
        <5>3. said'[m] = y
          BY ONLY <5>1, <5>2
        <5> QED BY <5>3 DEF y
      <4>5. result'.is = "failed" /\ result'.retryable = "yes" <=> Worth(answer, truncated)
        BY <4>1, <4>2, <4>3, YesIsWorth
      <4>6. WorthRepeating(m)' <=> Worth(answer, truncated)
        BY <4>4 DEF WorthRepeating, Worth, Completed
      <4> QED BY <4>5, <4>6, <3>1, <2>5 DEF Judged
    <3>3. Underway'
      <4>1. Current(attempt) /\ asked[m].waited = waited
            /\ IF attempt = 1 THEN backoff = InitialBackoff ELSE Doubles
        BY <2>1, <2>5, <1>m DEF Underway
      <4>2. Current(attempt)'
        BY <4>1, <2>1, <2>8 DEF Current
      <4>3. Doubles' <=> Doubles
        BY <2>1 DEF Doubles
      <4> QED BY <4>1, <4>2, <4>3, <2>1, <2>5 DEF Underway
    <3>4. Counted' /\ InRound' /\ Again' /\ Afresh' /\ BetweenTurns' /\ GivenUp'
      BY <3>1, <2>1, <2>4, <2>5, <2>9 DEF Counted, InRound, Again, Afresh, BetweenTurns, GivenUp
    <3> QED BY <1>0, <2>5, <2>6, <2>7, <3>2, <3>3, <3>4 DEF RetryInv
  <2> QED BY <1>4, <2>11, <2>12
<1>5. CASE RetryRound
  <2>1. /\ UNCHANGED <<given, config, messages, turn, round, attempt, backoff, waited, asked, said, failed>>
        /\ step = "judge" /\ step' = "wait"
        /\ result.is = "failed" /\ result.retryable = "yes" /\ attempt < AtLeastOne(MaxAttempts)
    BY <1>5 DEF RetryRound, settings
  <2>2. failed = "none"
    BY <2>1, <1>m DEF InRound
  <2>3. /\ \A n \in 1..(Len(asked') - 1) : Repeated(n)'
        /\ \A n \in 1..Len(asked') : Allowed(n)'
        /\ GivenUp'
    BY <2>1, <2>2, <1>0, RetryKept
  <2>4. build_request' = build_request
    BY <2>1, SameRequest
  <2>5. Underway'
    <3>1. Current(attempt) /\ asked[Len(asked)].waited = waited
          /\ IF attempt = 1 THEN backoff = InitialBackoff ELSE Doubles
      BY <2>1, <1>m DEF Underway
    <3>2. Current(attempt)'
      BY <3>1, <2>1, <2>4 DEF Current
    <3>3. Doubles' <=> Doubles
      BY <2>1 DEF Doubles
    <3> QED BY <3>1, <3>2, <3>3, <2>1 DEF Underway
  <2>6. Judged'
    <3>1. WorthRepeating(Len(asked))
      BY <2>1, <1>m DEF Judged
    <3>2. WorthRepeating(Len(asked))'
      BY <3>1, <2>1, SameHistory
    <3> QED BY <3>2, <2>1 DEF Judged
  <2>7. Counted' /\ InRound' /\ Again' /\ Afresh' /\ BetweenTurns'
    BY <2>1, <1>m DEF Counted, InRound, Again, Afresh, BetweenTurns
  <2> QED BY <1>0, <2>3, <2>5, <2>6, <2>7 DEF RetryInv
<1>6. CASE GiveUp
  <2>1. /\ UNCHANGED <<turn, asked, said>>
        /\ step = "judge" /\ step' = "idle" /\ result.is = "failed" /\ failed' = "provider"
        /\ result.retryable # "yes" \/ attempt >= AtLeastOne(MaxAttempts)
    BY <1>6 DEF GiveUp, TurnEnds
  <2>2. /\ \A n \in 1..(Len(asked') - 1) : Repeated(n)'
        /\ \A n \in 1..Len(asked') : Allowed(n)'
    <3>1. asked' = asked
      BY <2>1
    <3> QED BY <3>1, <2>1, <1>m, SameHistory
  <2>3. Current(attempt) /\ attempt \in 1..AtLeastOne(MaxAttempts)
    BY <2>1, <1>m DEF Underway, InRound
  <2>4. GivenUp'
    <3>1. Last(asked).attempt = attempt
      BY <2>3 DEF Current, Last
    <3>2. ~WorthRepeating(Len(asked)) \/ attempt = AtLeastOne(MaxAttempts)
      <4>1. CASE result.retryable # "yes"
        BY <4>1, <2>1, <1>m DEF Judged
      <4>2. CASE attempt >= AtLeastOne(MaxAttempts)
        BY <4>2, <2>3, <1>a
      <4> QED BY <4>1, <4>2, <2>1
    <3>3. WorthRepeating(Len(asked))' <=> WorthRepeating(Len(asked))
      <4>1. (\A n : WorthRepeating(n)' <=> WorthRepeating(n)) /\ asked' = asked /\ said' = said
        BY <2>1, SameHistory
      <4> QED BY <4>1 DEF WorthRepeating, Completed
    <3>4. Last(asked)' = Last(asked)
      BY <2>1
    <3> QED BY <3>1, <3>2, <3>3, <3>4 DEF GivenUp
  <2>5. BetweenTurns'
    BY <2>1, <2>3, <1>t DEF BetweenTurns, Current
  <2>6. Counted' /\ InRound' /\ Underway' /\ Again' /\ Afresh' /\ Judged'
    BY <2>1, <1>m DEF Counted, InRound, Underway, Again, Afresh, Judged
  <2> QED BY <1>0, <2>2, <2>4, <2>5, <2>6 DEF RetryInv
<1>7. CASE Wait
  <2>1. /\ UNCHANGED <<given, config, messages, turn, round, asked, said, failed>>
        /\ step = "wait" /\ step' = "ask"
        /\ waited' = Min({backoff, MaxBackoff}) /\ backoff' = 2 * backoff /\ attempt' = attempt + 1
    BY <1>7 DEF Wait, settings
  <2>2. failed = "none" /\ attempt \in 1..AtLeastOne(MaxAttempts)
    BY <2>1, <1>m DEF InRound
  <2>3. /\ \A n \in 1..(Len(asked') - 1) : Repeated(n)'
        /\ \A n \in 1..Len(asked') : Allowed(n)'
        /\ GivenUp'
    BY <2>1, <2>2, <1>0, RetryKept
  <2>4. build_request' = build_request
    BY <2>1, SameRequest
  <2>5. Current(attempt) /\ asked[Len(asked)].waited = waited
        /\ IF attempt = 1 THEN backoff = InitialBackoff ELSE Doubles
    BY <2>1, <1>m DEF Underway
  <2>6. WorthRepeating(Len(asked)) /\ attempt < AtLeastOne(MaxAttempts)
    BY <2>1, <1>m DEF Judged
  <2>7. Again'
    <3>1. (Current(attempt - 1))'
      <4>1. attempt' - 1 = attempt
        BY <2>1, <1>t
      <4>2. /\ asked # <<>> /\ asked[Len(asked)].turn = turn /\ asked[Len(asked)].round = round
            /\ asked[Len(asked)].attempt = attempt /\ asked[Len(asked)].request = build_request
        BY <2>5 DEF Current
      <4> QED BY <4>1, <4>2, <2>1, <2>4 DEF Current
    <3>2. WorthRepeating(Len(asked))'
      <4>1. asked' = asked /\ said' = said
        BY <2>1
      <4> QED BY <4>1, <2>6 DEF WorthRepeating, Completed
    <3>3. Doubles'
      <4>1. Min({2 * backoff, MaxBackoff}) = Min({2 * Min({backoff, MaxBackoff}), MaxBackoff})
        BY <1>t, TurnAssumption, Doubled
      <4> QED BY <4>1, <2>1 DEF Doubles
    <3>4. waited' = Min({IF asked[Len(asked)].attempt = 1 THEN InitialBackoff
                         ELSE 2 * asked[Len(asked)].waited, MaxBackoff})
      <4>1. asked[Len(asked)].attempt = attempt
        BY <2>5 DEF Current
      <4>2. CASE attempt = 1
        BY <4>1, <4>2, <2>1, <2>5
      <4>3. CASE attempt # 1
        BY <4>1, <4>3, <2>1, <2>5 DEF Doubles
      <4> QED BY <4>2, <4>3
    <3> QED BY <3>1, <3>2, <3>3, <3>4, <2>1 DEF Again
  <2>8. InRound'
    BY <2>1, <2>2, <2>6, <1>a DEF InRound
  <2>9. Afresh'
    BY <2>1, <2>2, <1>t DEF Afresh
  <2>10. Counted' /\ Underway' /\ BetweenTurns' /\ Judged'
    BY <2>1, <1>m DEF Counted, Underway, BetweenTurns, Judged
  <2> QED BY <1>0, <2>3, <2>7, <2>8, <2>9, <2>10 DEF RetryInv
<1>8. CASE NoCalls
  <2>1. /\ UNCHANGED <<turn, asked, said>> /\ step = "judge" /\ step' = "idle"
        /\ failed' \in {"none", "contract"}
    BY <1>8 DEF NoCalls, TurnEnds
  <2>2. /\ \A n \in 1..(Len(asked') - 1) : Repeated(n)'
        /\ \A n \in 1..Len(asked') : Allowed(n)'
        /\ GivenUp'
    BY <2>1, <1>0, RetryKept
  <2>3. BetweenTurns'
    BY <2>1, <1>m, <1>t DEF Underway, Current, BetweenTurns
  <2>4. Counted' /\ InRound' /\ Underway' /\ Again' /\ Afresh' /\ Judged'
    BY <2>1, <1>m DEF Counted, InRound, Underway, Again, Afresh, Judged
  <2> QED BY <1>0, <2>2, <2>3, <2>4 DEF RetryInv
<1>9. CASE AnswerCalls
  <2>1. /\ UNCHANGED <<turn, asked, said>> /\ step = "judge"
        /\ \/ step' = "idle" /\ failed' \in {"none", "round_limit"}
           \/ step' = "ask" /\ failed' = failed /\ round' = round + 1 /\ attempt' = 1
              /\ backoff' = InitialBackoff
    BY <1>9 DEF AnswerCalls, TurnEnds, StartRound
  <2>2. failed = "none"
    BY <2>1, <1>m DEF InRound
  <2>3. /\ \A n \in 1..(Len(asked') - 1) : Repeated(n)'
        /\ \A n \in 1..Len(asked') : Allowed(n)'
        /\ GivenUp'
    BY <2>1, <2>2, <1>0, RetryKept
  <2>4. asked # <<>> /\ asked[Len(asked)].turn = turn /\ asked[Len(asked)].round = round
    BY <2>1, <1>m DEF Underway, Current
  <2>5. BetweenTurns' /\ Afresh'
    BY <2>1, <2>4, <1>t DEF BetweenTurns, Afresh
  <2>6. InRound'
    BY <2>1, <2>2, <1>a DEF InRound
  <2>7. Counted' /\ Underway' /\ Again' /\ Judged'
    BY <2>1, <1>m DEF Counted, Underway, Again, Judged
  <2> QED BY <1>0, <2>3, <2>5, <2>6, <2>7 DEF RetryInv
<1>10. CASE UNCHANGED providerVars
  <2>1. /\ UNCHANGED <<given, config, messages, turn, round, attempt, backoff, waited, asked, said, failed>>
        /\ step' = step /\ result' = result
    BY <1>10 DEF providerVars, settings
  <2>2. build_request' = build_request
    BY <2>1, SameRequest
  <2>3. /\ \A n \in 1..(Len(asked) - 1) : Repeated(n)' <=> Repeated(n)
        /\ \A n \in 1..Len(asked) : Allowed(n)' <=> Allowed(n)
        /\ \A n : WorthRepeating(n)' <=> WorthRepeating(n)
    BY <2>1, SameHistory
  <2>4. asked' = asked /\ said' = said
    BY <2>1
  <2>5. WorthRepeating(Len(asked))' <=> WorthRepeating(Len(asked))
    BY <2>4 DEF WorthRepeating, Completed
  <2>6. (Doubles' <=> Doubles) /\ (Current(attempt)' <=> Current(attempt))
        /\ (Current(attempt - 1)' <=> Current(attempt - 1))
    BY <2>1, <2>2 DEF Doubles, Current
  <2>7. Counted' /\ InRound' /\ Afresh' /\ BetweenTurns'
    BY <2>1, <1>m DEF Counted, InRound, Afresh, BetweenTurns
  <2>8. Underway' /\ Again'
    BY <2>1, <2>5, <2>6, <1>m DEF Underway, Again
  <2>9. Judged' /\ GivenUp'
    BY <2>1, <2>5, <1>m DEF Judged, GivenUp
  <2>10. /\ \A n \in 1..(Len(asked') - 1) : Repeated(n)'
         /\ \A n \in 1..Len(asked') : Allowed(n)'
    BY <2>3, <2>4, <1>m
  <2> QED BY <1>0, <2>7, <2>8, <2>9, <2>10 DEF RetryInv
<1> QED BY <1>1, <1>2, <1>3, <1>4, <1>5, <1>6, <1>7, <1>8, <1>9, <1>10 DEF TurnNext

(* A round is repeated only when the vendor said it may help, as it was, within the attempts
   and after a wait that doubles up to its ceiling; and `extra` replaces nothing of a request
   (round_with_retry, build_request).                                                     *)
THEOREM RetriesRepeat == TurnSpec => []RetryRepeats
<1>1. RetryInv => RetryRepeats
  BY RetryRepeatsIs DEF RetryInv, TurnTypes
<1> QED BY <1>1, RetryStart, RetryStep, PTL DEF TurnSpec


-----------------------------------------------------------------------------
(* ProviderTurn: the blocks of one type, one block more. *)
LEMMA OfTypeAppend ==
  ASSUME NEW T, NEW c \in Seq(T), NEW x \in T, NEW k
  PROVE  OfType(Append(c, x), k) = IF x.type = k THEN Append(OfType(c, k), x) ELSE OfType(c, k)
<1> DEFINE d == Append(c, x)
           s == [i \in 1..Len(c) |-> IF c[i].type = k THEN <<c[i]>> ELSE <<>>]
           t == [i \in 1..Len(d) |-> IF d[i].type = k THEN <<d[i]>> ELSE <<>>]
           n == Len(c)
<1>1. d \in Seq(T) /\ n \in Nat /\ Len(d) = n + 1 /\ d[n + 1] = x /\ \A i \in 1..n : d[i] = c[i]
  OBVIOUS
<1>2. ASSUME NEW e \in Seq(T)
      PROVE  [i \in 1..Len(e) |-> IF e[i].type = k THEN <<e[i]>> ELSE <<>>] \in Seq(Seq(T))
  <2>1. \A i \in 1..Len(e) : (IF e[i].type = k THEN <<e[i]>> ELSE <<>>) \in Seq(T)
    OBVIOUS
  <2> QED BY <2>1
<1>3. s \in Seq(Seq(T)) /\ t \in Seq(Seq(T))
  <2> HIDE DEF d
  <2> QED BY <1>1, <1>2
<1>4. Len(s) = n /\ Len(t) = n + 1 /\ (\A i \in 1..n : s[i] = t[i])
      /\ t[n + 1] = IF x.type = k THEN <<x>> ELSE <<>>
  <2> HIDE DEF d
  <2>1. \A i \in 1..n : i \in 1..Len(d) /\ i \in 1..Len(c)
    BY <1>1
  <2>2. n + 1 \in 1..Len(d)
    BY <1>1
  <2> QED BY <1>1, <2>1, <2>2
<1>5. OfType(c, k) = FlattenSeq(s) /\ OfType(d, k) = FlattenSeq(t)
  BY DEF OfType
<1> HIDE DEF s, t, d, n
<1>6. FlattenSeq(t) = FlattenSeq(s) \o t[n + 1]
  BY <1>1, <1>3, <1>4, FlattenExtended
<1>7. FlattenSeq(s) \in Seq(T)
  BY <1>3, FlattenType
<1> DEFINE f == FlattenSeq(s)
<1>8. f \in Seq(T) /\ f \o <<x>> = Append(f, x) /\ f \o <<>> = f
  <2>1. f \in Seq(T)
    BY <1>7
  <2> HIDE DEF f
  <2> QED BY <2>1
<1> HIDE DEF f
<1>9. CASE x.type = k
  <2>1. t[n + 1] = <<x>>
    BY <1>4, <1>9
  <2>2. OfType(d, k) = f \o <<x>>
    BY <1>5, <1>6, <2>1 DEF f
  <2> QED BY <1>5, <1>8, <1>9, <2>2 DEF f, d
<1>10. CASE x.type # k
  <2>1. t[n + 1] = <<>>
    BY <1>4, <1>10
  <2>2. OfType(d, k) = f \o <<>>
    BY <1>5, <1>6, <2>1 DEF f
  <2> QED BY <1>5, <1>8, <1>10, <2>2 DEF f, d
<1> QED BY <1>9, <1>10

LEMMA OfTypeEmpty == \A k : OfType(<<>>, k) = <<>>
<1> TAKE k
<1>1. [i \in 1..Len(<<>>) |-> IF <<>>[i].type = k THEN <<<<>>[i]>> ELSE <<>>] = <<>>
  OBVIOUS
<1> QED BY <1>1, FlattenEmpty DEF OfType

(* Prefixes, one element longer. *)
LEMMA PrefixGrows ==
  ASSUME NEW T, NEW b \in Seq(T), NEW m \in 0..(Len(b) - 1)
  PROVE  /\ SubSeq(b, 1, m) \in Seq(T) /\ Len(SubSeq(b, 1, m)) = m
         /\ b[m + 1] \in T
         /\ SubSeq(b, 1, m + 1) = Append(SubSeq(b, 1, m), b[m + 1])
OBVIOUS

LEMMA PrefixEnds ==
  ASSUME NEW T, NEW b \in Seq(T)
  PROVE  SubSeq(b, 1, 0) = <<>> /\ SubSeq(b, 1, Len(b)) = b /\ Len(b) \in 0..Len(b)
OBVIOUS

LEMMA ConcatGrows ==
  ASSUME NEW T, NEW a \in Seq(T), NEW b \in Seq(T), NEW x \in T
  PROVE  a \o Append(b, x) = Append(a \o b, x) /\ a \o b \in Seq(T) /\ a \o <<>> = a
OBVIOUS

LEMMA OfTypeConcat ==
  ASSUME NEW T, NEW a \in Seq(T), NEW b \in Seq(T), NEW k
  PROVE  OfType(a \o b, k) = OfType(a, k) \o OfType(b, k)
<1> DEFINE Joins(e) == OfType(a \o e, k) = OfType(a, k) \o OfType(e, k)
           Good == {m \in 0..Len(b) : Joins(SubSeq(b, 1, m))}
<1>a. OfType(a, k) \in Seq(T)
  <2>1. OfType(a, k) \in Seq({y \in T : y.type = k})
    BY OfTypeType
  <2> QED BY <2>1
<1>1. 0 \in Good
  <2>1. SubSeq(b, 1, 0) = <<>> /\ 0 \in 0..Len(b)
    OBVIOUS
  <2>2. Joins(<<>>)
    <3>1. a \o <<>> = a
      BY ConcatGrows
    <3>2. OfType(a, k) \o <<>> = OfType(a, k)
      BY <1>a
    <3> QED BY <3>1, <3>2, OfTypeEmpty
  <2> HIDE DEF Joins
  <2> QED BY <2>1, <2>2
<1>2. ASSUME NEW m \in 0..(Len(b) - 1), m \in Good
      PROVE  m + 1 \in Good
  <2> DEFINE e == SubSeq(b, 1, m)
             x == b[m + 1]
  <2>1. e \in Seq(T) /\ x \in T /\ SubSeq(b, 1, m + 1) = Append(e, x)
    BY PrefixGrows
  <2>2. Joins(e)
    BY <1>2
  <2> HIDE DEF e, x
  <2>3. a \o Append(e, x) = Append(a \o e, x) /\ a \o e \in Seq(T)
    BY <2>1, ConcatGrows
  <2>4. OfType(Append(a \o e, x), k) = IF x.type = k THEN Append(OfType(a \o e, k), x) ELSE OfType(a \o e, k)
    BY <2>1, <2>3, OfTypeAppend
  <2>5. OfType(Append(e, x), k) = IF x.type = k THEN Append(OfType(e, k), x) ELSE OfType(e, k)
    BY <2>1, OfTypeAppend
  <2>6. OfType(e, k) \in Seq(T)
    <3>1. OfType(e, k) \in Seq({y \in T : y.type = k})
      BY <2>1, OfTypeType
    <3> QED BY <3>1
  <2>7. OfType(a, k) \o Append(OfType(e, k), x) = Append(OfType(a, k) \o OfType(e, k), x)
    BY <1>a, <2>1, <2>6, ConcatGrows
  <2>8. Joins(Append(e, x))
    <3>1. CASE x.type = k
      BY <3>1, <2>2, <2>3, <2>4, <2>5, <2>7, Zenon
    <3>2. CASE x.type # k
      BY <3>2, <2>2, <2>3, <2>4, <2>5, Zenon
    <3> QED BY <3>1, <3>2
  <2> HIDE DEF Joins
  <2>9. m + 1 \in 0..Len(b)
    OBVIOUS
  <2> QED BY <2>1, <2>8, <2>9
<1>3. Joins(SubSeq(b, 1, Len(b)))
  <2>1. Len(b) \in Nat /\ Len(b) \in 0..Len(b)
    OBVIOUS
  <2> HIDE DEF Joins
  <2>2. 0..Len(b) \subseteq Good
    <3> HIDE DEF Good
    <3> QED BY <1>1, <1>2, <2>1, BySteps
  <2> QED BY <2>1, <2>2
<1>4. SubSeq(b, 1, Len(b)) = b
  BY PrefixEnds
<1>5. Joins(b)
  <2> HIDE DEF Joins
  <2> QED BY <1>3, <1>4
<1> QED BY <1>5

(* A sequence of one type is its blocks of that type, and has none of another. *)
LEMMA OfOneType ==
  ASSUME NEW T, NEW b \in Seq(T), NEW k, \A i \in 1..Len(b) : b[i].type = k, NEW j
  PROVE  OfType(b, j) = IF j = k THEN b ELSE <<>>
<1> DEFINE All(e) == OfType(e, j) = IF j = k THEN e ELSE <<>>
           Good == {m \in 0..Len(b) : All(SubSeq(b, 1, m))}
<1>1. 0 \in Good
  <2>1. SubSeq(b, 1, 0) = <<>> /\ 0 \in 0..Len(b)
    OBVIOUS
  <2>2. All(<<>>)
    BY OfTypeEmpty
  <2> HIDE DEF All
  <2> QED BY <2>1, <2>2
<1>2. ASSUME NEW m \in 0..(Len(b) - 1), m \in Good
      PROVE  m + 1 \in Good
  <2> DEFINE e == SubSeq(b, 1, m)
             x == b[m + 1]
  <2>1. e \in Seq(T) /\ x \in T /\ SubSeq(b, 1, m + 1) = Append(e, x)
    BY PrefixGrows
  <2>2. All(e) /\ x.type = k
    <3>1. m + 1 \in 1..Len(b)
      OBVIOUS
    <3> QED BY <1>2, <3>1
  <2> HIDE DEF e, x
  <2>3. OfType(Append(e, x), j) = IF x.type = j THEN Append(OfType(e, j), x) ELSE OfType(e, j)
    BY <2>1, OfTypeAppend
  <2>4. All(Append(e, x))
    BY <2>2, <2>3, Zenon
  <2> HIDE DEF All
  <2>5. m + 1 \in 0..Len(b)
    OBVIOUS
  <2> QED BY <2>1, <2>4, <2>5
<1>3. All(SubSeq(b, 1, Len(b)))
  <2>1. Len(b) \in Nat /\ Len(b) \in 0..Len(b)
    OBVIOUS
  <2> HIDE DEF All
  <2>2. 0..Len(b) \subseteq Good
    <3> HIDE DEF Good
    <3> QED BY <1>1, <1>2, <2>1, BySteps
  <2> QED BY <2>1, <2>2
<1>4. SubSeq(b, 1, Len(b)) = b
  BY PrefixEnds
<1>5. All(b)
  <2> HIDE DEF All
  <2> QED BY <1>3, <1>4
<1> QED BY <1>5


-----------------------------------------------------------------------------
(* ProviderTurn: what is made of an answer, block by block. *)
OwnOf(n, content) ==
  LET Known(i) == IF content[i] = "unknown" THEN <<>> ELSE <<Part(content[i], <<n, i>>)>>
  IN  FlattenSeq([i \in 1..Len(content) |-> Known(i)])

Spent(content) == [j \in DOMAIN content |-> Replayed(content[j])]

OfVendor == [type: Kinds, of: (Nat \ {0}) \X Nat]

LEMMA BlockOf ==
  ASSUME NEW n \in Nat \ {0}, NEW i \in Nat, NEW k \in Kinds
  PROVE  Part(k, <<n, i>>) \in OfVendor /\ Part(k, <<n, i>>).type = k
BY DEF Part, OfVendor

LEMMA OwnAppend ==
  ASSUME NEW n \in Nat \ {0}, NEW c \in Seq(Told), NEW x \in Told
  PROVE  /\ OwnOf(n, c) \in Seq(OfVendor)
         /\ OwnOf(n, Append(c, x)) =
              IF x = "unknown" THEN OwnOf(n, c) ELSE Append(OwnOf(n, c), Part(x, <<n, Len(c) + 1>>))
<1> DEFINE d == Append(c, x)
           m == Len(c)
           Known(k, i) == IF k = "unknown" THEN <<>> ELSE <<Part(k, <<n, i>>)>>
           s == [i \in 1..Len(c) |-> Known(c[i], i)]
           t == [i \in 1..Len(d) |-> Known(d[i], i)]
<1>1. d \in Seq(Told) /\ m \in Nat /\ Len(d) = m + 1 /\ d[m + 1] = x /\ \A i \in 1..m : d[i] = c[i]
  OBVIOUS
<1>2. ASSUME NEW k \in Told, NEW i \in Nat
      PROVE  Known(k, i) \in Seq(OfVendor)
  <2>1. Part(k, <<n, i>>) \in OfVendor
    BY BlockOf DEF Told, Kinds
  <2> QED BY <2>1
<1>3. s \in Seq(Seq(OfVendor)) /\ t \in Seq(Seq(OfVendor))
  <2>1. ASSUME NEW e \in Seq(Told)
        PROVE  [i \in 1..Len(e) |-> Known(e[i], i)] \in Seq(Seq(OfVendor))
    <3>1. \A i \in 1..Len(e) : Known(e[i], i) \in Seq(OfVendor)
      <4> TAKE i \in 1..Len(e)
      <4>1. e[i] \in Told /\ i \in Nat
        OBVIOUS
      <4> HIDE DEF Known
      <4> QED BY <4>1, <1>2
    <3> HIDE DEF Known
    <3> QED BY <3>1
  <2> HIDE DEF d, Known
  <2> QED BY <1>1, <2>1
<1>4. Len(s) = m /\ Len(t) = m + 1 /\ (\A i \in 1..m : s[i] = t[i]) /\ t[m + 1] = Known(x, m + 1)
  <2> HIDE DEF d, Known
  <2>1. \A i \in 1..m : i \in 1..Len(d) /\ i \in 1..Len(c)
    BY <1>1
  <2>2. m + 1 \in 1..Len(d)
    BY <1>1
  <2> QED BY <1>1, <2>1, <2>2
<1>5. OwnOf(n, c) = FlattenSeq(s) /\ OwnOf(n, d) = FlattenSeq(t)
  BY DEF OwnOf
<1> DEFINE f == FlattenSeq(s)
<1>6. FlattenSeq(t) = f \o Known(x, m + 1)
  <2> HIDE DEF s, t, d, m, Known
  <2>1. FlattenSeq(t) = FlattenSeq(s) \o t[m + 1]
    BY <1>1, <1>3, <1>4, FlattenExtended
  <2> QED BY <2>1, <1>4 DEF f
<1>7. f \in Seq(OfVendor)
  <2> HIDE DEF s
  <2> QED BY <1>3, FlattenType
<1>8. Part(x, <<n, m + 1>>) \in OfVendor
  BY <1>1, BlockOf DEF Told, Kinds
<1> DEFINE p == Part(x, <<n, m + 1>>)
<1> HIDE DEF s, t, f, p
<1>9. f \o <<p>> = Append(f, p) /\ f \o <<>> = f
  BY <1>7, <1>8 DEF p
<1>10. CASE x = "unknown"
  <2>1. Known(x, m + 1) = <<>>
    BY <1>10
  <2> HIDE DEF Known
  <2> QED BY <1>5, <1>6, <1>7, <1>9, <1>10, <2>1 DEF f, d
<1>11. CASE x # "unknown"
  <2>1. Known(x, m + 1) = <<p>>
    BY <1>11 DEF p
  <2> HIDE DEF Known
  <2> QED BY <1>5, <1>6, <1>7, <1>9, <1>11, <2>1 DEF p, f, d
<1> QED BY <1>10, <1>11

LEMMA ContractAppend ==
  ASSUME NEW n \in Nat \ {0}, NEW c \in Seq(Told), NEW x \in Told
  PROVE  /\ contract_content(n, c) \in Seq(OfVendor)
         /\ contract_content(n, Append(c, x)) =
              IF x = "unknown" THEN contract_content(n, c)
              ELSE Append(contract_content(n, c),
                          Part(IF x = "thinking" THEN "opaque" ELSE x, <<n, Len(c) + 1>>))
<1> DEFINE d == Append(c, x)
           m == Len(c)
           Mapped(k, i) == IF k = "unknown" THEN <<>>
                           ELSE IF k = "thinking" THEN <<Part("opaque", <<n, i>>)>>
                           ELSE <<Part(k, <<n, i>>)>>
           s == [i \in 1..Len(c) |-> Mapped(c[i], i)]
           t == [i \in 1..Len(d) |-> Mapped(d[i], i)]
<1>1. d \in Seq(Told) /\ m \in Nat /\ Len(d) = m + 1 /\ d[m + 1] = x /\ \A i \in 1..m : d[i] = c[i]
  OBVIOUS
<1>2. ASSUME NEW k \in Told, NEW i \in Nat
      PROVE  Mapped(k, i) \in Seq(OfVendor)
  <2>1. Part(k, <<n, i>>) \in OfVendor /\ Part("opaque", <<n, i>>) \in OfVendor
    BY BlockOf DEF Told, Kinds
  <2> QED BY <2>1
<1>3. s \in Seq(Seq(OfVendor)) /\ t \in Seq(Seq(OfVendor))
  <2>1. ASSUME NEW e \in Seq(Told)
        PROVE  [i \in 1..Len(e) |-> Mapped(e[i], i)] \in Seq(Seq(OfVendor))
    <3>1. \A i \in 1..Len(e) : Mapped(e[i], i) \in Seq(OfVendor)
      <4> TAKE i \in 1..Len(e)
      <4>1. e[i] \in Told /\ i \in Nat
        OBVIOUS
      <4> HIDE DEF Mapped
      <4> QED BY <4>1, <1>2
    <3> HIDE DEF Mapped
    <3> QED BY <3>1
  <2> HIDE DEF d, Mapped
  <2> QED BY <1>1, <2>1
<1>4. Len(s) = m /\ Len(t) = m + 1 /\ (\A i \in 1..m : s[i] = t[i]) /\ t[m + 1] = Mapped(x, m + 1)
  <2> HIDE DEF d, Mapped
  <2>1. \A i \in 1..m : i \in 1..Len(d) /\ i \in 1..Len(c)
    BY <1>1
  <2>2. m + 1 \in 1..Len(d)
    BY <1>1
  <2> QED BY <1>1, <2>1, <2>2
<1>5. contract_content(n, c) = FlattenSeq(s) /\ contract_content(n, d) = FlattenSeq(t)
  BY DEF contract_content
<1> DEFINE f == FlattenSeq(s)
<1>6. FlattenSeq(t) = f \o Mapped(x, m + 1)
  <2> HIDE DEF s, t, d, m, Mapped
  <2>1. FlattenSeq(t) = FlattenSeq(s) \o t[m + 1]
    BY <1>1, <1>3, <1>4, FlattenExtended
  <2> QED BY <2>1, <1>4 DEF f
<1>7. f \in Seq(OfVendor)
  <2> HIDE DEF s
  <2> QED BY <1>3, FlattenType
<1> DEFINE p == Part(IF x = "thinking" THEN "opaque" ELSE x, <<n, m + 1>>)
<1>8. p \in OfVendor
  BY <1>1, BlockOf DEF Told, Kinds
<1> HIDE DEF s, t, f, p
<1>9. f \o <<p>> = Append(f, p) /\ f \o <<>> = f
  BY <1>7, <1>8
<1>10. CASE x = "unknown"
  <2>1. Mapped(x, m + 1) = <<>>
    BY <1>10
  <2> HIDE DEF Mapped
  <2> QED BY <1>5, <1>6, <1>7, <1>9, <1>10, <2>1 DEF f, d
<1>11. CASE x # "unknown"
  <2>1. Mapped(x, m + 1) = <<p>>
    BY <1>11 DEF p
  <2> HIDE DEF Mapped
  <2> QED BY <1>5, <1>6, <1>7, <1>9, <1>11, <2>1 DEF p, f, d
<1> QED BY <1>10, <1>11

LEMMA SpentAppend ==
  ASSUME NEW c \in Seq(Block), NEW x \in Block
  PROVE  Spent(Append(c, x)) = Append(Spent(c), Replayed(x)) /\ Spent(c) \in Seq(Block)
<1> DEFINE d == Append(c, x)
           m == Len(c)
           u == Spent(c)
           v == Spent(d)
<1>1. d \in Seq(Block) /\ m \in Nat /\ Len(d) = m + 1 /\ d[m + 1] = x /\ \A i \in 1..m : d[i] = c[i]
  OBVIOUS
<1>2. DOMAIN c = 1..m /\ DOMAIN d = 1..(m + 1)
  OBVIOUS
<1>3. \A i \in 1..m : c[i] \in Block /\ Replayed(c[i]) \in Block
  BY ReplayedType
<1>4. Replayed(x) \in Block
  BY ReplayedType
<1> DEFINE w == Append(u, Replayed(x))
<1>5. u \in Seq(Block) /\ Len(u) = m /\ \A i \in 1..m : u[i] = Replayed(c[i])
  <2> HIDE DEF d
  <2> QED BY <1>1, <1>2, <1>3 DEF Spent
<1>6. v = [i \in 1..(m + 1) |-> Replayed(d[i])]
  BY <1>2 DEF Spent
<1>7. w \in Seq(Block) /\ Len(w) = m + 1 /\ w[m + 1] = Replayed(x) /\ \A i \in 1..m : w[i] = u[i]
  <2> HIDE DEF u
  <2> QED BY <1>4, <1>5
<1> HIDE DEF u, w, d, m
<1>8. \A i \in 1..(m + 1) : w[i] = Replayed(d[i])
  <2> TAKE i \in 1..(m + 1)
  <2>1. i \in 1..m \/ i = m + 1
    BY <1>1
  <2> QED BY <2>1, <1>1, <1>5, <1>7
<1>9. w = [i \in 1..(m + 1) |-> Replayed(d[i])]
  BY <1>1, <1>7, <1>8
<1> QED BY <1>5, <1>6, <1>9 DEF u, w, d

(* What the transcript keeps of an answer: replayed it is the vendor's own, it is empty when
   the answer has no block of a known kind, and has a call when the answer has one.       *)
Faithful(n, c) ==
  LET kept == contract_content(n, c)
  IN  /\ kept \in Seq(OfVendor)
      /\ Spent(kept) = OwnOf(n, c)
      /\ kept = <<>> <=> \A i \in 1..Len(c) : c[i] = "unknown"
      /\ Calls(kept) = <<>> <=> \A i \in 1..Len(c) : c[i] # "tool_use"

LEMMA ContractIsFaithful ==
  ASSUME NEW n \in Nat \ {0}, NEW c \in Seq(Told)
  PROVE  Faithful(n, c)
<1> DEFINE Good == {m \in 0..Len(c) : Faithful(n, SubSeq(c, 1, m))}
<1>1. 0 \in Good
  <2>1. SubSeq(c, 1, 0) = <<>> /\ 0 \in 0..Len(c)
    OBVIOUS
  <2>2. Faithful(n, <<>>)
    <3>1. contract_content(n, <<>>) = <<>>
      <4>1. [i \in 1..Len(<<>>) |-> IF <<>>[i] = "unknown" THEN <<>>
               ELSE IF <<>>[i] = "thinking" THEN <<Part("opaque", <<n, i>>)>>
               ELSE <<Part(<<>>[i], <<n, i>>)>>] = <<>>
        OBVIOUS
      <4> QED BY <4>1, FlattenEmpty DEF contract_content
    <3>2. OwnOf(n, <<>>) = <<>>
      <4>1. [i \in 1..Len(<<>>) |-> IF <<>>[i] = "unknown" THEN <<>> ELSE <<Part(<<>>[i], <<n, i>>)>>] = <<>>
        OBVIOUS
      <4> QED BY <4>1, FlattenEmpty DEF OwnOf
    <3>3. Spent(<<>>) = <<>>
      BY DEF Spent
    <3>4. Calls(<<>>) = <<>>
      BY OfTypeEmpty DEF Calls
    <3>5. <<>> \in Seq(OfVendor) /\ 1..Len(<<>>) = {}
      OBVIOUS
    <3> QED BY <3>1, <3>2, <3>3, <3>4, <3>5 DEF Faithful
  <2> QED BY <2>1, <2>2
<1>2. ASSUME NEW m \in 0..(Len(c) - 1), m \in Good
      PROVE  m + 1 \in Good
  <2> DEFINE d == SubSeq(c, 1, m)
             x == c[m + 1]
             e == Append(d, x)
  <2>1. d \in Seq(Told) /\ x \in Told /\ SubSeq(c, 1, m + 1) = e /\ Len(d) = m
    BY PrefixGrows
  <2>2. Faithful(n, d)
    BY <1>2
  <2> HIDE DEF d, x
  <2>3. Len(e) = m + 1 /\ e[m + 1] = x /\ (\A i \in 1..m : e[i] = d[i]) /\ m \in Nat
    BY <2>1
  <2> HIDE DEF e
  <2> DEFINE kept == contract_content(n, d)
             p == Part(IF x = "thinking" THEN "opaque" ELSE x, <<n, m + 1>>)
             q == Part(x, <<n, m + 1>>)
  <2>4. /\ contract_content(n, e) = IF x = "unknown" THEN kept ELSE Append(kept, p)
        /\ OwnOf(n, e) = IF x = "unknown" THEN OwnOf(n, d) ELSE Append(OwnOf(n, d), q)
    <3>1. /\ contract_content(n, Append(d, x)) = IF x = "unknown" THEN kept ELSE
               Append(kept, Part(IF x = "thinking" THEN "opaque" ELSE x, <<n, Len(d) + 1>>))
          /\ OwnOf(n, Append(d, x)) = IF x = "unknown" THEN OwnOf(n, d)
               ELSE Append(OwnOf(n, d), Part(x, <<n, Len(d) + 1>>))
      BY <2>1, ContractAppend, OwnAppend
    <3> QED BY <2>1, <3>1 DEF e
  <2>5. /\ kept \in Seq(OfVendor) /\ Spent(kept) = OwnOf(n, d)
        /\ kept = <<>> <=> \A i \in 1..m : d[i] = "unknown"
        /\ Calls(kept) = <<>> <=> \A i \in 1..m : d[i] # "tool_use"
    BY <2>1, <2>2 DEF Faithful
  <2>6. /\ p \in OfVendor /\ (p.type = "tool_use" <=> x = "tool_use")
        /\ Replayed(p) = q
    <3>1. x \in Told /\ m + 1 \in Nat
      BY <2>1, <2>3
    <3>2. CASE x = "thinking"
      BY <3>1, <3>2, BlockOf DEF Kinds, Replayed, Part
    <3>3. CASE x # "thinking"
      <4>1. p = q
        BY <3>3
      <4>2. q \in OfVendor /\ q.type = x
        BY <3>1, BlockOf DEF Told, Kinds
      <4>3. q.type # "opaque"
        BY <4>2, <3>1 DEF Told
      <4> HIDE DEF p, q
      <4> QED BY <4>1, <4>2, <4>3 DEF Replayed
    <3> QED BY <3>2, <3>3
  <2>7. OfVendor \subseteq Block /\ Seq(OfVendor) \subseteq Seq(Block)
    <3>1. OfVendor \subseteq Block
      BY DEF OfVendor, Block
    <3> HIDE DEF OfVendor, Block
    <3> QED BY <3>1
  <2> HIDE DEF kept, p, q
  <2>8. Faithful(n, e)
    <3>1. CASE x = "unknown"
      <4>1. (\A i \in 1..(m + 1) : e[i] = "unknown") <=> (\A i \in 1..m : d[i] = "unknown")
        BY <2>3, <3>1
      <4>2. (\A i \in 1..(m + 1) : e[i] # "tool_use") <=> (\A i \in 1..m : d[i] # "tool_use")
        BY <2>3, <3>1
      <4> QED BY <2>3, <2>4, <2>5, <3>1, <4>1, <4>2 DEF Faithful
    <3>2. CASE x # "unknown"
      <4>1. contract_content(n, e) = Append(kept, p) /\ OwnOf(n, e) = Append(OwnOf(n, d), q)
        BY <2>4, <3>2
      <4>2. Spent(Append(kept, p)) = Append(Spent(kept), Replayed(p))
        BY <2>5, <2>6, <2>7, SpentAppend
      <4>3. Append(kept, p) \in Seq(OfVendor) /\ Append(kept, p) # <<>>
        BY <2>5, <2>6
      <4>4. ~\A i \in 1..(m + 1) : e[i] = "unknown"
        BY <2>3, <3>2
      <4>5. Calls(Append(kept, p)) = IF x = "tool_use" THEN Append(Calls(kept), p) ELSE Calls(kept)
        BY <2>5, <2>6, OfTypeAppend DEF Calls
      <4>6. Calls(kept) \in Seq(OfVendor)
        <5>1. OfType(kept, "tool_use") \in Seq({y \in OfVendor : y.type = "tool_use"})
          BY <2>5, OfTypeType
        <5> QED BY <5>1 DEF Calls
      <4>7. Append(Calls(kept), p) # <<>>
        BY <4>6, <2>6
      <4>8. (\A i \in 1..(m + 1) : e[i] # "tool_use")
               <=> (x # "tool_use" /\ \A i \in 1..m : d[i] # "tool_use")
        <5>1. \A i \in 1..(m + 1) : i \in 1..m \/ i = m + 1
          BY <2>3
        <5>2. (\A i \in 1..m : i \in 1..(m + 1)) /\ m + 1 \in 1..(m + 1)
          BY <2>3
        <5> QED BY <2>3, <5>1, <5>2
      <4>9. Calls(Append(kept, p)) = <<>> <=> \A i \in 1..(m + 1) : e[i] # "tool_use"
        BY <4>5, <4>7, <4>8, <2>5, Zenon
      <4>10. Spent(Append(kept, p)) = OwnOf(n, e)
        BY <4>1, <4>2, <2>5, <2>6
      <4> QED BY <2>3, <4>1, <4>3, <4>4, <4>9, <4>10, Zenon DEF Faithful
    <3> QED BY <3>1, <3>2
  <2>9. m + 1 \in 0..Len(c)
    OBVIOUS
  <2> QED BY <2>1, <2>8, <2>9
<1>3. Faithful(n, SubSeq(c, 1, Len(c)))
  <2>1. Len(c) \in Nat /\ Len(c) \in 0..Len(c)
    OBVIOUS
  <2>2. 0..Len(c) \subseteq Good
    <3> HIDE DEF Good
    <3> QED BY <1>1, <1>2, <2>1, BySteps
  <2> QED BY <2>1, <2>2
<1>4. SubSeq(c, 1, Len(c)) = c
  BY PrefixEnds
<1> QED BY <1>3, <1>4


-----------------------------------------------------------------------------
(* ProviderTurn: what a sequence of messages shows. *)
Alternate(s) == \A i \in 1..Len(s) : s[i].role = IF i % 2 = 1 THEN "user" ELSE "assistant"

Answered(s) ==
  \A i \in 1..Len(s) : s[i].role = "user" =>
    OfType(s[i].content, "tool_result") = IF i = 1 THEN <<>> ELSE Results(s[i - 1].content)

ResultsFirst(c) ==
  \A j, k \in 1..Len(c) : c[j].of[1] = 0 /\ c[k].type = "tool_result" => k < j

Ordered(s) == \A i \in 1..Len(s) : ResultsFirst(s[i].content)

Heard(s) == OfType(FlattenSeq(Spoken(s, "user")), "text")

UserTexts(t) == [i \in 1..t |-> UserText(i)]

Sound(s) == Alternate(s) /\ Answered(s) /\ Ordered(s)

Shows(s, t, own) == Sound(s) /\ Heard(s) = UserTexts(t) /\ Spoken(s, "assistant") = own

LEMMA SpokenAppend ==
  ASSUME NEW s \in Seq(MessageOf), NEW m \in MessageOf, NEW role
  PROVE  /\ Spoken(s, role) \in Seq(Seq(Block))
         /\ Spoken(Append(s, m), role) =
              IF m.role = role THEN Append(Spoken(s, role), m.content) ELSE Spoken(s, role)
<1> DEFINE d == Append(s, m)
           n == Len(s)
           At1(x) == IF x.role = role THEN <<x.content>> ELSE <<>>
           u == [i \in 1..Len(s) |-> At1(s[i])]
           v == [i \in 1..Len(d) |-> At1(d[i])]
<1>1. d \in Seq(MessageOf) /\ n \in Nat /\ Len(d) = n + 1 /\ d[n + 1] = m /\ \A i \in 1..n : d[i] = s[i]
  OBVIOUS
<1>2. ASSUME NEW x \in MessageOf
      PROVE  At1(x) \in Seq(Seq(Block)) /\ x.content \in Seq(Block)
  <2>1. x.content \in Seq(Block)
    BY DEF MessageOf
  <2> QED BY <2>1
<1>3. u \in Seq(Seq(Seq(Block))) /\ v \in Seq(Seq(Seq(Block)))
  <2>1. ASSUME NEW e \in Seq(MessageOf)
        PROVE  [i \in 1..Len(e) |-> At1(e[i])] \in Seq(Seq(Seq(Block)))
    <3>1. \A i \in 1..Len(e) : At1(e[i]) \in Seq(Seq(Block))
      <4> TAKE i \in 1..Len(e)
      <4>1. e[i] \in MessageOf
        OBVIOUS
      <4> HIDE DEF At1
      <4> QED BY <4>1, <1>2
    <3> HIDE DEF At1
    <3> QED BY <3>1
  <2> HIDE DEF d, At1
  <2> QED BY <1>1, <2>1
<1>4. Len(u) = n /\ Len(v) = n + 1 /\ (\A i \in 1..n : u[i] = v[i]) /\ v[n + 1] = At1(m)
  <2> HIDE DEF d, At1
  <2>1. \A i \in 1..n : i \in 1..Len(d) /\ i \in 1..Len(s)
    BY <1>1
  <2>2. n + 1 \in 1..Len(d)
    BY <1>1
  <2> QED BY <1>1, <2>1, <2>2
<1>5. Spoken(s, role) = FlattenSeq(u) /\ Spoken(d, role) = FlattenSeq(v)
  BY DEF Spoken
<1> DEFINE f == FlattenSeq(u)
<1>6. FlattenSeq(v) = f \o At1(m)
  <2> HIDE DEF u, v, d, n, At1
  <2>1. FlattenSeq(v) = FlattenSeq(u) \o v[n + 1]
    BY <1>1, <1>3, <1>4, FlattenExtended
  <2> QED BY <2>1, <1>4 DEF f
<1>7. f \in Seq(Seq(Block))
  <2> HIDE DEF u
  <2> QED BY <1>3, FlattenType
<1>8. m.content \in Seq(Block)
  BY <1>2
<1> HIDE DEF u, v, f
<1>9. f \o <<m.content>> = Append(f, m.content) /\ f \o <<>> = f
  BY <1>7, <1>8
<1>10. CASE m.role = role
  <2>1. At1(m) = <<m.content>>
    BY <1>10
  <2> HIDE DEF At1
  <2> QED BY <1>5, <1>6, <1>7, <1>9, <1>10, <2>1 DEF f, d
<1>11. CASE m.role # role
  <2>1. At1(m) = <<>>
    BY <1>11
  <2> HIDE DEF At1
  <2> QED BY <1>5, <1>6, <1>7, <1>9, <1>11, <2>1 DEF f, d
<1> QED BY <1>10, <1>11

LEMMA HeardAppend ==
  ASSUME NEW s \in Seq(MessageOf), NEW m \in MessageOf
  PROVE  /\ Heard(s) \in Seq(Block)
         /\ Heard(Append(s, m)) =
              IF m.role = "user" THEN Heard(s) \o OfType(m.content, "text") ELSE Heard(s)
<1> DEFINE u == Spoken(s, "user")
<1>1. m.content \in Seq(Block)
  BY DEF MessageOf
<1>2. /\ u \in Seq(Seq(Block))
      /\ Spoken(Append(s, m), "user") = IF m.role = "user" THEN Append(u, m.content) ELSE u
  BY SpokenAppend
<1> HIDE DEF u
<1>3. FlattenSeq(Append(u, m.content)) = FlattenSeq(u) \o m.content
  BY <1>1, <1>2, FlattenAppend
<1>4. FlattenSeq(u) \in Seq(Block)
  BY <1>2, FlattenType
<1>5. OfType(FlattenSeq(u) \o m.content, "text") = OfType(FlattenSeq(u), "text") \o OfType(m.content, "text")
  BY <1>1, <1>4, OfTypeConcat
<1>6. OfType(FlattenSeq(u), "text") \in Seq(Block)
  <2>1. OfType(FlattenSeq(u), "text") \in Seq({y \in Block : y.type = "text"})
    BY <1>4, OfTypeType
  <2> QED BY <2>1
<1>7. Heard(s) = OfType(FlattenSeq(u), "text")
  BY DEF Heard, u
<1>8. CASE m.role = "user"
  <2>1. Heard(Append(s, m)) = OfType(FlattenSeq(Append(u, m.content)), "text")
    BY <1>2, <1>8 DEF Heard
  <2> QED BY <2>1, <1>3, <1>5, <1>6, <1>7, <1>8
<1>9. CASE m.role # "user"
  <2>1. Heard(Append(s, m)) = OfType(FlattenSeq(u), "text")
    BY <1>2, <1>9 DEF Heard
  <2> QED BY <2>1, <1>6, <1>7, <1>9
<1> QED BY <1>8, <1>9

LEMMA Parity ==
  ASSUME NEW n \in Nat
  PROVE  (n % 2 = 0 \/ n % 2 = 1) /\ ((n + 1) % 2 = 1 <=> n % 2 = 0) /\ ((n + 1) % 2 = 0 <=> n % 2 = 1)
         /\ 0 % 2 = 0 /\ 1 % 2 = 1
OBVIOUS

(* One message more: the vendor's, or the user's. *)
LEMMA SoundAppend ==
  ASSUME NEW s \in Seq(MessageOf), NEW m \in MessageOf, Sound(s),
         m.role = IF Len(s) % 2 = 0 THEN "user" ELSE "assistant",
         m.role = "user" => OfType(m.content, "tool_result")
                              = IF Len(s) = 0 THEN <<>> ELSE Results(s[Len(s)].content),
         ResultsFirst(m.content)
  PROVE  Sound(Append(s, m))
<1> DEFINE d == Append(s, m)
           n == Len(s)
<1>1. d \in Seq(MessageOf) /\ n \in Nat /\ Len(d) = n + 1 /\ d[n + 1] = m /\ \A i \in 1..n : d[i] = s[i]
  OBVIOUS
<1>p. (n + 1) % 2 = 1 <=> n % 2 = 0
  BY <1>1, Parity
<1>h. /\ m.role = IF n % 2 = 0 THEN "user" ELSE "assistant"
      /\ m.role = "user" => OfType(m.content, "tool_result") = IF n = 0 THEN <<>> ELSE Results(s[n].content)
  OBVIOUS
<1> HIDE DEF d, n
<1>2. \A i \in 1..Len(d) : i \in 1..n \/ i = n + 1
  BY <1>1
<1>n. n = Len(s)
  BY DEF n
<1>3. Alternate(d)
  <2>1. \A i \in 1..n : s[i].role = IF i % 2 = 1 THEN "user" ELSE "assistant"
    BY <1>n DEF Sound, Alternate
  <2> SUFFICES ASSUME NEW i \in 1..Len(d)
               PROVE  d[i].role = IF i % 2 = 1 THEN "user" ELSE "assistant"
    BY DEF Alternate
  <2>2. CASE i \in 1..n
    BY <2>1, <2>2, <1>1
  <2>3. CASE i = n + 1
    BY <2>3, <1>1, <1>p, <1>h
  <2> QED BY <1>2, <2>2, <2>3
<1>4. Answered(d)
  <2>1. \A i \in 1..n : s[i].role = "user" =>
          OfType(s[i].content, "tool_result") = IF i = 1 THEN <<>> ELSE Results(s[i - 1].content)
    BY <1>n DEF Sound, Answered
  <2> SUFFICES ASSUME NEW i \in 1..Len(d), d[i].role = "user"
               PROVE  OfType(d[i].content, "tool_result") = IF i = 1 THEN <<>> ELSE Results(d[i - 1].content)
    BY DEF Answered
  <2>2. CASE i \in 1..n
    <3>1. i # 1 => i - 1 \in 1..n
      BY <2>2, <1>1
    <3>2. d[i] = s[i] /\ (i # 1 => d[i - 1] = s[i - 1])
      BY <2>2, <3>1, <1>1
    <3>3. OfType(s[i].content, "tool_result") = IF i = 1 THEN <<>> ELSE Results(s[i - 1].content)
      BY <2>1, <2>2, <3>2
    <3> QED BY <3>2, <3>3
  <2>3. CASE i = n + 1
    <3>1. d[i] = m /\ i - 1 = n /\ (i = 1 <=> n = 0) /\ (n # 0 => d[n] = s[n])
      BY <2>3, <1>1
    <3> QED BY <3>1, <1>h
  <2> QED BY <1>2, <2>2, <2>3
<1>5. Ordered(d)
  <2>1. \A i \in 1..n : ResultsFirst(s[i].content)
    BY <1>n DEF Sound, Ordered
  <2> QED BY <2>1, <1>1, <1>2 DEF Ordered
<1> QED BY <1>3, <1>4, <1>5 DEF Sound, d

LEMMA SoundFront ==
  ASSUME NEW s \in Seq(MessageOf), NEW m \in MessageOf, Sound(Append(s, m))
  PROVE  Sound(s) /\ m.role = (IF Len(s) % 2 = 0 THEN "user" ELSE "assistant")
         /\ (m.role = "user" => OfType(m.content, "tool_result")
                                  = IF Len(s) = 0 THEN <<>> ELSE Results(s[Len(s)].content))
         /\ ResultsFirst(m.content)
<1> DEFINE d == Append(s, m)
           n == Len(s)
<1>1. d \in Seq(MessageOf) /\ n \in Nat /\ Len(d) = n + 1 /\ d[n + 1] = m /\ \A i \in 1..n : d[i] = s[i]
  OBVIOUS
<1>p. (n + 1) % 2 = 1 <=> n % 2 = 0
  BY <1>1, Parity
<1>h. Alternate(d) /\ Answered(d) /\ Ordered(d)
  BY DEF Sound
<1> HIDE DEF d, n
<1>2. (\A i \in 1..n : i \in 1..Len(d)) /\ n + 1 \in 1..Len(d)
  BY <1>1
<1>n. n = Len(s)
  BY DEF n
<1>3. \A i \in 1..n : s[i].role = IF i % 2 = 1 THEN "user" ELSE "assistant"
  BY <1>1, <1>2, <1>h DEF Alternate
<1>4. \A i \in 1..n : s[i].role = "user" =>
          OfType(s[i].content, "tool_result") = IF i = 1 THEN <<>> ELSE Results(s[i - 1].content)
  <2> SUFFICES ASSUME NEW i \in 1..n, s[i].role = "user"
               PROVE  OfType(s[i].content, "tool_result") = IF i = 1 THEN <<>> ELSE Results(s[i - 1].content)
    OBVIOUS
  <2>1. i # 1 => i - 1 \in 1..n
    BY <1>1
  <2>2. d[i] = s[i] /\ (i # 1 => d[i - 1] = s[i - 1]) /\ i \in 1..Len(d)
    BY <2>1, <1>1, <1>2
  <2>3. OfType(d[i].content, "tool_result") = IF i = 1 THEN <<>> ELSE Results(d[i - 1].content)
    BY <2>2, <1>h DEF Answered
  <2> QED BY <2>2, <2>3
<1>5. \A i \in 1..n : ResultsFirst(s[i].content)
  BY <1>1, <1>2, <1>h DEF Ordered
<1>6. m.role = IF n % 2 = 0 THEN "user" ELSE "assistant"
  BY <1>1, <1>2, <1>h, <1>p DEF Alternate
<1>7. m.role = "user" => OfType(m.content, "tool_result") = IF n = 0 THEN <<>> ELSE Results(s[n].content)
  <2> SUFFICES ASSUME m.role = "user"
               PROVE  OfType(m.content, "tool_result") = IF n = 0 THEN <<>> ELSE Results(s[n].content)
    OBVIOUS
  <2>1. OfType(d[n + 1].content, "tool_result") = IF n + 1 = 1 THEN <<>> ELSE Results(d[n + 1 - 1].content)
    BY <1>1, <1>2, <1>h DEF Answered
  <2>2. n + 1 - 1 = n /\ (n + 1 = 1 <=> n = 0) /\ (n # 0 => d[n] = s[n])
    BY <1>1
  <2> QED BY <2>1, <2>2, <1>1
<1>8. ResultsFirst(m.content)
  BY <1>1, <1>2, <1>h DEF Ordered
<1>9. Sound(s)
  BY <1>n, <1>3, <1>4, <1>5 DEF Sound, Alternate, Answered, Ordered
<1> QED BY <1>n, <1>6, <1>7, <1>8, <1>9


-----------------------------------------------------------------------------
(* ProviderTurn: the messages as they are replayed. *)
RepMsg(m) ==
  IF m.role # "assistant" THEN m
  ELSE [m EXCEPT !.content = [j \in DOMAIN @ |-> Replayed(@[j])]]

ReplayOf(ms) == [i \in 1..Len(ms) |-> RepMsg(ms[i])]

LEMMA ReplayIs == replay_messages = ReplayOf(messages)
BY DEF replay_messages, ReplayOf, RepMsg

LEMMA SpentType ==
  ASSUME NEW c \in Seq(Block)
  PROVE  Spent(c) \in Seq(Block) /\ Len(Spent(c)) = Len(c)
         /\ \A j \in 1..Len(c) : Spent(c)[j] = Replayed(c[j])
<1>1. \A j \in 1..Len(c) : Replayed(c[j]) \in Block
  <2> TAKE j \in 1..Len(c)
  <2>1. c[j] \in Block
    OBVIOUS
  <2> QED BY <2>1, ReplayedType
<1>2. Spent(c) = [j \in 1..Len(c) |-> Replayed(c[j])]
  BY DEF Spent
<1> QED BY <1>1, <1>2

LEMMA RepMsgIs ==
  ASSUME NEW m \in MessageOf
  PROVE  /\ RepMsg(m) \in MessageOf /\ RepMsg(m).role = m.role
         /\ RepMsg(m).content = IF m.role = "user" THEN m.content ELSE Spent(m.content)
         /\ m.role = "user" => RepMsg(m) = m
<1>1. m.role \in {"user", "assistant"} /\ m.content \in Seq(Block)
  BY DEF MessageOf
<1>2. Spent(m.content) \in Seq(Block)
  BY <1>1, SpentType
<1>3. CASE m.role = "user"
  BY <1>1, <1>3 DEF RepMsg
<1>4. CASE m.role # "user"
  <2>1. RepMsg(m) = [m EXCEPT !.content = Spent(m.content)]
    BY <1>1, <1>4 DEF RepMsg, Spent
  <2> DEFINE c == Spent(m.content)
  <2>2. RepMsg(m) = [m EXCEPT !.content = c] /\ c \in Seq(Block)
    BY <2>1, <1>2
  <2> HIDE DEF c
  <2>3. RepMsg(m) \in MessageOf /\ RepMsg(m).role = m.role /\ RepMsg(m).content = c
    BY <2>2 DEF MessageOf
  <2> QED BY <2>3, <1>4 DEF c
<1> QED BY <1>3, <1>4

LEMMA ReplayOfType ==
  ASSUME NEW s \in Seq(MessageOf)
  PROVE  ReplayOf(s) \in Seq(MessageOf) /\ Len(ReplayOf(s)) = Len(s)
         /\ \A i \in 1..Len(s) : ReplayOf(s)[i] = RepMsg(s[i])
<1>1. \A i \in 1..Len(s) : RepMsg(s[i]) \in MessageOf
  <2> TAKE i \in 1..Len(s)
  <2>1. s[i] \in MessageOf
    OBVIOUS
  <2> QED BY <2>1, RepMsgIs
<1> QED BY <1>1 DEF ReplayOf

LEMMA ReplayOfAppend ==
  ASSUME NEW s \in Seq(MessageOf), NEW m \in MessageOf
  PROVE  ReplayOf(Append(s, m)) = Append(ReplayOf(s), RepMsg(m))
<1> DEFINE d == Append(s, m)
           n == Len(s)
           u == ReplayOf(s)
           w == Append(u, RepMsg(m))
           v == ReplayOf(d)
<1>1. d \in Seq(MessageOf) /\ n \in Nat /\ Len(d) = n + 1 /\ d[n + 1] = m /\ \A i \in 1..n : d[i] = s[i]
  OBVIOUS
<1>2. u \in Seq(MessageOf) /\ Len(u) = n /\ \A i \in 1..n : u[i] = RepMsg(s[i])
  BY ReplayOfType
<1>3. RepMsg(m) \in MessageOf
  BY RepMsgIs
<1> HIDE DEF u, d, n
<1>4. Len(w) = n + 1 /\ w \in Seq(MessageOf) /\ w[n + 1] = RepMsg(m) /\ \A i \in 1..n : w[i] = u[i]
  BY <1>1, <1>2, <1>3
<1>5. v \in Seq(MessageOf) /\ Len(v) = n + 1 /\ \A i \in 1..(n + 1) : v[i] = RepMsg(d[i])
  <2>1. v \in Seq(MessageOf) /\ Len(v) = Len(d) /\ \A i \in 1..Len(d) : v[i] = RepMsg(d[i])
    BY <1>1, ReplayOfType
  <2> HIDE DEF v
  <2> QED BY <1>1, <2>1
<1> HIDE DEF w, v
<1>6. \A i \in 1..(n + 1) : v[i] = w[i]
  <2> TAKE i \in 1..(n + 1)
  <2>1. i \in 1..n \/ i = n + 1
    BY <1>1
  <2> QED BY <2>1, <1>1, <1>2, <1>4, <1>5
<1>7. v = w
  BY <1>1, <1>4, <1>5, <1>6
<1> QED BY <1>7 DEF v, w, u, d

LEMMA SplitLast ==
  ASSUME NEW T, NEW s \in Seq(T), s # <<>>, NEW x \in T
  PROVE  LET front == SubSeq(s, 1, Len(s) - 1)
         IN  /\ front \in Seq(T) /\ Len(front) = Len(s) - 1 /\ s[Len(s)] \in T
             /\ s = Append(front, s[Len(s)])
             /\ [s EXCEPT ![Len(s)] = x] = Append(front, x)
<1> DEFINE l == Len(s)
           front == SubSeq(s, 1, l - 1)
           v == [s EXCEPT ![l] = x]
           w == Append(front, x)
           z == Append(front, s[l])
<1>1. l \in Nat /\ l \in 1..l /\ s[l] \in T /\ l - 1 \in Nat /\ l - 1 + 1 = l
  OBVIOUS
<1>2. front \in Seq(T) /\ Len(front) = l - 1 /\ \A i \in 1..(l - 1) : front[i] = s[i]
  <2>1. l - 1 \in 0..Len(s)
    OBVIOUS
  <2> HIDE DEF l
  <2> QED BY <2>1, CutIsPrefix
<1>3. v \in Seq(T) /\ Len(v) = l /\ v[l] = x /\ \A i \in 1..(l - 1) : v[i] = s[i]
  OBVIOUS
<1>s. s \in Seq(T) /\ Len(s) = l
  OBVIOUS
<1> HIDE DEF front, v, l
<1>4. w \in Seq(T) /\ Len(w) = l /\ w[l] = x /\ \A i \in 1..(l - 1) : w[i] = front[i]
  BY <1>1, <1>2
<1>5. z \in Seq(T) /\ Len(z) = l /\ z[l] = s[l] /\ \A i \in 1..(l - 1) : z[i] = front[i]
  BY <1>1, <1>2
<1> HIDE DEF w, z
<1>6. \A i \in 1..l : i \in 1..(l - 1) \/ i = l
  BY <1>1
<1>7. \A i \in 1..l : v[i] = w[i] /\ s[i] = z[i]
  BY <1>2, <1>3, <1>4, <1>5, <1>6
<1>8. v = w /\ s = z
  BY <1>1, <1>s, <1>3, <1>4, <1>5, <1>7
<1> QED BY <1>1, <1>2, <1>8 DEF front, v, w, z, l

(* The calls of an answer are those of its replay. *)
LEMMA SameCalls ==
  ASSUME NEW c \in Seq(Block)
  PROVE  Calls(Spent(c)) = Calls(c) /\ Results(Spent(c)) = Results(c)
<1> DEFINE d == Spent(c)
           n == Len(c)
           s == [i \in 1..Len(c) |-> IF c[i].type = "tool_use" THEN <<c[i]>> ELSE <<>>]
           t == [i \in 1..Len(d) |-> IF d[i].type = "tool_use" THEN <<d[i]>> ELSE <<>>]
<1>1. Len(d) = n /\ \A i \in 1..n : d[i] = Replayed(c[i])
  BY SpentType
<1>2. \A i \in 1..n : (d[i].type = "tool_use" <=> c[i].type = "tool_use")
                      /\ (c[i].type = "tool_use" => d[i] = c[i])
  <2>1. \A b \in Block : /\ Replayed(b).type = "tool_use" <=> b.type = "tool_use"
                         /\ b.type = "tool_use" => Replayed(b) = b
    BY DEF Replayed, Part
  <2>2. \A i \in 1..n : c[i] \in Block
    OBVIOUS
  <2> HIDE DEF d
  <2> QED BY <1>1, <2>1, <2>2
<1>3. s = t
  <2> HIDE DEF d
  <2> QED BY <1>1, <1>2
<1>4. OfType(c, "tool_use") = FlattenSeq(s) /\ OfType(d, "tool_use") = FlattenSeq(t)
  BY DEF OfType
<1> HIDE DEF s, t, d
<1>5. Calls(d) = Calls(c)
  BY <1>3, <1>4 DEF Calls
<1>6. Results(d) = Results(c)
  BY <1>5 DEF Results
<1> QED BY <1>5, <1>6 DEF d

(* The results of a message of the vendor's, and a text of the user's. *)
LEMMA ResultsShow ==
  ASSUME NEW c \in Seq(OfVendor)
  PROVE  /\ Results(c) \in Seq(Block)
         /\ OfType(Results(c), "tool_result") = Results(c)
         /\ OfType(Results(c), "text") = <<>>
         /\ ResultsFirst(Results(c)) /\ ResultsFirst(c)
<1> DEFINE calls == Calls(c)
           r == Results(c)
<1>1. calls \in Seq(OfVendor)
  <2>1. OfType(c, "tool_use") \in Seq({y \in OfVendor : y.type = "tool_use"})
    BY OfTypeType
  <2> QED BY <2>1 DEF Calls
<1>2. r = [i \in 1..Len(calls) |-> Part("tool_result", calls[i].of)]
  BY DEF Results
<1> HIDE DEF calls, r
<1>3. \A i \in 1..Len(calls) : Part("tool_result", calls[i].of) \in {b \in OfVendor : b.type = "tool_result"}
  <2> TAKE i \in 1..Len(calls)
  <2>1. calls[i] \in OfVendor
    BY <1>1
  <2> QED BY <2>1 DEF Part, OfVendor, Kinds
<1> DEFINE U == {b \in OfVendor : b.type = "tool_result"}
<1>4. r \in Seq(U)
  <2> HIDE DEF U
  <2>1. \A i \in 1..Len(calls) : Part("tool_result", calls[i].of) \in U
    BY <1>3 DEF U
  <2> QED BY <1>1, <1>2, <2>1
<1>5. \A i \in 1..Len(r) : r[i] \in OfVendor /\ r[i].type = "tool_result"
  <2> HIDE DEF U
  <2>1. \A i \in 1..Len(r) : r[i] \in U
    BY <1>4
  <2> QED BY <2>1 DEF U
<1>6. r \in Seq(OfVendor)
  BY <1>4
<1>7. Seq(OfVendor) \subseteq Seq(Block)
  <2>1. OfVendor \subseteq Block
    BY DEF OfVendor, Block
  <2> HIDE DEF OfVendor, Block
  <2> QED BY <2>1
<1>8. \A j : OfType(r, j) = IF j = "tool_result" THEN r ELSE <<>>
  BY <1>5, <1>6, OfOneType
<1>9. OfType(r, "tool_result") = r /\ OfType(r, "text") = <<>>
  BY <1>8
<1>10. ASSUME NEW e \in Seq(OfVendor)
       PROVE  ResultsFirst(e)
  <2>1. \A i \in 1..Len(e) : e[i] \in OfVendor
    OBVIOUS
  <2>2. \A i \in 1..Len(e) : e[i].of[1] # 0
    BY <2>1 DEF OfVendor
  <2> QED BY <2>2 DEF ResultsFirst
<1> QED BY <1>6, <1>7, <1>9, <1>10 DEF r

LEMMA TextShows ==
  ASSUME NEW n \in Nat
  PROVE  /\ UserText(n) \in Block /\ UserText(n).type = "text"
         /\ <<UserText(n)>> \in Seq(Block)
         /\ OfType(<<UserText(n)>>, "tool_result") = <<>>
         /\ OfType(<<UserText(n)>>, "text") = <<UserText(n)>>
         /\ ResultsFirst(<<UserText(n)>>)
<1> DEFINE x == UserText(n)
<1>1. x \in Block /\ x.type = "text"
  BY DEF UserText, Block, Kinds
<1> HIDE DEF x
<1>2. <<x>> \in Seq(Block) /\ Append(<<>>, x) = <<x>> /\ <<>> \in Seq(Block) /\ Len(<<x>>) = 1 /\ <<x>>[1] = x
  BY <1>1
<1>3. \A k : OfType(Append(<<>>, x), k) = IF x.type = k THEN Append(OfType(<<>>, k), x) ELSE OfType(<<>>, k)
  BY <1>1, <1>2, OfTypeAppend
<1>4. \A k : OfType(<<x>>, k) = IF x.type = k THEN <<x>> ELSE <<>>
  BY <1>2, <1>3, OfTypeEmpty
<1>5. ResultsFirst(<<x>>)
  BY <1>1, <1>2 DEF ResultsFirst
<1> QED BY <1>1, <1>2, <1>4, <1>5 DEF x

LEMMA MoreText ==
  ASSUME NEW c \in Seq(Block), NEW n \in Nat, ResultsFirst(c)
  PROVE  LET d == Append(c, UserText(n))
         IN  /\ d \in Seq(Block) /\ OfType(d, "tool_result") = OfType(c, "tool_result")
             /\ OfType(d, "text") = Append(OfType(c, "text"), UserText(n))
             /\ ResultsFirst(d)
<1> DEFINE x == UserText(n)
           d == Append(c, x)
<1>1. x \in Block /\ x.type = "text"
  BY TextShows
<1> HIDE DEF x
<1>2. d \in Seq(Block) /\ Len(d) = Len(c) + 1 /\ d[Len(c) + 1] = x /\ \A i \in 1..Len(c) : d[i] = c[i]
  BY <1>1
<1>3. \A k : OfType(d, k) = IF x.type = k THEN Append(OfType(c, k), x) ELSE OfType(c, k)
  BY <1>1, OfTypeAppend
<1> HIDE DEF d
<1>4. OfType(d, "tool_result") = OfType(c, "tool_result") /\ OfType(d, "text") = Append(OfType(c, "text"), x)
  BY <1>1, <1>3
<1>5. ResultsFirst(d)
  <2> SUFFICES ASSUME NEW j \in 1..Len(d), NEW k \in 1..Len(d), d[j].of[1] = 0, d[k].type = "tool_result"
               PROVE  k < j
    BY DEF ResultsFirst
  <2>1. Len(c) \in Nat /\ k # Len(c) + 1
    BY <1>1, <1>2
  <2>2. k \in 1..Len(c) /\ d[k] = c[k]
    BY <2>1, <1>2
  <2>3. CASE j = Len(c) + 1
    BY <2>1, <2>2, <2>3
  <2>4. CASE j # Len(c) + 1
    <3>1. j \in 1..Len(c) /\ d[j] = c[j]
      BY <2>1, <2>4, <1>2
    <3> QED BY <3>1, <2>2 DEF ResultsFirst
  <2> QED BY <2>3, <2>4
<1> QED BY <1>2, <1>4, <1>5 DEF x, d

LEMMA TextsGrow ==
  ASSUME NEW t \in Nat
  PROVE  UserTexts(t + 1) = Append(UserTexts(t), UserText(t + 1)) /\ UserTexts(t) \in Seq(Block)
         /\ UserTexts(0) = <<>>
<1>1. \A i \in Nat : UserText(i) \in Block
  BY TextShows
<1> DEFINE u == UserTexts(t)
           v == UserTexts(t + 1)
           w == Append(u, UserText(t + 1))
<1>2. u \in Seq(Block) /\ Len(u) = t /\ \A i \in 1..t : u[i] = UserText(i)
  BY <1>1 DEF UserTexts
<1>3. v \in Seq(Block) /\ Len(v) = t + 1 /\ \A i \in 1..(t + 1) : v[i] = UserText(i)
  BY <1>1 DEF UserTexts
<1> HIDE DEF u, v
<1>4. w \in Seq(Block) /\ Len(w) = t + 1 /\ w[t + 1] = UserText(t + 1) /\ \A i \in 1..t : w[i] = u[i]
  BY <1>1, <1>2
<1> HIDE DEF w
<1>5. \A i \in 1..(t + 1) : v[i] = w[i]
  <2> TAKE i \in 1..(t + 1)
  <2>1. i \in 1..t \/ i = t + 1
    OBVIOUS
  <2> QED BY <2>1, <1>2, <1>3, <1>4
<1>6. v = w
  BY <1>3, <1>4, <1>5
<1>7. UserTexts(0) = <<>>
  BY DEF UserTexts
<1> QED BY <1>2, <1>6, <1>7 DEF u, v, w


-----------------------------------------------------------------------------
(* ProviderTurn: what each change of the transcript makes of what is shown. *)
LEMMA ShowsAssistant ==
  ASSUME NEW s \in Seq(MessageOf), NEW t \in Nat, NEW own, Shows(s, t, own), Len(s) % 2 = 1,
         NEW m \in MessageOf, m.role = "assistant", ResultsFirst(m.content)
  PROVE  Shows(Append(s, m), t, Append(own, m.content))
<1>1. Sound(s) /\ Heard(s) = UserTexts(t) /\ Spoken(s, "assistant") = own
  BY DEF Shows
<1>2. Len(s) % 2 # 0
  OBVIOUS
<1>3. Sound(Append(s, m))
  BY <1>1, <1>2, SoundAppend
<1>4. Spoken(Append(s, m), "assistant") = Append(own, m.content)
  BY <1>1, SpokenAppend
<1>5. Heard(Append(s, m)) = UserTexts(t)
  BY <1>1, HeardAppend
<1> QED BY <1>3, <1>4, <1>5 DEF Shows

LEMMA ShowsUser ==
  ASSUME NEW s \in Seq(MessageOf), NEW t \in Nat, NEW own, Sound(s), Spoken(s, "assistant") = own,
         Len(s) % 2 = 0,
         NEW m \in MessageOf, m.role = "user", ResultsFirst(m.content),
         OfType(m.content, "tool_result") = IF Len(s) = 0 THEN <<>> ELSE Results(s[Len(s)].content),
         Heard(s) \o OfType(m.content, "text") = UserTexts(t)
  PROVE  Shows(Append(s, m), t, own)
<1>3. Sound(Append(s, m))
  BY SoundAppend
<1>4. Spoken(Append(s, m), "assistant") = own
  BY SpokenAppend
<1>5. Heard(Append(s, m)) = UserTexts(t)
  BY HeardAppend
<1> QED BY <1>3, <1>4, <1>5 DEF Shows

LEMMA ShowsResults ==
  ASSUME NEW s \in Seq(MessageOf), NEW t \in Nat, NEW own, Shows(s, t, own), Len(s) % 2 = 0, Len(s) # 0,
         NEW c \in Seq(OfVendor), Results(s[Len(s)].content) = Results(c),
         NEW m \in MessageOf, m.role = "user", m.content = Results(c)
  PROVE  Shows(Append(s, m), t, own)
<1>1. Sound(s) /\ Heard(s) = UserTexts(t) /\ Spoken(s, "assistant") = own
  BY DEF Shows
<1>2. /\ OfType(m.content, "tool_result") = m.content /\ OfType(m.content, "text") = <<>>
      /\ ResultsFirst(m.content)
  BY ResultsShow
<1>3. Heard(s) \in Seq(Block)
  BY HeardAppend
<1>4. Heard(s) \o OfType(m.content, "text") = UserTexts(t)
  <2>1. Heard(s) \o <<>> = Heard(s)
    BY ONLY <1>3
  <2> QED BY <2>1, <1>1, <1>2
<1>5. OfType(m.content, "tool_result") = IF Len(s) = 0 THEN <<>> ELSE Results(s[Len(s)].content)
  BY <1>2
<1> QED BY <1>1, <1>2, <1>4, <1>5, ShowsUser

LEMMA ShowsText ==
  ASSUME NEW s \in Seq(MessageOf), NEW t \in Nat, NEW own, Shows(s, t, own), Len(s) % 2 = 0,
         Len(s) # 0 => Calls(s[Len(s)].content) = <<>>,
         NEW m \in MessageOf, m.role = "user", m.content = <<UserText(t + 1)>>
  PROVE  Shows(Append(s, m), t + 1, own)
<1>1. Sound(s) /\ Heard(s) = UserTexts(t) /\ Spoken(s, "assistant") = own
  BY DEF Shows
<1>2. /\ UserText(t + 1) \in Block
      /\ OfType(m.content, "tool_result") = <<>> /\ OfType(m.content, "text") = <<UserText(t + 1)>>
      /\ ResultsFirst(m.content)
  BY TextShows
<1>3. /\ UserTexts(t + 1) = Append(UserTexts(t), UserText(t + 1)) /\ UserTexts(t) \in Seq(Block)
      /\ t + 1 \in Nat
  BY TextsGrow
<1>4. Heard(s) \o OfType(m.content, "text") = UserTexts(t + 1)
  <2> DEFINE u == UserTexts(t)
             x == UserText(t + 1)
  <2>1. u \in Seq(Block) /\ x \in Block
    BY <1>2, <1>3
  <2> HIDE DEF u, x
  <2>2. u \o <<x>> = Append(u, x)
    BY ONLY <2>1
  <2> QED BY <2>2, <1>1, <1>2, <1>3 DEF u, x
<1>5. Len(s) # 0 => Results(s[Len(s)].content) = <<>>
  <2>1. Calls(s[Len(s)].content) = <<>> => Results(s[Len(s)].content) = <<>>
    BY DEF Results
  <2> QED BY <2>1
<1>6. OfType(m.content, "tool_result") = IF Len(s) = 0 THEN <<>> ELSE Results(s[Len(s)].content)
  BY <1>2, <1>5
<1> QED BY <1>1, <1>2, <1>3, <1>4, <1>6, ShowsUser

LEMMA ShowsMoreText ==
  ASSUME NEW s \in Seq(MessageOf), NEW t \in Nat, NEW own, NEW m \in MessageOf, Shows(Append(s, m), t, own),
         m.role = "user",
         NEW n \in MessageOf, n.role = "user", n.content = Append(m.content, UserText(t + 1))
  PROVE  Shows(Append(s, n), t + 1, own)
<1>1. /\ Sound(Append(s, m)) /\ Heard(Append(s, m)) = UserTexts(t)
      /\ Spoken(Append(s, m), "assistant") = own
  BY DEF Shows
<1>2. /\ Sound(s) /\ m.role = (IF Len(s) % 2 = 0 THEN "user" ELSE "assistant")
      /\ OfType(m.content, "tool_result") = IF Len(s) = 0 THEN <<>> ELSE Results(s[Len(s)].content)
  BY <1>1, SoundFront
<1>f. ResultsFirst(m.content)
  BY <1>1, SoundFront
<1>3. Len(s) % 2 = 0
  BY <1>2
<1>4. Spoken(s, "assistant") = own
  BY <1>1, SpokenAppend
<1>5. Heard(s) \o OfType(m.content, "text") = UserTexts(t) /\ Heard(s) \in Seq(Block)
  BY <1>1, HeardAppend
<1>6. /\ t + 1 \in Nat /\ UserText(t + 1) \in Block
      /\ UserTexts(t + 1) = Append(UserTexts(t), UserText(t + 1))
  <2>1. t + 1 \in Nat
    OBVIOUS
  <2>2. UserText(t + 1) \in Block
    BY <2>1, TextShows
  <2> QED BY <2>1, <2>2, TextsGrow
<1>7. m.content \in Seq(Block)
  BY DEF MessageOf
<1>8. /\ OfType(n.content, "tool_result") = OfType(m.content, "tool_result")
      /\ OfType(n.content, "text") = Append(OfType(m.content, "text"), UserText(t + 1))
      /\ ResultsFirst(n.content)
  BY <1>6, <1>7, <1>f, MoreText
<1>9. Heard(s) \o OfType(n.content, "text") = UserTexts(t + 1)
  <2> DEFINE h == Heard(s)
             o == OfType(m.content, "text")
             x == UserText(t + 1)
  <2>1. o \in Seq(Block)
    <3>1. o \in Seq({y \in Block : y.type = "text"})
      BY <1>7, OfTypeType
    <3> QED BY <3>1
  <2>2. h \in Seq(Block) /\ x \in Block
    BY <1>5, <1>6
  <2>3. h \o o = UserTexts(t) /\ UserTexts(t + 1) = Append(UserTexts(t), x) /\ OfType(n.content, "text") = Append(o, x)
    BY <1>5, <1>6, <1>8
  <2> HIDE DEF h, o, x
  <2>4. h \o Append(o, x) = Append(h \o o, x)
    BY <2>1, <2>2, ConcatGrows
  <2> QED BY <2>3, <2>4 DEF h
<1>10. OfType(n.content, "tool_result") = IF Len(s) = 0 THEN <<>> ELSE Results(s[Len(s)].content)
  BY <1>2, <1>8
<1> QED BY <1>2, <1>3, <1>4, <1>6, <1>8, <1>9, <1>10, ShowsUser

(* ProviderTurn: what the vendor said, of the messages it completed. *)
Complete(x) ==
  /\ ~x.truncated
  /\ LET a == x.answer
     IN  /\ a.status = "ok" /\ a.body = "message" /\ a.usage /\ a.stop # "pause_turn"
         /\ "malformed" \notin Range(a.content)
         /\ a.stop = "tool_use" => "tool_use" \in Range(a.content)
         /\ \E i \in DOMAIN a.content : a.content[i] # "unknown"

Owns(h, n) == FlattenSeq([k \in 1..n |-> IF Complete(h[k]) THEN <<OwnOf(k, h[k].answer.content)>> ELSE <<>>])

LEMMA CompletedIs == \A k : (Completed(k) <=> Complete(said[k])) /\ Own(k) = OwnOf(k, said[k].answer.content)
BY DEF Completed, Complete, Own, OwnOf

LEMMA OwnsSame ==
  ASSUME NEW n \in Nat, NEW h, NEW g, \A k \in 1..n : h[k] = g[k]
  PROVE  Owns(h, n) = Owns(g, n)
<1>1. [k \in 1..n |-> IF Complete(h[k]) THEN <<OwnOf(k, h[k].answer.content)>> ELSE <<>>]
        = [k \in 1..n |-> IF Complete(g[k]) THEN <<OwnOf(k, g[k].answer.content)>> ELSE <<>>]
  OBVIOUS
<1> QED BY <1>1 DEF Owns

LEMMA OwnOfType ==
  ASSUME NEW n \in Nat \ {0}, NEW c \in Seq(Told)
  PROVE  OwnOf(n, c) \in Seq(OfVendor)
BY OwnAppend DEF Told

LEMMA OwnsGrows ==
  ASSUME NEW h \in Seq(SaidOf), NEW n \in Nat, n + 1 <= Len(h)
  PROVE  Owns(h, n + 1) = IF Complete(h[n + 1]) THEN Append(Owns(h, n), OwnOf(n + 1, h[n + 1].answer.content))
                          ELSE Owns(h, n)
<1> DEFINE Part1(k) == IF Complete(h[k]) THEN <<OwnOf(k, h[k].answer.content)>> ELSE <<>>
           u == [k \in 1..n |-> Part1(k)]
           v == [k \in 1..(n + 1) |-> Part1(k)]
           V == Seq(OfVendor)
<1>1. ASSUME NEW k \in 1..(n + 1)
      PROVE  OwnOf(k, h[k].answer.content) \in V /\ Part1(k) \in Seq(V)
  <2>1. h[k] \in SaidOf /\ k \in Nat \ {0}
    OBVIOUS
  <2>2. h[k].answer.content \in Seq(Told)
    BY <2>1 DEF SaidOf, Reply
  <2>3. OwnOf(k, h[k].answer.content) \in V
    BY <2>1, <2>2, OwnOfType
  <2> HIDE DEF V
  <2> QED BY <2>3
<1> DEFINE x == OwnOf(n + 1, h[n + 1].answer.content)
<1>2. x \in V
  BY <1>1
<1> HIDE DEF V
<1>3. u \in Seq(Seq(V)) /\ v \in Seq(Seq(V)) /\ Len(u) = n /\ Len(v) = n + 1
      /\ (\A i \in 1..n : u[i] = v[i]) /\ v[n + 1] = Part1(n + 1)
  <2> HIDE DEF Part1
  <2>1. \A k \in 1..n : k \in 1..(n + 1)
    OBVIOUS
  <2> QED BY <1>1, <2>1
<1>4. Owns(h, n) = FlattenSeq(u) /\ Owns(h, n + 1) = FlattenSeq(v)
  BY DEF Owns
<1> HIDE DEF u, v
<1>5. FlattenSeq(v) = FlattenSeq(u) \o v[n + 1]
  BY <1>3, FlattenExtended
<1> DEFINE f == FlattenSeq(u)
<1>6. f \in Seq(V)
  BY <1>3, FlattenType
<1> HIDE DEF f, x
<1>7. f \o <<x>> = Append(f, x) /\ f \o <<>> = f
  BY <1>2, <1>6
<1>8. CASE Complete(h[n + 1])
  <2>1. v[n + 1] = <<x>>
    BY <1>3, <1>8 DEF x
  <2> QED BY <2>1, <1>4, <1>5, <1>7, <1>8 DEF f, x
<1>9. CASE ~Complete(h[n + 1])
  <2>1. v[n + 1] = <<>>
    BY <1>3, <1>9
  <2> QED BY <2>1, <1>4, <1>5, <1>7, <1>9 DEF f
<1> QED BY <1>8, <1>9

(* What is made of an answer tells whether it is complete. *)
LEMMA OutputTells ==
  ASSUME NEW n \in Nat \ {0}, NEW x \in SaidOf, NEW out, out = buffered_output(n, x.answer, x.truncated)
  PROVE  /\ out.is = "failed" => ~Complete(x)
         /\ out.is = "message" =>
              /\ out.content = contract_content(n, x.answer.content) /\ out.stop = x.answer.stop
              /\ Complete(x) <=>
                   /\ out.content # <<>>
                   /\ out.stop = "tool_use" => Calls(out.content) # <<>>
              /\ Spent(out.content) = OwnOf(n, x.answer.content)
              /\ out.content \in Seq(OfVendor)
<1> DEFINE a == x.answer
           c == a.content
<1>0. a \in Reply /\ x.truncated \in BOOLEAN /\ c \in Seq(Told)
  BY DEF SaidOf, Reply
<1>1. Faithful(n, c)
  BY <1>0, ContractIsFaithful
<1>2. CASE x.truncated
  BY <1>2 DEF buffered_output, RoundFailed, Complete
<1>3. CASE ~x.truncated /\ a.status # "ok"
  BY <1>3 DEF buffered_output, http_failure, RoundFailed, Complete
<1>4. CASE ~x.truncated /\ a.status = "ok" /\ a.body # "message"
  BY <1>4 DEF buffered_output, translate_message, RoundFailed, Complete
<1>5. CASE ~x.truncated /\ a.status = "ok" /\ a.body = "message"
           /\ ("malformed" \in Range(c) \/ a.stop = "pause_turn")
  BY <1>5 DEF buffered_output, translate_message, RoundFailed, Complete
<1>6. CASE ~x.truncated /\ a.status = "ok" /\ a.body = "message"
           /\ ~("malformed" \in Range(c) \/ a.stop = "pause_turn") /\ ~a.usage
  BY <1>6 DEF buffered_output, translate_message, RoundFailed, Complete
<1>7. CASE ~x.truncated /\ a.status = "ok" /\ a.body = "message"
           /\ ~("malformed" \in Range(c) \/ a.stop = "pause_turn") /\ a.usage
  <2>1. out = [is |-> "message", content |-> contract_content(n, c), stop |-> a.stop]
    BY <1>7 DEF buffered_output, translate_message
  <2>2. out.is = "message" /\ out.content = contract_content(n, c) /\ out.stop = a.stop
    BY <2>1
  <2>3. /\ out.content \in Seq(OfVendor) /\ Spent(out.content) = OwnOf(n, c)
        /\ out.content = <<>> <=> \A i \in 1..Len(c) : c[i] = "unknown"
        /\ Calls(out.content) = <<>> <=> \A i \in 1..Len(c) : c[i] # "tool_use"
    BY <1>1, <2>2 DEF Faithful
  <2>4. DOMAIN c = 1..Len(c) /\ ("tool_use" \in Range(c) <=> \E i \in 1..Len(c) : c[i] = "tool_use")
    BY <1>0 DEF Range
  <2>5. Complete(x) <=> /\ a.stop = "tool_use" => "tool_use" \in Range(c)
                        /\ \E i \in DOMAIN c : c[i] # "unknown"
    BY <1>7 DEF Complete
  <2>6. Complete(x) <=> /\ out.content # <<>>
                        /\ out.stop = "tool_use" => Calls(out.content) # <<>>
    BY <2>2, <2>3, <2>4, <2>5
  <2> QED BY <2>2, <2>3, <2>6
<1> QED BY <1>0, <1>2, <1>3, <1>4, <1>5, <1>6, <1>7


-----------------------------------------------------------------------------
(* ProviderTurn: the vendor is shown its own words. *)

(* How many answers the transcript has taken in. *)
Settled == IF step = "judge" THEN Len(said) - 1 ELSE Len(said)

Ledger ==
  /\ Shows(replay_messages, turn, Owns(said, Settled))
  /\ step # "idle" => Len(messages) % 2 = 1
  /\ step = "idle" /\ Len(messages) % 2 = 0 /\ messages # <<>> =>
       Calls(replay_messages[Len(messages)].content) = <<>>

Reported ==
  step = "judge" =>
    /\ said # <<>>
    /\ result = buffered_output(Len(said), said[Len(said)].answer, said[Len(said)].truncated)

SeenAt(n) ==
  /\ Shows(asked[n].request.messages, asked[n].turn, Owns(said, n - 1))
  /\ Len(asked[n].request.messages) % 2 = 1

Seen == asked # <<>> => SeenAt(Len(asked))

VendorInv == TurnTypes /\ Counted /\ Ledger /\ Reported /\ Seen

LEMMA SeenIsSeen ==
  ASSUME asked \in Seq(AskedOf), Seen
  PROVE  VendorSeesItsOwn
<1> SUFFICES ASSUME asked # <<>>
             PROVE  VendorSeesItsOwn
  BY DEF VendorSeesItsOwn
<1> DEFINE n == Len(asked)
           shown == asked[n].request.messages
           t == asked[n].turn
<1>0. n \in Nat \ {0} /\ shown \in Seq(MessageOf) /\ t \in Nat
  <2>1. n \in 1..Len(asked) /\ asked[n] \in AskedOf
    OBVIOUS
  <2> QED BY <2>1 DEF AskedOf, RequestOf
<1>1. Sound(shown) /\ Heard(shown) = UserTexts(t) /\ Spoken(shown, "assistant") = Owns(said, n - 1)
      /\ Len(shown) % 2 = 1
  BY DEF Seen, SeenAt, Shows
<1>2. DOMAIN shown = 1..Len(shown) /\ \A i \in 1..Len(shown) : DOMAIN shown[i].content = 1..Len(shown[i].content)
  <2>1. \A i \in 1..Len(shown) : shown[i] \in MessageOf
    <3> HIDE DEF shown
    <3> QED BY <1>0
  <2>2. \A i \in 1..Len(shown) : shown[i].content \in Seq(Block)
    <3> HIDE DEF shown
    <3> QED BY <2>1 DEF MessageOf
  <2> HIDE DEF shown
  <2> QED BY <1>0, <2>2
<1>3. Owns(said, n - 1) = FlattenSeq([k \in 1..(n - 1) |-> IF Completed(k) THEN <<Own(k)>> ELSE <<>>])
  <2>1. [k \in 1..(n - 1) |-> IF Completed(k) THEN <<Own(k)>> ELSE <<>>]
          = [k \in 1..(n - 1) |-> IF Complete(said[k]) THEN <<OwnOf(k, said[k].answer.content)>> ELSE <<>>]
    BY CompletedIs
  <2> QED BY <2>1 DEF Owns
<1>4. OfType(FlattenSeq(Spoken(shown, "user")), "text") = [i \in 1..t |-> UserText(i)]
  BY <1>1 DEF Heard, UserTexts
<1>5. /\ \A i \in DOMAIN shown : shown[i].role = (IF i % 2 = 1 THEN "user" ELSE "assistant")
      /\ \A i \in DOMAIN shown : shown[i].role = "user" =>
             OfType(shown[i].content, "tool_result")
               = IF i = 1 THEN <<>> ELSE Results(shown[i - 1].content)
  <2> HIDE DEF shown
  <2> QED BY <1>1, <1>2, Zenon DEF Sound, Alternate, Answered
<1>6. \A i \in DOMAIN shown : \A j, k \in DOMAIN shown[i].content :
             shown[i].content[j].of[1] = 0 /\ shown[i].content[k].type = "tool_result" => k < j
  <2> HIDE DEF shown
  <2>1. \A i \in 1..Len(shown) : \A j, k \in 1..Len(shown[i].content) :
             shown[i].content[j].of[1] = 0 /\ shown[i].content[k].type = "tool_result" => k < j
    BY <1>1 DEF Sound, Ordered, ResultsFirst
  <2> QED BY <1>2, <2>1
<1>7. Spoken(shown, "assistant") = FlattenSeq([k \in 1..(n - 1) |-> IF Completed(k) THEN <<Own(k)>> ELSE <<>>])
      /\ Len(shown) % 2 = 1
  BY <1>1, <1>3
<1> QED BY <1>4, <1>5, <1>6, <1>7, Zenon DEF VendorSeesItsOwn

LEMMA SeenKept ==
  ASSUME VendorInv, asked' = asked, NEW n \in Nat, n = Len(said), \A k \in 1..n : said'[k] = said[k]
  PROVE  Seen'
<1>1. PICK m \in Nat : m = Len(asked)
  BY DEF VendorInv, TurnTypes
<1>2. m - 1 <= n /\ m - 1 \in Int
  BY <1>1 DEF VendorInv, Counted, TurnTypes
<1> SUFFICES ASSUME asked # <<>>
             PROVE  SeenAt(m)'
  BY <1>1 DEF Seen
<1>3. m # 0 /\ SeenAt(m)
  BY <1>1 DEF VendorInv, TurnTypes, Seen
<1>4. m - 1 \in Nat /\ \A k \in 1..(m - 1) : said'[k] = said[k]
  BY <1>1, <1>2, <1>3
<1>5. Owns(said', m - 1) = Owns(said, m - 1)
  BY <1>4, OwnsSame
<1> QED BY <1>3, <1>5 DEF SeenAt

LEMMA VendorStart == TurnInit => VendorInv
<1> SUFFICES ASSUME TurnInit
             PROVE  VendorInv
  OBVIOUS
<1>1. TurnTypes
  BY TurnStart
<1>2. asked = <<>> /\ said = <<>> /\ step = "idle" /\ messages = <<>> /\ turn = 0
      /\ Len(asked) = 0 /\ Len(said) = 0 /\ Len(messages) = 0
  BY DEF TurnInit
<1>3. replay_messages = <<>>
  BY <1>2 DEF replay_messages
<1>4. Settled = 0
  BY <1>2 DEF Settled
<1>5. \A role : Spoken(<<>>, role) = <<>>
  <2> TAKE role
  <2>1. [i \in 1..Len(<<>>) |-> IF <<>>[i].role = role THEN <<<<>>[i].content>> ELSE <<>>] = <<>>
    OBVIOUS
  <2> QED BY <2>1, FlattenEmpty DEF Spoken
<1>6. Owns(said, 0) = <<>>
  <2>1. [k \in 1..0 |-> IF Complete(said[k]) THEN <<OwnOf(k, said[k].answer.content)>> ELSE <<>>] = <<>>
    OBVIOUS
  <2> QED BY <2>1, FlattenEmpty DEF Owns
<1>7. Heard(<<>>) = <<>>
  BY <1>5, FlattenEmpty, OfTypeEmpty DEF Heard
<1>8. UserTexts(0) = <<>>
  BY DEF UserTexts
<1>9. Sound(<<>>)
  <2>1. 1..Len(<<>>) = {}
    OBVIOUS
  <2> QED BY <2>1 DEF Sound, Alternate, Answered, Ordered
<1>10. Ledger
  BY <1>2, <1>3, <1>4, <1>5, <1>6, <1>7, <1>8, <1>9 DEF Ledger, Shows
<1> QED BY <1>1, <1>2, <1>10 DEF VendorInv, Counted, Reported, Seen

LEMMA VendorStep == VendorInv /\ [TurnNext]_providerVars => VendorInv'
<1> SUFFICES ASSUME VendorInv, [TurnNext]_providerVars
             PROVE  VendorInv'
  OBVIOUS
<1> USE DEF Steps
<1>0. TurnTypes /\ TurnTypes'
  BY TurnTypesStep DEF VendorInv
<1>m. Counted /\ Ledger /\ Reported /\ Seen
  BY DEF VendorInv
<1>t. /\ messages \in Seq(MessageOf) /\ turn \in Nat /\ asked \in Seq(AskedOf) /\ said \in Seq(SaidOf)
      /\ messages' \in Seq(MessageOf)
  BY <1>0 DEF TurnTypes
<1>s. PICK n \in Nat : n = Len(said)
  BY <1>t
<1>r. replay_messages = ReplayOf(messages) /\ replay_messages' = ReplayOf(messages')
  BY DEF replay_messages, ReplayOf, RepMsg
<1>q. /\ ReplayOf(messages) \in Seq(MessageOf) /\ Len(ReplayOf(messages)) = Len(messages)
      /\ \A i \in 1..Len(messages) : ReplayOf(messages)[i] = RepMsg(messages[i])
  BY <1>t, ReplayOfType
<1>w. Shows(ReplayOf(messages), turn, Owns(said, Settled))
  BY <1>m, <1>r DEF Ledger
(* Steps that leave asked and said. *)
<1>k. asked' = asked /\ said' = said => Seen'
  BY <1>s, SeenKept
<1>j. ASSUME step = "judge"
      PROVE  /\ n # 0 /\ Settled = n - 1 /\ n - 1 \in Nat /\ n \in Nat \ {0}
             /\ said[n] \in SaidOf /\ result = buffered_output(n, said[n].answer, said[n].truncated)
             /\ Owns(said, n) = IF Complete(said[n])
                                THEN Append(Owns(said, n - 1), OwnOf(n, said[n].answer.content))
                                ELSE Owns(said, n - 1)
  <2>1. said # <<>> /\ result = buffered_output(n, said[n].answer, said[n].truncated)
    BY <1>j, <1>m, <1>s DEF Reported
  <2>2. n # 0 /\ n - 1 \in Nat /\ n - 1 + 1 = n /\ said[n] \in SaidOf
    BY <2>1, <1>s, <1>t
  <2>3. Owns(said, n) = IF Complete(said[n])
                        THEN Append(Owns(said, n - 1), OwnOf(n, said[n].answer.content))
                        ELSE Owns(said, n - 1)
    <3> DEFINE p == n - 1
    <3>1. p \in Nat /\ p + 1 = n /\ p + 1 <= Len(said)
      BY <2>2, <1>s
    <3> HIDE DEF p
    <3>2. Owns(said, p + 1) = IF Complete(said[p + 1])
                              THEN Append(Owns(said, p), OwnOf(p + 1, said[p + 1].answer.content))
                              ELSE Owns(said, p)
      BY <3>1, <1>t, OwnsGrows
    <3> QED BY <3>1, <3>2 DEF p
  <2>4. Settled = n - 1
    BY <1>j, <1>s DEF Settled
  <2> QED BY <2>1, <2>2, <2>3, <2>4
<1>1. CASE Turn
  <2>1. /\ step = "idle" /\ step' = "ask" /\ turn' = turn + 1 /\ messages' = push_user_text(turn + 1)
        /\ UNCHANGED <<asked, said>>
    BY <1>1 DEF Turn
  <2>2. Settled = n /\ Settled' = n
    BY <2>1, <1>s DEF Settled
  <2> DEFINE x == UserText(turn + 1)
             own == Owns(said, n)
             s == ReplayOf(messages)
  <2>3. Shows(ReplayOf(messages'), turn + 1, own) /\ Len(messages') % 2 = 1
    <3>0. turn + 1 \in Nat /\ x \in Block /\ <<x>> \in Seq(Block)
      <4>1. turn + 1 \in Nat
        BY <1>t
      <4> QED BY <4>1, TextShows
    <3>1. CASE messages # <<>> /\ Last(messages).role = "user"
      <4> DEFINE l == Len(messages)
                 old == messages[l]
                 new == [old EXCEPT !.content = Append(@, x)]
                 front == SubSeq(messages, 1, l - 1)
      <4>1. l \in 1..l /\ old \in MessageOf /\ old.role = "user"
        BY <3>1, <1>t DEF Last
      <4>2. old.content \in Seq(Block)
        BY <4>1 DEF MessageOf
      <4> HIDE DEF old, x
      <4>3. new \in MessageOf /\ new.role = "user" /\ new.content = Append(old.content, x)
        <5>1. Append(old.content, x) \in Seq(Block)
          BY <4>2, <3>0
        <5> QED BY <4>1, <5>1 DEF MessageOf
      <4>4. messages' = [messages EXCEPT ![l] = new]
        BY <2>1, <3>1 DEF push_user_text, old, x
      <4> HIDE DEF new
      <4>5. /\ front \in Seq(MessageOf) /\ Len(front) = l - 1
            /\ messages = Append(front, old) /\ messages' = Append(front, new)
        <5>1. LET f == SubSeq(messages, 1, Len(messages) - 1)
              IN  /\ f \in Seq(MessageOf) /\ Len(f) = Len(messages) - 1 /\ messages[Len(messages)] \in MessageOf
                  /\ messages = Append(f, messages[Len(messages)])
                  /\ [messages EXCEPT ![Len(messages)] = new] = Append(f, new)
          BY <1>t, <3>1, <4>3, SplitLast
        <5> QED BY <5>1, <4>4 DEF old
      <4> HIDE DEF front
      <4>6. ReplayOf(messages) = Append(ReplayOf(front), old) /\ ReplayOf(messages') = Append(ReplayOf(front), new)
        <5>1. RepMsg(old) = old /\ RepMsg(new) = new
          BY <4>1, <4>3, RepMsgIs
        <5> QED BY <5>1, <4>1, <4>3, <4>5, ReplayOfAppend
      <4>7. ReplayOf(front) \in Seq(MessageOf)
        BY <4>5, ReplayOfType
      <4>8. Shows(Append(ReplayOf(front), old), turn, own)
        BY <1>w, <2>2, <4>6
      <4>9. Shows(Append(ReplayOf(front), new), turn + 1, own)
        BY <4>1, <4>3, <4>7, <4>8, <1>t, ShowsMoreText DEF x
      <4>10. Len(messages) % 2 = 1 /\ Len(messages') = Len(messages)
        <5>1. Sound(Append(ReplayOf(front), old))
          BY <4>8 DEF Shows
        <5>2. old.role = IF Len(ReplayOf(front)) % 2 = 0 THEN "user" ELSE "assistant"
          BY <5>1, <4>1, <4>7, SoundFront
        <5>3. Len(front) % 2 = 0
          BY <5>2, <4>1, <4>5, ReplayOfType
        <5>4. Len(front) \in Nat /\ Len(messages) = Len(front) + 1 /\ Len(messages') = Len(front) + 1
          BY <4>5, <4>1, <4>3
        <5> QED BY <5>3, <5>4, Parity
      <4> QED BY <4>6, <4>9, <4>10
    <3>2. CASE ~(messages # <<>> /\ Last(messages).role = "user")
      <4> DEFINE m == [role |-> "user", content |-> <<x>>]
      <4>1. m \in MessageOf /\ m.role = "user" /\ m.content = <<x>>
        <5> HIDE DEF x
        <5> QED BY <3>0 DEF MessageOf
      <4>2. messages' = Append(messages, m)
        BY <2>1, <3>2 DEF push_user_text
      <4>3. RepMsg(m) = m
        BY <4>1, RepMsgIs
      <4> HIDE DEF m, x
      <4>4. ReplayOf(messages') = Append(s, m)
        BY <4>1, <4>2, <4>3, <1>t, ReplayOfAppend
      <4>5. Len(messages) % 2 = 0 /\ Len(messages) \in Nat
        <5>1. CASE messages = <<>>
          BY <5>1, Parity
        <5>2. CASE messages # <<>>
          <6>1. Len(messages) \in 1..Len(messages) /\ messages[Len(messages)].role # "user"
            BY <5>2, <3>2, <1>t DEF Last
          <6>2. messages[Len(messages)] \in MessageOf
            BY <6>1, <1>t
          <6>3. s[Len(messages)].role # "user"
            BY <6>1, <6>2, <1>q, RepMsgIs
          <6>4. s[Len(messages)].role = IF Len(messages) % 2 = 1 THEN "user" ELSE "assistant"
            BY <6>1, <1>q, <1>w DEF Shows, Sound, Alternate
          <6> QED BY <6>1, <6>3, <6>4, Parity
        <5> QED BY <5>1, <5>2
      <4>6. Len(s) # 0 => Calls(s[Len(s)].content) = <<>>
        <5>1. Len(messages) # 0 => messages # <<>>
          OBVIOUS
        <5> QED BY <5>1, <4>5, <1>m, <1>q, <1>r, <2>1 DEF Ledger
      <4>7. Shows(s, turn, own) /\ s \in Seq(MessageOf) /\ Len(s) % 2 = 0
        BY <1>w, <1>q, <2>2, <4>5
      <4> HIDE DEF s, own
      <4>8. Shows(Append(s, m), turn + 1, own)
        BY <4>1, <4>6, <4>7, <1>t, ShowsText DEF x
      <4>9. Len(messages') % 2 = 1
        <5>1. Len(messages') = Len(messages) + 1
          BY <4>1, <4>2, <1>t
        <5> QED BY <5>1, <4>5, Parity
      <4> QED BY <4>4, <4>8, <4>9
    <3> QED BY <3>1, <3>2
  <2>4. Ledger'
    BY <2>1, <2>2, <2>3, <1>r DEF Ledger
  <2>5. Counted' /\ Reported'
    BY <2>1, <1>m DEF Counted, Reported
  <2> QED BY <1>0, <2>1, <2>4, <2>5, <1>k DEF VendorInv
<1>2. CASE Chat /\ Refused
  <2>1. step = "ask" /\ step' = "idle" /\ UNCHANGED <<asked, said, turn, messages>>
    BY <1>2 DEF Chat, TurnEnds
  <2>2. Settled = n /\ Settled' = n
    BY <2>1, <1>s DEF Settled
  <2>3. Len(messages) % 2 = 1 /\ messages' = messages
    BY <2>1, <1>m DEF Ledger
  <2>4. Ledger'
    BY <2>1, <2>2, <2>3, <1>r, <1>w DEF Ledger
  <2>5. Counted' /\ Reported'
    BY <2>1, <1>m DEF Counted, Reported
  <2> QED BY <1>0, <2>1, <2>4, <2>5, <1>k DEF VendorInv
<1>3. CASE Chat /\ ~Refused
  <2> DEFINE a == [turn |-> turn, round |-> round, attempt |-> attempt,
                   waited |-> waited, request |-> build_request]
  <2>1. /\ asked' = Append(asked, a) /\ step' = "vendor" /\ step = "ask"
        /\ UNCHANGED <<messages, turn, said>>
    BY <1>3 DEF Chat
  <2>2. a \in AskedOf
    <3>1. build_request \in RequestOf
      BY <1>t, RequestType
    <3> QED BY <3>1, <1>0 DEF AskedOf, TurnTypes
  <2>3. a.turn = turn /\ a.request.messages = ReplayOf(messages)
    BY <1>r DEF build_request
  <2> HIDE DEF a
  <2>4. Len(asked) = n /\ Len(asked') = n + 1 /\ asked'[n + 1] = a /\ n + 1 - 1 = n
    BY <2>1, <2>2, <1>m, <1>s, <1>t DEF Counted
  <2>5. Settled = n /\ Settled' = n /\ messages' = messages /\ said' = said
    BY <2>1, <1>s DEF Settled
  <2>6. Shows(ReplayOf(messages), turn, Owns(said, n)) /\ Len(messages) % 2 = 1
    BY <2>1, <2>5, <1>m, <1>w DEF Ledger
  <2>7. Seen'
    <3>0. PICK p \in Nat : p = n + 1
      OBVIOUS
    <3>1. SeenAt(p)'
      <4>1. asked'[p].request.messages = ReplayOf(messages) /\ asked'[p].turn = turn
        BY <2>3, <2>4, <3>0
      <4>2. Owns(said', p - 1) = Owns(said, n)
        BY <2>4, <2>5, <3>0
      <4>3. Shows(asked'[p].request.messages, asked'[p].turn, Owns(said', p - 1))
        BY <4>1, <4>2, <2>6, Zenon
      <4>4. Len(asked'[p].request.messages) % 2 = 1
        BY <4>1, <2>6, <1>q
      <4> QED BY <4>3, <4>4 DEF SeenAt
    <3> QED BY <3>0, <3>1, <2>4 DEF Seen
  <2>8. Ledger'
    BY <2>1, <2>5, <2>6, <1>r DEF Ledger
  <2>9. Counted' /\ Reported'
    BY <2>1, <2>4, <1>s DEF Counted, Reported
  <2> QED BY <1>0, <2>7, <2>8, <2>9 DEF VendorInv
<1>4. CASE Answer \/ FetchFails
  <2>1. step = "vendor" /\ UNCHANGED <<messages, turn, asked>>
    BY <1>4 DEF Answer, FetchFails
  <2>2. Settled = n /\ Len(messages) % 2 = 1 /\ messages' = messages
    BY <2>1, <1>m, <1>s DEF Settled, Ledger
  <2>3. Len(asked) = n + 1 /\ asked' = asked
    BY <2>1, <1>m, <1>s DEF Counted
  <2>4. CASE Answer
    <3>1. PICK answer \in Answers, truncated \in BOOLEAN :
            /\ said' = Append(said, [answer |-> answer, truncated |-> truncated])
            /\ result' = buffered_output(Len(asked), answer, truncated)
      BY <2>4 DEF Answer
    <3>2. answer \in Reply /\ step' = "judge"
      BY <2>4, AnswersAreReplies DEF Answer
    <3> DEFINE x == [answer |-> answer, truncated |-> truncated]
    <3>3. x \in SaidOf /\ x.answer = answer /\ x.truncated = truncated
      BY <3>2 DEF SaidOf
    <3>4. said' = Append(said, x)
      BY <3>1
    <3> HIDE DEF x
    <3>5. Len(said') = n + 1 /\ said'[n + 1] = x /\ (\A k \in 1..n : said'[k] = said[k]) /\ said' # <<>>
      BY <3>3, <3>4, <1>s, <1>t
    <3>6. Settled' = n
      BY <3>2, <3>5, <1>s DEF Settled
    <3>7. Owns(said', n) = Owns(said, n)
      BY <3>5, OwnsSame
    <3>8. Ledger'
      BY <2>1, <2>2, <3>2, <3>6, <3>7, <1>r, <1>w DEF Ledger
    <3>9. Reported'
      BY <2>3, <3>1, <3>3, <3>5 DEF Reported
    <3>10. Counted'
      BY <2>3, <3>2, <3>5 DEF Counted
    <3>11. Seen'
      BY <2>3, <3>5, <1>s, SeenKept
    <3> QED BY <1>0, <3>8, <3>9, <3>10, <3>11 DEF VendorInv
  <2>5. CASE FetchFails
    <3> DEFINE x == [answer |-> NoAnswer, truncated |-> FALSE]
    <3>1. said' = Append(said, x) /\ step' = "idle"
      BY <2>5 DEF FetchFails, TurnEnds
    <3>2. x \in SaidOf
      BY AnswersAreReplies DEF SaidOf
    <3>3. ~Complete(x)
      BY DEF Complete, NoAnswer
    <3> HIDE DEF x
    <3>4. Len(said') = n + 1 /\ said'[n + 1] = x /\ (\A k \in 1..n : said'[k] = said[k])
          /\ said' \in Seq(SaidOf)
      BY <3>1, <3>2, <1>s, <1>t
    <3>5. Settled' = n + 1
      BY <3>1, <3>4 DEF Settled
    <3>6. Owns(said', n) = Owns(said, n)
      BY <3>4, OwnsSame
    <3>7. Owns(said', n + 1) = Owns(said, n)
      <4>1. Owns(said', n + 1) = IF Complete(said'[n + 1]) THEN Append(Owns(said', n), OwnOf(n + 1, said'[n + 1].answer.content))
                          ELSE Owns(said', n)
        <5>1. n + 1 <= Len(said')
          BY <3>4
        <5> QED BY <5>1, <3>4, OwnsGrows
      <4> QED BY <4>1, <3>3, <3>4, <3>6
    <3>8. Ledger'
      BY <2>1, <2>2, <3>1, <3>5, <3>7, <1>r, <1>w DEF Ledger
    <3>9. Counted' /\ Reported'
      BY <2>3, <3>1, <3>4 DEF Counted, Reported
    <3>10. Seen'
      BY <2>3, <3>4, <1>s, SeenKept
    <3> QED BY <1>0, <3>8, <3>9, <3>10 DEF VendorInv
  <2> QED BY <1>4, <2>4, <2>5
<1>5. CASE RetryRound \/ GiveUp
  <2>1. /\ step = "judge" /\ step' \in {"wait", "idle"} /\ result.is = "failed"
        /\ UNCHANGED <<messages, turn, asked, said>>
    BY <1>5 DEF RetryRound, GiveUp, TurnEnds
  <2>2. ~Complete(said[n])
    BY <2>1, <1>j, OutputTells
  <2>3. Owns(said, n) = Owns(said, n - 1) /\ Settled = n - 1
    BY <2>1, <2>2, <1>j
  <2>4. Settled' = n /\ Len(messages) % 2 = 1 /\ messages' = messages /\ said' = said
    BY <2>1, <1>m, <1>s DEF Settled, Ledger
  <2>5. Ledger'
    BY <2>1, <2>3, <2>4, <1>r, <1>w DEF Ledger
  <2>6. Counted' /\ Reported'
    BY <2>1, <1>m DEF Counted, Reported
  <2> QED BY <1>0, <2>1, <2>5, <2>6, <1>k DEF VendorInv
<1>6. CASE Wait
  <2>1. step = "wait" /\ step' = "ask" /\ UNCHANGED <<messages, turn, asked, said>>
    BY <1>6 DEF Wait
  <2>2. Settled = n /\ Settled' = n /\ Len(messages) % 2 = 1 /\ messages' = messages /\ said' = said
    BY <2>1, <1>m, <1>s DEF Settled, Ledger
  <2>3. Ledger'
    BY <2>1, <2>2, <1>r, <1>w DEF Ledger
  <2>4. Counted' /\ Reported'
    BY <2>1, <1>m DEF Counted, Reported
  <2> QED BY <1>0, <2>1, <2>3, <2>4, <1>k DEF VendorInv
<1>7. CASE NoCalls
  <2>1. /\ step = "judge" /\ step' = "idle" /\ result.is = "message" /\ Calls(result.content) = <<>>
        /\ UNCHANGED <<turn, asked, said>>
    BY <1>7 DEF NoCalls, TurnEnds
  <2>2. /\ Complete(said[n]) <=> result.content # <<>> /\ result.stop # "tool_use"
        /\ Spent(result.content) = OwnOf(n, said[n].answer.content)
        /\ result.content \in Seq(OfVendor)
    BY <2>1, <1>j, OutputTells
  <2>3. Settled = n - 1 /\ Settled' = n /\ said' = said /\ Len(messages) % 2 = 1
    BY <2>1, <1>j, <1>m, <1>s DEF Settled, Ledger
  <2>4. Counted' /\ Reported' /\ Seen'
    BY <2>1, <1>m, <1>k DEF Counted, Reported
  <2>5. CASE result.stop = "tool_use" \/ result.content = <<>>
    <3>1. messages' = messages
      BY <1>7, <2>5 DEF NoCalls
    <3>2. Owns(said, n) = Owns(said, n - 1)
      BY <2>1, <2>2, <2>5, <1>j
    <3>3. Ledger'
      BY <2>1, <2>3, <3>1, <3>2, <1>r, <1>w DEF Ledger
    <3> QED BY <1>0, <2>4, <3>3 DEF VendorInv
  <2>6. CASE result.stop # "tool_use" /\ result.content # <<>>
    <3> DEFINE m == [role |-> "assistant", content |-> result.content]
               c == Spent(result.content)
               s == ReplayOf(messages)
               own == Owns(said, n - 1)
    <3>1. result.content \in Seq(Block)
      <4>1. Seq(OfVendor) \subseteq Seq(Block)
        <5>1. OfVendor \subseteq Block
          BY DEF OfVendor, Block
        <5> HIDE DEF OfVendor, Block
        <5> QED BY <5>1
      <4> QED BY <4>1, <2>2
    <3>2. m \in MessageOf /\ m.role = "assistant" /\ m.content = result.content
      BY <3>1 DEF MessageOf
    <3>3. messages' = Append(messages, m)
      BY <1>7, <2>6 DEF NoCalls
    <3> HIDE DEF m
    <3>4. RepMsg(m) \in MessageOf /\ RepMsg(m).role = "assistant" /\ RepMsg(m).content = c
      BY <3>2, RepMsgIs
    <3>5. ReplayOf(messages') = Append(s, RepMsg(m))
      BY <3>2, <3>3, <1>t, ReplayOfAppend
    <3>6. Owns(said, n) = Append(own, c)
      BY <2>1, <2>2, <2>6, <1>j
    <3>7. c \in Seq(OfVendor)
      <4>1. said[n].answer.content \in Seq(Told)
        BY <1>j, <2>1 DEF SaidOf, Reply
      <4> QED BY <4>1, <2>1, <2>2, <1>j, OwnOfType
    <3>8. ResultsFirst(c)
      BY <3>7, ResultsShow
    <3>9. s \in Seq(MessageOf) /\ Shows(s, turn, own) /\ Len(s) % 2 = 1 /\ Len(s) = Len(messages)
      BY <1>q, <1>w, <2>3
    <3> HIDE DEF s, own, c
    <3>10. Shows(Append(s, RepMsg(m)), turn, Append(own, c))
      BY <3>4, <3>8, <3>9, <1>t, ShowsAssistant
    <3>11. Len(messages') = Len(messages) + 1 /\ Append(s, RepMsg(m))[Len(messages) + 1] = RepMsg(m)
      BY <3>2, <3>3, <3>4, <3>9, <1>t
    <3>12. Calls(replay_messages'[Len(messages')].content) = <<>>
      <4>1. Calls(c) = <<>>
        BY <2>1, <3>1, SameCalls DEF c
      <4> QED BY <4>1, <3>4, <3>5, <3>11, <1>r
    <3>13. Ledger'
      BY <2>1, <2>3, <3>5, <3>6, <3>10, <3>12, <1>r DEF Ledger
    <3> QED BY <1>0, <2>4, <3>13 DEF VendorInv
  <2> QED BY <2>5, <2>6
<1>8. CASE AnswerCalls
  <2>1. /\ step = "judge" /\ step' \in {"idle", "ask"} /\ result.is = "message" /\ Calls(result.content) # <<>>
        /\ UNCHANGED <<turn, asked, said>>
        /\ messages' = messages \o <<[role |-> "assistant", content |-> result.content],
                                     [role |-> "user", content |-> Results(result.content)]>>
    BY <1>8 DEF AnswerCalls, TurnEnds
  <2>2. /\ Complete(said[n]) <=> result.content # <<>>
        /\ Spent(result.content) = OwnOf(n, said[n].answer.content)
        /\ result.content \in Seq(OfVendor)
    BY <2>1, <1>j, OutputTells
  <2>3. Settled = n - 1 /\ Settled' = n /\ said' = said /\ Len(messages) % 2 = 1
    BY <2>1, <1>j, <1>m, <1>s DEF Settled, Ledger
  <2>4. Counted' /\ Reported' /\ Seen'
    BY <2>1, <1>m, <1>k DEF Counted, Reported
  <2>5. result.content # <<>>
    BY <2>1, OfTypeEmpty DEF Calls
  <2> DEFINE m == [role |-> "assistant", content |-> result.content]
             u == [role |-> "user", content |-> Results(result.content)]
             c == Spent(result.content)
             s == ReplayOf(messages)
             own == Owns(said, n - 1)
  <2>6. result.content \in Seq(Block)
    <3>1. Seq(OfVendor) \subseteq Seq(Block)
      <4>1. OfVendor \subseteq Block
        BY DEF OfVendor, Block
      <4> HIDE DEF OfVendor, Block
      <4> QED BY <4>1
    <3> QED BY <3>1, <2>2
  <2>7. m \in MessageOf /\ m.role = "assistant" /\ m.content = result.content
    BY <2>6 DEF MessageOf
  <2>8. u \in MessageOf /\ u.role = "user" /\ u.content = Results(result.content)
    <3>1. Results(result.content) \in Seq(Block)
      BY <2>6, ResultsType
    <3> QED BY <3>1 DEF MessageOf
  <2>9. messages' = messages \o <<m, u>>
    BY <2>1
  <2> HIDE DEF m, u
  <2>10. /\ messages' = Append(Append(messages, m), u) /\ Append(messages, m) \in Seq(MessageOf)
         /\ Len(messages') = Len(messages) + 2 /\ Len(messages) \in Nat
    <3>1. messages \o <<m, u>> = Append(Append(messages, m), u) /\ Append(messages, m) \in Seq(MessageOf)
      BY <1>t, <2>7, <2>8, AddOneOrTwo
    <3>2. Len(Append(Append(messages, m), u)) = Len(messages) + 2 /\ Len(messages) \in Nat
      BY <1>t, <2>7, <2>8
    <3> QED BY <3>1, <3>2, <2>9
  <2>11. RepMsg(m) \in MessageOf /\ RepMsg(m).role = "assistant" /\ RepMsg(m).content = c /\ RepMsg(u) = u
    BY <2>7, <2>8, RepMsgIs
  <2>12. ReplayOf(messages') = Append(Append(s, RepMsg(m)), u)
    BY <2>7, <2>8, <2>10, <2>11, <1>t, ReplayOfAppend
  <2>13. Owns(said, n) = Append(own, c)
    BY <2>1, <2>2, <2>5, <1>j
  <2>14. c \in Seq(OfVendor) /\ Results(c) = Results(result.content)
    <3>1. said[n].answer.content \in Seq(Told)
      BY <1>j, <2>1 DEF SaidOf, Reply
    <3> QED BY <3>1, <2>1, <2>2, <2>6, <1>j, OwnOfType, SameCalls
  <2>15. ResultsFirst(c)
    BY <2>14, ResultsShow
  <2>16. s \in Seq(MessageOf) /\ Shows(s, turn, own) /\ Len(s) % 2 = 1
    BY <1>q, <1>w, <2>3
  <2> HIDE DEF s, own, c
  <2>17. Shows(Append(s, RepMsg(m)), turn, Append(own, c))
    BY <2>11, <2>15, <2>16, <1>t, ShowsAssistant
  <2> DEFINE r == Append(s, RepMsg(m))
  <2>18. r \in Seq(MessageOf) /\ Len(r) = Len(s) + 1 /\ Len(s) \in Nat /\ r[Len(r)] = RepMsg(m) /\ Len(r) # 0
    BY <2>11, <2>16
  <2>19. Len(r) % 2 = 0
    BY <2>16, <2>18, Parity
  <2> HIDE DEF r
  <2>20. Shows(Append(r, u), turn, Append(own, c))
    <3>1. Shows(r, turn, Append(own, c))
      BY <2>17 DEF r
    <3>2. Results(r[Len(r)].content) = Results(c) /\ u.content = Results(c)
      BY <2>8, <2>11, <2>14, <2>18
    <3> QED BY <3>1, <3>2, <2>8, <2>14, <2>18, <2>19, <1>t, ShowsResults
  <2>21. Len(messages') % 2 = 1
    <3>1. (Len(messages) + 1) % 2 = 0 /\ Len(messages) + 1 \in Nat
      BY <2>3, <2>10, Parity
    <3>2. (Len(messages) + 1 + 1) % 2 = 1 /\ Len(messages) + 1 + 1 = Len(messages) + 2
      BY <3>1, <2>10, Parity
    <3> QED BY <3>2, <2>10
  <2>22. Ledger'
    BY <2>1, <2>3, <2>12, <2>13, <2>20, <2>21, <1>r DEF Ledger, r
  <2> QED BY <1>0, <2>4, <2>22 DEF VendorInv
<1>9. CASE UNCHANGED providerVars
  <2>1. messages' = messages /\ turn' = turn /\ asked' = asked /\ said' = said /\ step' = step /\ result' = result
    BY <1>9 DEF providerVars
  <2>2. Settled' = Settled
    BY <2>1 DEF Settled
  <2>3. Ledger'
    BY <2>1, <2>2, <1>r, <1>w, <1>m DEF Ledger
  <2>4. Counted' /\ Reported' /\ Seen'
    BY <2>1, <1>m, <1>k DEF Counted, Reported
  <2> QED BY <1>0, <2>3, <2>4 DEF VendorInv
<1> QED BY <1>1, <1>2, <1>3, <1>4, <1>5, <1>6, <1>7, <1>8, <1>9 DEF TurnNext

(* Every request shows the vendor its own words, where it said them, every call answered behind
   its message, and everything the user said (build_request, translate_message, Session::turn). *)
THEOREM VendorSees == TurnSpec => []VendorSeesItsOwn
<1>1. VendorInv => VendorSeesItsOwn
  BY SeenIsSeen DEF VendorInv, TurnTypes
<1> QED BY <1>1, VendorStart, VendorStep, PTL DEF TurnSpec

-----------------------------------------------------------------------------
(* GuestStream: what the bytes say, one byte, one line and one value more. *)

Bytes == Seq(Byte)
NotBlank == Bytes \ {<<>>}
Event == [event: Bytes, data: Bytes]
Parser == [line: Bytes, event: Bytes, data: Bytes, spent: BOOLEAN, out: Seq(Event)]

(* The last of some positions, 0 if there is none. *)
LastOf(Q) == Max({0} \cup Q)

LEMMA LastOfIs ==
  ASSUME NEW n \in Nat, NEW Q \in SUBSET (1..n)
  PROVE  /\ LastOf(Q) \in 0..n /\ LastOf(Q) \in {0} \cup Q
         /\ \A x \in Q : x <= LastOf(Q)
         /\ \A m \in {0} \cup Q : (\A x \in Q : x <= m) => LastOf(Q) = m
<1> DEFINE A == {0} \cup Q
<1>1. A \in SUBSET (0..n) /\ A # {}
  OBVIOUS
<1>2. PICK g \in A : \A y \in A : y <= g
  <2> HIDE DEF A
  <2> QED BY <1>1, GreatestElement
<1>3. LastOf(Q) \in A /\ \A y \in A : LastOf(Q) >= y
  <2>1. \E x \in A : \A y \in A : x >= y
    BY <1>1, <1>2
  <2> HIDE DEF A
  <2>2. Max(A) \in A /\ \A y \in A : Max(A) >= y
    BY <2>1 DEF Max
  <2> QED BY <2>2 DEF LastOf, A
<1>4. \A m \in A : (\A x \in Q : x <= m) => LastOf(Q) = m
  <2> TAKE m \in A
  <2> HAVE \A x \in Q : x <= m
  <2>1. LastOf(Q) \in 0..n /\ m \in 0..n /\ m <= LastOf(Q)
    BY <1>1, <1>3
  <2>2. LastOf(Q) <= m
    BY <1>3, <2>1
  <2> QED BY <2>1, <2>2
<1> QED BY <1>1, <1>3, <1>4

(* w is what s has after its first c. *)
Stretch(w, s, c) == \A k \in 1..Len(w) : w[k] = s[c + k]

LEMMA BetweenIs ==
  ASSUME NEW T, NEW s \in Seq(T), NEW mark, NEW i \in 1..(Len(s) + 1)
  PROVE  /\ LastMark(s, mark, i) \in 0..(i - 1)
         /\ Between(s, mark, i) \in Seq(T \ {mark})
         /\ Between(s, mark, i) \in Seq(T)
         /\ Len(Between(s, mark, i)) = i - 1 - LastMark(s, mark, i)
         /\ Stretch(Between(s, mark, i), s, LastMark(s, mark, i))
<1> DEFINE Q == {j \in 1..(i - 1) : s[j] = mark}
<1>0. LastMark(s, mark, i) = LastOf(Q)
  BY DEF LastMark, LastOf
<1>1. PICK c \in 0..(i - 1) : c = LastOf(Q) /\ \A x \in Q : x <= c
  <2>1. i - 1 \in Nat /\ Q \in SUBSET (1..(i - 1))
    OBVIOUS
  <2> HIDE DEF Q
  <2> QED BY <2>1, LastOfIs
<1>2. PICK k \in Nat : k = i - 1 - c /\ c + k = i - 1
  <2>1. i - 1 - c \in Nat /\ c + (i - 1 - c) = i - 1
    OBVIOUS
  <2> QED BY <2>1
<1>3. c \in Nat /\ c + k <= Len(s) /\ 1 + c = c + 1
  BY <1>2
<1> DEFINE r == SubSeq(s, c + 1, c + k)
<1>4. Between(s, mark, i) = r
  BY <1>0, <1>1, <1>2, <1>3 DEF Between
<1>5. Len(r) = k /\ \A q \in 1..k : r[q] = s[c + q]
  BY <1>3, SubSeqAt
<1>6. r \in Seq(T)
  BY <1>3, SubSeqType
<1>7. \A q \in 1..k : r[q] \in T \ {mark}
  <2> TAKE q \in 1..k
  <2>1. c + q \in 1..Len(s) /\ c + q \in 1..(i - 1) /\ ~(c + q <= c)
    BY <1>2
  <2>2. c + q \notin Q
    BY <1>1, <2>1
  <2>3. s[c + q] # mark /\ s[c + q] \in T
    BY <2>1, <2>2
  <2> QED BY <1>5, <2>3
<1>8. r \in Seq(T \ {mark})
  <2>1. r = [q \in 1..k |-> r[q]]
    BY <1>5, <1>6
  <2> HIDE DEF r
  <2>2. r \in [1..k -> T \ {mark}]
    BY <1>7, <2>1
  <2> QED BY <2>2
<1>9. Stretch(r, s, c)
  <2> HIDE DEF r
  <2> QED BY <1>5 DEF Stretch
<1> HIDE DEF r, Q
<1> QED BY <1>0, <1>1, <1>2, <1>4, <1>5, <1>6, <1>8, <1>9

LEMMA BetweenEnd ==
  ASSUME NEW T, NEW s \in Seq(T), NEW mark, NEW n \in Nat, n = Len(s), NEW i, i = n + 1
  PROVE  /\ LastMark(s, mark, i) \in 0..n
         /\ Between(s, mark, i) \in Seq(T)
         /\ Len(Between(s, mark, i)) = n - LastMark(s, mark, i)
         /\ Stretch(Between(s, mark, i), s, LastMark(s, mark, i))
<1>1. i \in 1..(Len(s) + 1) /\ i - 1 = n
  OBVIOUS
<1> QED BY ONLY s \in Seq(T), <1>1, BetweenIs

LEMMA BetweenSame ==
  ASSUME NEW T, NEW s \in Seq(T), NEW x \in T, NEW mark, NEW i \in 1..(Len(s) + 1)
  PROVE  Between(Append(s, x), mark, i) = Between(s, mark, i)
<1> DEFINE r == Append(s, x)
<1>1. r \in Seq(T) /\ Len(r) = Len(s) + 1 /\ \A j \in 1..Len(s) : r[j] = s[j]
  OBVIOUS
<1>2. {j \in 1..(i - 1) : r[j] = mark} = {j \in 1..(i - 1) : s[j] = mark}
  <2>1. \A j \in 1..(i - 1) : j \in 1..Len(s)
    OBVIOUS
  <2> HIDE DEF r
  <2> QED BY <1>1, <2>1
<1>3. PICK c \in 0..(i - 1) : c = LastMark(s, mark, i)
  BY BetweenIs
<1>4. \A a \in Nat : a >= 1 => SubSeq(r, a, i - 1) = SubSeq(s, a, i - 1)
  <2> HIDE DEF r
  <2>1. i - 1 \in 0..Len(s) /\ Len(s) \in Nat
    OBVIOUS
  <2> TAKE a \in Nat
  <2> HAVE a >= 1
  <2> DEFINE len == i - 1 - a + 1
  <2>2. \A k \in 1..len : k + a - 1 \in 1..Len(s)
    BY <2>1
  <2>3. SubSeq(r, a, i - 1) = [k \in 1..len |-> r[a + k - 1]]
    BY <1>1, <2>1
  <2>4. SubSeq(s, a, i - 1) = [k \in 1..len |-> s[a + k - 1]]
    BY <2>1
  <2>5. \A k \in 1..len : r[a + k - 1] = s[a + k - 1]
    BY <1>1, <2>2
  <2> HIDE DEF len
  <2> QED BY <2>3, <2>4, <2>5
<1>5. 1 + c \in Nat /\ 1 + c >= 1
  OBVIOUS
<1> HIDE DEF r
<1>6. Between(r, mark, i) = Between(s, mark, i)
  BY <1>2, <1>3, <1>4, <1>5 DEF Between, LastMark
<1> QED BY <1>6 DEF r

(* After the last of a sequence: nothing if that is a mark, else one more. *)
LEMMA BetweenNext ==
  ASSUME NEW T, NEW s \in Seq(T), NEW x \in T, NEW mark
  PROVE  Between(Append(s, x), mark, Len(Append(s, x)) + 1)
           = IF x = mark THEN <<>> ELSE Append(Between(s, mark, Len(s) + 1), x)
<1> DEFINE r == Append(s, x)
           R == {j \in 1..(Len(r) + 1 - 1) : r[j] = mark}
           Q == {j \in 1..(Len(s) + 1 - 1) : s[j] = mark}
           lastR == LastMark(r, mark, Len(r) + 1)
           lastS == LastMark(s, mark, Len(s) + 1)
<1> PICK n \in Nat : n = Len(s)
  OBVIOUS
<1>1. r \in Seq(T) /\ Len(r) = n + 1 /\ (\A j \in 1..n : r[j] = s[j]) /\ r[n + 1] = x
  OBVIOUS
<1>2. Len(r) + 1 \in 1..(Len(r) + 1) /\ n + 1 \in 1..(Len(s) + 1) /\ Len(r) + 1 - 1 = n + 1
      /\ Len(s) + 1 - 1 = n
  BY <1>1
<1> DEFINE b == Between(r, mark, Len(r) + 1)
           a == Between(s, mark, Len(s) + 1)
<1>0. lastR = LastOf(R) /\ lastS = LastOf(Q)
  BY DEF LastMark, LastOf
<1>3. /\ b \in Seq(T) /\ Len(b) = n + 1 - lastR /\ Stretch(b, r, lastR)
      /\ lastR \in 0..(n + 1)
  <2> PICK m \in Nat : m = n + 1
    OBVIOUS
  <2> PICK i : i = m + 1
    OBVIOUS
  <2>1. r \in Seq(T) /\ m = Len(r) /\ i = m + 1 /\ i = Len(r) + 1
    BY <1>1
  <2> HIDE DEF r
  <2>2. /\ LastMark(r, mark, i) \in 0..m
        /\ Between(r, mark, i) \in Seq(T)
        /\ Len(Between(r, mark, i)) = m - LastMark(r, mark, i)
        /\ Stretch(Between(r, mark, i), r, LastMark(r, mark, i))
    BY ONLY <2>1, m \in Nat, BetweenEnd
  <2> QED BY ONLY <2>1, <2>2, m = n + 1
<1>4. /\ a \in Seq(T) /\ Len(a) = n - lastS /\ Stretch(a, s, lastS)
      /\ lastS \in 0..n
  BY ONLY s \in Seq(T), n \in Nat, n = Len(s), BetweenEnd
<1>5. R \in SUBSET (1..(n + 1)) /\ Q \in SUBSET (1..n)
  BY <1>2
<1>6. CASE x = mark
  <2>1. n + 1 \in R /\ \A y \in R : y <= n + 1
    BY <1>1, <1>2, <1>6
  <2>2. lastR = n + 1
    <3> HIDE DEF R
    <3>1. LastOf(R) = n + 1
      BY <1>5, <2>1, LastOfIs
    <3> QED BY <1>0, <3>1
  <2>3. Len(b) = 0
    <3> HIDE DEF b, lastR
    <3> QED BY <1>3, <2>2
  <2> HIDE DEF b
  <2>4. b = <<>>
    BY <1>3, <2>3, EmptySeq
  <2> QED BY <1>6, <2>4 DEF b, r
<1>7. CASE x # mark
  <2>1. R = Q
    <3> HIDE DEF r
    <3>1. n + 1 \notin R
      BY <1>1, <1>7
    <3>2. \A j \in 1..(n + 1) : j \in 1..n \/ j = n + 1
      OBVIOUS
    <3>3. 1..n \subseteq 1..(n + 1)
      OBVIOUS
    <3> QED BY <1>1, <1>2, <3>1, <3>2, <3>3
  <2> PICK c \in 0..n : c = lastS
    BY <1>4
  <2>0. lastR = c
    <3> HIDE DEF R, Q
    <3> QED BY <1>0, <2>1
  <2>2. Len(b) = n - c + 1 /\ Len(a) = n - c /\ n - c \in Nat
    <3> HIDE DEF a, b, lastR, lastS
    <3> QED BY <1>3, <1>4, <2>0
  <2>3. /\ \A k \in 1..(n - c) : a[k] = s[c + k] /\ b[k] = r[c + k]
        /\ b[n - c + 1] = r[c + (n - c + 1)]
    <3> HIDE DEF a, b, r, lastR, lastS
    <3> QED BY <1>3, <1>4, <2>0, <2>2 DEF Stretch
  <2>4. \A k \in 1..(n - c) : c + k \in 1..n
    OBVIOUS
  <2>5. c + (n - c + 1) = n + 1
    OBVIOUS
  <2> HIDE DEF r, R, Q
  <2>6. (\A k \in 1..(n - c) : b[k] = a[k]) /\ b[n - c + 1] = x
    BY <1>1, <2>3, <2>4, <2>5
  <2> HIDE DEF a, b
  <2>7. PICK m \in Nat : m = n - c
    BY <2>2
  <2>8. a \in Seq(T) /\ b \in Seq(T) /\ Len(a) = m /\ Len(b) = m + 1
        /\ (\A k \in 1..m : b[k] = a[k]) /\ b[m + 1] = x
    BY <1>3, <1>4, <2>2, <2>6, <2>7
  <2>9. b = Append(a, x)
    BY ONLY <2>8, m \in Nat, x \in T
  <2> QED BY <1>7, <2>9 DEF a, b, r
<1> QED BY <1>6, <1>7

LEMMA BetweenNothing ==
  ASSUME NEW mark
  PROVE  Between(<<>>, mark, 1) = <<>>
<1> PICK e : e = <<>>
  OBVIOUS
<1> PICK n \in Nat : n = 0
  OBVIOUS
<1> PICK i : i = 1
  OBVIOUS
<1>1. e \in Seq({mark}) /\ n = Len(e) /\ i = n + 1
  OBVIOUS
<1>2. Between(e, mark, i) \in Seq({mark})
  BY ONLY <1>1, n \in Nat, BetweenEnd
<1>3. LastMark(e, mark, i) \in 0..n /\ Len(Between(e, mark, i)) = n - LastMark(e, mark, i)
  BY ONLY <1>1, n \in Nat, BetweenEnd
<1>4. Len(Between(e, mark, i)) = 0
  BY <1>3
<1>5. Between(e, mark, i) = <<>>
  BY ONLY <1>2, <1>4, EmptySeq
<1> QED BY <1>5

LEMMA ByteFacts == "LF" \in Byte /\ "D" # "E" /\ "CR" \in Byte
BY DEF Byte

LEMMA LineTypes ==
  ASSUME NEW l \in Bytes
  PROVE  /\ WithoutCR(l) \in Bytes
         /\ l # <<>> => Tail(l) \in Bytes /\ Len(Tail(l)) = Len(l) - 1 /\ Len(l) \in Nat /\ Len(l) >= 1
<1>1. l # <<>> => Tail(l) \in Bytes /\ Len(Tail(l)) = Len(l) - 1 /\ Len(l) \in Nat /\ Len(l) >= 1
  BY DEF Bytes
<1>2. CASE l # <<>>
  <2>1. Len(l) \in Nat /\ Len(l) >= 1
    BY <1>1, <1>2
  <2>2. SubSeq(l, 1, Len(l) - 1) \in Bytes
    BY <2>1 DEF Bytes
  <2> QED BY <1>1, <2>2 DEF WithoutCR, Front
<1>3. CASE l = <<>>
  BY <1>3 DEF WithoutCR
<1> QED BY <1>1, <1>2, <1>3

(* What stands after the last line feed. *)
Unfinished(text) == Between(text, "LF", Len(text) + 1)

LEMMA UnfinishedType ==
  ASSUME NEW text \in Bytes
  PROVE  Unfinished(text) \in Bytes /\ WithoutCR(Unfinished(text)) \in Bytes
<1>1. Len(text) + 1 \in 1..(Len(text) + 1) /\ text \in Seq(Byte)
  BY DEF Bytes
<1>2. Unfinished(text) \in Bytes
  BY <1>1, BetweenIs DEF Unfinished, Bytes
<1> QED BY <1>2, LineTypes

(* A flattened sequence of one part for each element: one element more. *)
Grows(s, t, n) == \A i \in 1..n : t[i] = s[i]

LEMMA FlattenOneMore ==
  ASSUME NEW T, NEW n \in Nat, NEW s, NEW t, s \in [1..n -> Seq(T)], t \in [1..(n + 1) -> Seq(T)],
         Grows(s, t, n)
  PROVE  /\ FlattenSeq(s) \in Seq(T) /\ FlattenSeq(t) \in Seq(T)
         /\ FlattenSeq(t) = FlattenSeq(s) \o t[n + 1]
         /\ t[n + 1] \in Seq(T)
<1>1. s \in Seq(Seq(T)) /\ Len(s) = n /\ t \in Seq(Seq(T)) /\ Len(t) = n + 1
  OBVIOUS
<1>2. \A i \in 1..n : s[i] = t[i]
  BY DEF Grows
<1>3. FlattenSeq(t) = FlattenSeq(s) \o t[n + 1]
  BY <1>1, <1>2, FlattenExtended
<1>4. t[n + 1] \in Seq(T)
  OBVIOUS
<1> QED BY <1>1, <1>3, <1>4, FlattenType

LEMMA LinesStep ==
  ASSUME NEW text \in Bytes, NEW b \in Byte
  PROVE  /\ LinesOf(text) \in Seq(Bytes) /\ LinesOf(Append(text, b)) \in Seq(Bytes)
         /\ LinesOf(Append(text, b)) =
              IF b = "LF" THEN Append(LinesOf(text), WithoutCR(Unfinished(text))) ELSE LinesOf(text)
<1> PICK n \in Nat : n = Len(text)
  BY DEF Bytes
<1> DEFINE r == Append(text, b)
           Of(u, i) == IF u[i] = "LF" THEN <<WithoutCR(Between(u, "LF", i))>> ELSE <<>>
           s == [i \in 1..n |-> Of(text, i)]
           t == [i \in 1..(n + 1) |-> Of(r, i)]
<1>1. text \in Seq(Byte) /\ r \in Seq(Byte) /\ r \in Bytes /\ Len(r) = n + 1
      /\ (\A i \in 1..n : r[i] = text[i]) /\ r[n + 1] = b
  BY DEF Bytes
<1>2. ASSUME NEW i \in 1..(n + 1)
      PROVE  Between(text, "LF", i) \in Bytes /\ Between(r, "LF", i) = Between(text, "LF", i)
  <2>1. i \in 1..(Len(text) + 1)
    OBVIOUS
  <2> QED BY <1>1, <2>1, BetweenIs, BetweenSame DEF Bytes
<1>3. \A l \in Bytes : <<l>> \in Seq(Bytes) /\ <<>> \in Seq(Bytes)
  OBVIOUS
<1>4. ASSUME NEW i \in 1..(n + 1)
      PROVE  <<WithoutCR(Between(text, "LF", i))>> \in Seq(Bytes) /\ <<>> \in Seq(Bytes)
  BY <1>2, <1>3, LineTypes
<1>5. ASSUME NEW i \in 1..n
      PROVE  i \in 1..(n + 1) /\ Of(text, i) \in Seq(Bytes)
  <2>1. i \in 1..(n + 1)
    OBVIOUS
  <2> QED BY <2>1, <1>4
<1>6. ASSUME NEW i \in 1..(n + 1)
      PROVE  Of(r, i) \in Seq(Bytes)
  <2> HIDE DEF r
  <2> QED BY <1>2, <1>4
<1>7. ASSUME NEW i \in 1..n
      PROVE  Of(r, i) = Of(text, i)
  <2>1. i \in 1..(n + 1) /\ r[i] = text[i]
    BY <1>1, <1>5
  <2> HIDE DEF r
  <2> QED BY <2>1, <1>2
<1>8. LinesOf(text) = FlattenSeq(s) /\ LinesOf(r) = FlattenSeq(t)
  <2> HIDE DEF r
  <2> QED BY <1>1 DEF LinesOf
<1>9. t[n + 1] = Of(r, n + 1)
  <2>1. n + 1 \in 1..(n + 1)
    OBVIOUS
  <2> HIDE DEF Of
  <2> QED BY <2>1
<1>10. s \in [1..n -> Seq(Bytes)] /\ t \in [1..(n + 1) -> Seq(Bytes)] /\ \A i \in 1..n : t[i] = s[i]
  <2>1. \A i \in 1..n : i \in 1..(n + 1)
    OBVIOUS
  <2> HIDE DEF Of, r
  <2> QED BY <1>5, <1>6, <1>7, <2>1
<1>11. /\ LinesOf(text) \in Seq(Bytes) /\ LinesOf(r) \in Seq(Bytes)
       /\ LinesOf(r) = LinesOf(text) \o Of(r, n + 1)
  <2> HIDE DEF s, t, r, Of
  <2>1. Grows(s, t, n)
    BY <1>10 DEF Grows
  <2>2. /\ FlattenSeq(s) \in Seq(Bytes) /\ FlattenSeq(t) \in Seq(Bytes)
        /\ FlattenSeq(t) = FlattenSeq(s) \o t[n + 1]
    <3>1. s \in [1..n -> Seq(Bytes)] /\ t \in [1..(n + 1) -> Seq(Bytes)]
      BY <1>10
    <3> QED BY ONLY n \in Nat, <3>1, <2>1, FlattenOneMore
  <2> QED BY <1>8, <1>9, <2>2
<1>12. Between(r, "LF", n + 1) = Unfinished(text)
  BY <1>2 DEF Unfinished
<1> DEFINE u == WithoutCR(Unfinished(text))
<1>13. u \in Bytes
  BY UnfinishedType
<1>14. Of(r, n + 1) = IF b = "LF" THEN <<u>> ELSE <<>>
  <2> HIDE DEF r
  <2> QED BY <1>1, <1>12
<1> HIDE DEF Of, r, u
<1>15. LinesOf(text) \o <<u>> = Append(LinesOf(text), u) /\ LinesOf(text) \o <<>> = LinesOf(text)
  BY ONLY <1>11, <1>13, AppendIsConcat, ConcatEmptySeq
<1>16. LinesOf(r) = IF b = "LF" THEN Append(LinesOf(text), u) ELSE LinesOf(text)
  BY <1>11, <1>14, <1>15
<1> QED BY <1>11, <1>16 DEF r, u

LEMMA NoLines == LinesOf(<<>>) = <<>>
<1> DEFINE Of(i) == IF <<>>[i] = "LF" THEN <<WithoutCR(Between(<<>>, "LF", i))>> ELSE <<>>
<1>1. [i \in 1..Len(<<>>) |-> Of(i)] = <<>>
  <2> HIDE DEF Of
  <2> QED OBVIOUS
<1> QED BY <1>1, FlattenEmpty DEF LinesOf

LEMMA LinesType ==
  ASSUME NEW text \in Bytes
  PROVE  LinesOf(text) \in Seq(Bytes)
<1>1. "LF" \in Byte
  BY ByteFacts
<1> QED BY <1>1, LinesStep

(* The lines of the event in progress. *)
InProgress(lines) == Group(lines, Len(lines) + 1)

LEMMA GroupType ==
  ASSUME NEW lines \in Seq(Bytes), NEW i \in 1..(Len(lines) + 1)
  PROVE  Group(lines, i) \in Seq(NotBlank)
BY BetweenIs DEF Group, NotBlank

LEMMA InProgressNext ==
  ASSUME NEW lines \in Seq(Bytes), NEW l \in Bytes
  PROVE  /\ InProgress(lines) \in Seq(NotBlank)
         /\ InProgress(Append(lines, l)) = IF l = <<>> THEN <<>> ELSE Append(InProgress(lines), l)
<1>1. Len(lines) + 1 \in 1..(Len(lines) + 1)
  OBVIOUS
<1> QED BY <1>1, GroupType, BetweenNext DEF InProgress, Group

(* One line more in the event in progress. *)
LEMMA ValuesStep ==
  ASSUME NEW group \in Seq(NotBlank), NEW l \in NotBlank
  PROVE  /\ ValuesIn(group) \in Seq(Bytes)
         /\ ValuesIn(Append(group, l)) =
              IF Head(l) = "D" THEN Append(ValuesIn(group), Tail(l)) ELSE ValuesIn(group)
<1> PICK n \in Nat : n = Len(group)
  OBVIOUS
<1> PICK r : r = Append(group, l)
  OBVIOUS
<1> DEFINE Of(g, i) == IF Head(g[i]) = "D" THEN <<Tail(g[i])>> ELSE <<>>
           s == [i \in 1..n |-> Of(group, i)]
           t == [i \in 1..(n + 1) |-> Of(r, i)]
<1>1. r \in Seq(NotBlank) /\ Len(r) = n + 1 /\ (\A i \in 1..n : r[i] = group[i]) /\ r[n + 1] = l
  OBVIOUS
<1>2. \A x \in NotBlank : <<Tail(x)>> \in Seq(Bytes) /\ Tail(x) \in Bytes
  <2> TAKE x \in NotBlank
  <2>1. Tail(x) \in Bytes
    BY LineTypes DEF NotBlank
  <2> HIDE DEF NotBlank
  <2> QED BY <2>1
<1>3. <<>> \in Seq(Bytes)
  OBVIOUS
<1>4. \A i \in 1..n : group[i] \in NotBlank
  OBVIOUS
<1>5. \A i \in 1..(n + 1) : r[i] \in NotBlank
  BY <1>1
<1>6. s \in [1..n -> Seq(Bytes)]
  BY <1>2, <1>3, <1>4
<1>7. t \in [1..(n + 1) -> Seq(Bytes)]
  BY <1>2, <1>3, <1>5
<1>8. Grows(s, t, n)
  <2>1. \A i \in 1..n : i \in 1..(n + 1)
    OBVIOUS
  <2> QED BY <2>1, <1>1 DEF Grows
<1>9. t[n + 1] = IF Head(l) = "D" THEN <<Tail(l)>> ELSE <<>>
  <2>1. n + 1 \in 1..(n + 1)
    OBVIOUS
  <2> QED BY <2>1, <1>1
<1>10. ValuesIn(group) = FlattenSeq(s) /\ ValuesIn(r) = FlattenSeq(t)
  BY <1>1 DEF ValuesIn
<1> HIDE DEF s, t, Of
<1>11. /\ FlattenSeq(s) \in Seq(Bytes) /\ FlattenSeq(t) \in Seq(Bytes)
       /\ FlattenSeq(t) = FlattenSeq(s) \o t[n + 1]
  BY ONLY <1>6, <1>7, <1>8, n \in Nat, FlattenOneMore
<1>12. Tail(l) \in Bytes
  BY <1>2
<1> PICK v : v = ValuesIn(group)
  OBVIOUS
<1>13. v \in Seq(Bytes) /\ ValuesIn(r) = v \o t[n + 1]
  BY <1>10, <1>11
<1>14. v \o <<Tail(l)>> = Append(v, Tail(l)) /\ v \o <<>> = v
  BY ONLY <1>13, <1>12, AppendIsConcat, ConcatEmptySeq
<1>15. ValuesIn(r) = IF Head(l) = "D" THEN Append(v, Tail(l)) ELSE v
  BY <1>9, <1>13, <1>14
<1> QED BY <1>13, <1>15

LEMMA NoValues == ValuesIn(<<>>) = <<>>
<1> DEFINE Of(i) == IF Head(<<>>[i]) = "D" THEN <<Tail(<<>>[i])>> ELSE <<>>
<1>1. [i \in 1..Len(<<>>) |-> Of(i)] = <<>>
  <2> HIDE DEF Of
  <2> QED OBVIOUS
<1> QED BY <1>1, FlattenEmpty DEF ValuesIn

(* The values that are not empty, and what the others leave out. *)
Full(values) == {i \in 1..Len(values) : values[i] # <<>>}

Lead(values, i) == IF i < Min(Full(values)) THEN <<>> ELSE <<"LF">> \o values[i]

Led(values) == FlattenSeq([i \in 1..Len(values) |-> Lead(values, i)])

LEMMA FullFirst ==
  ASSUME NEW values \in Seq(Bytes), Full(values) # {}
  PROVE  Min(Full(values)) \in Full(values) /\ \A y \in Full(values) : Min(Full(values)) <= y
<1> PICK F : F = Full(values)
  OBVIOUS
<1>1. F \in SUBSET Nat /\ F # {}
  BY DEF Full
<1>2. \E x \in F : \A y \in F : x <= y
  BY <1>1, LeastElement
<1>3. Min(F) \in F /\ \A y \in F : Min(F) <= y
  BY <1>2 DEF Min
<1> QED BY <1>3

LEMMA FirstIs ==
  ASSUME NEW values \in Seq(Bytes), NEW m \in Full(values), \A y \in Full(values) : m <= y
  PROVE  Min(Full(values)) = m
<1> PICK F : F = Full(values)
  OBVIOUS
<1>1. F \in SUBSET Nat /\ F # {}
  BY DEF Full
<1>2. Min(F) \in F /\ \A y \in F : Min(F) <= y
  BY <1>1, FullFirst
<1>3. Min(F) \in Nat /\ m \in Nat /\ Min(F) <= m /\ m <= Min(F)
  BY <1>1, <1>2
<1> QED BY <1>3

LEMMA LeadTypes ==
  ASSUME NEW values \in Seq(Bytes), NEW i \in 1..Len(values)
  PROVE  Lead(values, i) \in Bytes
<1>1. values[i] \in Seq(Byte) /\ <<"LF">> \in Seq(Byte) /\ <<>> \in Seq(Byte)
  BY ByteFacts DEF Bytes
<1>2. <<"LF">> \o values[i] \in Seq(Byte)
  BY ONLY <1>1
<1> QED BY <1>1, <1>2 DEF Lead, Bytes

(* Parts joined are no shorter than any of them, and nothing if they are. *)
Upto(s, m) == [j \in 1..m |-> s[j]]

LEMMA UptoGrows ==
  ASSUME NEW T, NEW n \in Nat, NEW s \in [1..n -> Seq(T)], NEW m \in 0..(n - 1)
  PROVE  /\ FlattenSeq(Upto(s, m)) \in Seq(T) /\ FlattenSeq(Upto(s, m + 1)) \in Seq(T)
         /\ FlattenSeq(Upto(s, m + 1)) = FlattenSeq(Upto(s, m)) \o s[m + 1]
         /\ s[m + 1] \in Seq(T)
<1> PICK u : u = Upto(s, m)
  OBVIOUS
<1> PICK t : t = Upto(s, m + 1)
  OBVIOUS
<1>1. m \in Nat /\ u \in [1..m -> Seq(T)] /\ t \in [1..(m + 1) -> Seq(T)] /\ Grows(u, t, m)
      /\ t[m + 1] = s[m + 1]
  <2>1. m \in Nat /\ \A i \in 1..(m + 1) : i \in 1..n
    OBVIOUS
  <2>2. \A i \in 1..m : i \in 1..(m + 1)
    OBVIOUS
  <2>3. m + 1 \in 1..(m + 1)
    OBVIOUS
  <2> QED BY <2>1, <2>2, <2>3 DEF Upto, Grows
<1>2. /\ FlattenSeq(u) \in Seq(T) /\ FlattenSeq(t) \in Seq(T)
      /\ FlattenSeq(t) = FlattenSeq(u) \o t[m + 1]
      /\ t[m + 1] \in Seq(T)
  BY ONLY <1>1, FlattenOneMore
<1> QED BY <1>1, <1>2

LEMMA UptoNone == ASSUME NEW s PROVE FlattenSeq(Upto(s, 0)) = <<>>
<1>1. Upto(s, 0) = <<>>
  BY DEF Upto
<1> QED BY <1>1, FlattenEmpty

LEMMA UptoAll ==
  ASSUME NEW T, NEW n \in Nat, NEW s \in [1..n -> Seq(T)]
  PROVE  Upto(s, n) = s
BY DEF Upto

LEMMA EmptyParts ==
  ASSUME NEW T, NEW n \in Nat, NEW s \in [1..n -> Seq(T)], \A i \in 1..n : s[i] = <<>>
  PROVE  FlattenSeq(s) = <<>>
<1> DEFINE Good == {m \in 0..n : FlattenSeq(Upto(s, m)) = <<>>}
<1>1. 0 \in Good
  BY UptoNone
<1>2. ASSUME NEW m \in 0..(n - 1), m \in Good
      PROVE  m + 1 \in Good
  <2>1. m + 1 \in 1..n /\ m + 1 \in 0..n
    OBVIOUS
  <2>2. FlattenSeq(Upto(s, m + 1)) = FlattenSeq(Upto(s, m)) \o s[m + 1]
    BY ONLY n \in Nat, m \in 0..(n - 1), s \in [1..n -> Seq(T)], UptoGrows
  <2>3. FlattenSeq(Upto(s, m)) = <<>> /\ s[m + 1] = <<>>
    BY <1>2, <2>1
  <2>4. <<>> \o <<>> = <<>>
    OBVIOUS
  <2> QED BY <2>1, <2>2, <2>3, <2>4
<1> HIDE DEF Good
<1>3. n \in Good
  <2>1. 0..n \subseteq Good
    BY <1>1, <1>2, BySteps
  <2> QED BY <2>1
<1> QED BY <1>3, UptoAll DEF Good

LEMMA PartsFit ==
  ASSUME NEW T, NEW n \in Nat, NEW s \in [1..n -> Seq(T)], NEW i \in 1..n
  PROVE  Len(FlattenSeq(s)) >= Len(s[i])
<1> DEFINE Good == {m \in 0..n : i <= m => Len(FlattenSeq(Upto(s, m))) >= Len(s[i])}
<1>1. 0 \in Good
  OBVIOUS
<1>2. ASSUME NEW m \in 0..(n - 1), m \in Good
      PROVE  m + 1 \in Good
  <2>1. m + 1 \in 0..n
    OBVIOUS
  <2> PICK u \in Seq(T) : u = FlattenSeq(Upto(s, m))
    BY UptoGrows
  <2> PICK w \in Seq(T) : w = s[m + 1]
    BY UptoGrows
  <2>2. FlattenSeq(Upto(s, m + 1)) = u \o w
    BY UptoGrows
  <2>3. Len(u \o w) = Len(u) + Len(w) /\ Len(u) \in Nat /\ Len(w) \in Nat
    OBVIOUS
  <2>4. Len(s[i]) \in Nat
    OBVIOUS
  <2>5. CASE i <= m
    BY <1>2, <2>1, <2>2, <2>3, <2>4, <2>5
  <2>6. CASE i = m + 1
    BY <2>1, <2>2, <2>3, <2>6
  <2>7. CASE ~(i <= m + 1)
    BY <2>1, <2>7
  <2> QED BY <2>5, <2>6, <2>7
<1> HIDE DEF Good
<1>3. n \in Good
  <2>1. 0..n \subseteq Good
    BY <1>1, <1>2, BySteps
  <2> QED BY <2>1
<1> QED BY <1>3, UptoAll DEF Good

LEMMA LedTypes ==
  ASSUME NEW values \in Seq(Bytes)
  PROVE  /\ [i \in 1..Len(values) |-> Lead(values, i)] \in [1..Len(values) -> Seq(Byte)]
         /\ Led(values) \in Seq(Byte)
<1>1. [i \in 1..Len(values) |-> Lead(values, i)] \in [1..Len(values) -> Seq(Byte)]
  BY LeadTypes DEF Bytes
<1>2. [i \in 1..Len(values) |-> Lead(values, i)] \in Seq(Seq(Byte))
  BY <1>1
<1> QED BY <1>1, <1>2, FlattenType DEF Led

(* With a value that is not empty among them, what is led is a line feed and more. *)
LEMMA LedIsLong ==
  ASSUME NEW values \in Seq(Bytes), Full(values) # {}
  PROVE  Len(Led(values)) >= 2
<1> PICK m : m = Min(Full(values))
  OBVIOUS
<1>1. m \in Full(values) /\ m \in 1..Len(values) /\ values[m] # <<>> /\ ~(m < m)
  BY FullFirst DEF Full
<1> PICK n \in Nat : n = Len(values)
  OBVIOUS
<1> PICK s : s = [i \in 1..Len(values) |-> Lead(values, i)]
  OBVIOUS
<1>2. s \in [1..n -> Seq(Byte)] /\ Led(values) = FlattenSeq(s)
  BY LedTypes DEF Led
<1>3. s[m] = <<"LF">> \o values[m]
  BY <1>1 DEF Lead
<1>4. values[m] \in Seq(Byte) /\ <<"LF">> \in Seq(Byte)
  BY <1>1, ByteFacts DEF Bytes
<1> PICK v \in Seq(Byte) : v = values[m]
  BY <1>4
<1>5. Len(<<"LF">> \o v) = 1 + Len(v) /\ Len(v) \in Nat /\ Len(v) # 0
  <2>1. v # <<>>
    BY <1>1
  <2>2. Len(<<"LF">> \o v) = 1 + Len(v)
    BY ONLY <1>4, v \in Seq(Byte)
  <2> QED BY <2>1, <2>2, EmptySeq
<1>6. Len(FlattenSeq(s)) >= Len(s[m])
  <2>1. m \in 1..n
    BY <1>1
  <2> QED BY ONLY <1>2, <2>1, n \in Nat, PartsFit
<1>7. Len(Led(values)) \in Nat
  BY LedTypes
<1> QED BY <1>2, <1>3, <1>5, <1>6, <1>7

LEMMA DataType ==
  ASSUME NEW values \in Seq(Bytes)
  PROVE  /\ DataOf(values) \in Bytes
         /\ DataOf(values) = (IF Full(values) = {} THEN <<>> ELSE Tail(Led(values)))
         /\ DataOf(values) = <<>> <=> Full(values) = {}
<1>1. DataOf(values) = IF Full(values) = {} THEN <<>> ELSE Tail(Led(values))
  BY DEF DataOf, Full, Led, Lead
<1>2. Led(values) \in Seq(Byte)
  BY LedTypes
<1>3. CASE Full(values) = {}
  BY <1>1, <1>3 DEF Bytes
<1>4. CASE Full(values) # {}
  <2> PICK d : d = Led(values)
    OBVIOUS
  <2>1. Len(d) >= 2 /\ d \in Seq(Byte)
    BY <1>2, <1>4, LedIsLong
  <2>2. Tail(d) \in Seq(Byte) /\ Len(Tail(d)) = Len(d) - 1 /\ Len(d) \in Nat
    BY ONLY <2>1
  <2> PICK t \in Seq(Byte) : t = Tail(d)
    BY <2>2
  <2>3. Len(t) # 0 /\ Len(<<>>) = 0
    BY <2>1, <2>2
  <2>4. t # <<>>
    BY ONLY <2>3
  <2> QED BY <1>1, <1>4, <2>2, <2>4 DEF Bytes
<1> QED BY <1>1, <1>3, <1>4

LEMMA FullStep ==
  ASSUME NEW values \in Seq(Bytes), NEW v \in Bytes
  PROVE  Full(Append(values, v)) = Full(values) \cup (IF v = <<>> THEN {} ELSE {Len(values) + 1})
<1> PICK n \in Nat : n = Len(values)
  OBVIOUS
<1> PICK r : r = Append(values, v)
  OBVIOUS
<1>1. Len(r) = n + 1 /\ (\A i \in 1..n : r[i] = values[i]) /\ r[n + 1] = v
  OBVIOUS
<1>2. \A i \in 1..(n + 1) : i \in 1..n \/ i = n + 1
  OBVIOUS
<1>3. n + 1 \in 1..(n + 1) /\ 1..n \subseteq 1..(n + 1)
  OBVIOUS
<1> QED BY <1>1, <1>2, <1>3 DEF Full

LEMMA TailOfLonger ==
  ASSUME NEW T, NEW a \in Seq(T), NEW b \in Seq(T), a # <<>>
  PROVE  Tail(a \o b) = Tail(a) \o b
<1>1. Len(a) \in Nat /\ Len(a) >= 1 /\ Len(b) \in Nat
  OBVIOUS
<1>2. a \o b \in Seq(T) /\ Len(a \o b) = Len(a) + Len(b) /\ a \o b # <<>>
  OBVIOUS
<1>3. Tail(a) \in Seq(T) /\ Len(Tail(a)) = Len(a) - 1 /\ \A i \in 1..(Len(a) - 1) : Tail(a)[i] = a[i + 1]
  OBVIOUS
<1>4. /\ Tail(a \o b) \in Seq(T) /\ Len(Tail(a \o b)) = Len(a) + Len(b) - 1
      /\ \A i \in 1..(Len(a) + Len(b) - 1) : Tail(a \o b)[i] = (a \o b)[i + 1]
  <2> PICK c : c = a \o b
    OBVIOUS
  <2>1. c \in Seq(T) /\ c # <<>> /\ Len(c) = Len(a) + Len(b)
    BY <1>2
  <2>2. Tail(c) \in Seq(T) /\ Len(Tail(c)) = Len(c) - 1 /\ \A i \in 1..(Len(c) - 1) : Tail(c)[i] = c[i + 1]
    BY ONLY <2>1
  <2> QED BY <2>1, <2>2
<1>5. /\ Tail(a) \o b \in Seq(T) /\ Len(Tail(a) \o b) = Len(a) - 1 + Len(b)
      /\ \A i \in 1..(Len(a) - 1 + Len(b)) :
           (Tail(a) \o b)[i] = IF i <= Len(a) - 1 THEN Tail(a)[i] ELSE b[i - (Len(a) - 1)]
  <2> PICK c \in Seq(T) : c = Tail(a)
    BY <1>3
  <2> QED BY <1>1, <1>3
<1>6. \A i \in 1..(Len(a) + Len(b) - 1) : (a \o b)[i + 1] = IF i + 1 <= Len(a) THEN a[i + 1] ELSE b[i + 1 - Len(a)]
  BY <1>1
<1>7. \A i \in 1..(Len(a) + Len(b) - 1) : Tail(a \o b)[i] = (Tail(a) \o b)[i]
  <2> TAKE i \in 1..(Len(a) + Len(b) - 1)
  <2>1. i \in 1..(Len(a) - 1 + Len(b)) /\ (i + 1 <= Len(a) <=> i <= Len(a) - 1) /\ i + 1 - Len(a) = i - (Len(a) - 1)
        /\ (i <= Len(a) - 1 => i \in 1..(Len(a) - 1))
    BY <1>1
  <2>2. Tail(a \o b)[i] = IF i + 1 <= Len(a) THEN a[i + 1] ELSE b[i + 1 - Len(a)]
    BY <1>4, <1>6
  <2>3. (Tail(a) \o b)[i] = IF i <= Len(a) - 1 THEN Tail(a)[i] ELSE b[i - (Len(a) - 1)]
    BY <1>5, <2>1
  <2>4. i <= Len(a) - 1 => Tail(a)[i] = a[i + 1]
    BY <1>3, <2>1
  <2> QED BY <2>1, <2>2, <2>3, <2>4
<1> PICK x \in Seq(T) : x = Tail(a \o b)
  BY <1>4
<1> PICK y \in Seq(T) : y = Tail(a) \o b
  BY <1>5
<1>8. Len(x) = Len(y) /\ \A i \in 1..Len(x) : x[i] = y[i]
  BY <1>1, <1>4, <1>5, <1>7
<1>9. x = y
  BY ONLY <1>8, x \in Seq(T), y \in Seq(T), SeqEqual
<1> QED BY <1>9

LEMMA JoinedTypes ==
  ASSUME NEW d \in Bytes, NEW v \in Bytes
  PROVE  Joined(d, v) \in Bytes
<1>1. <<"LF">> \in Seq(Byte)
  BY ByteFacts
<1>2. d \o <<"LF">> \in Seq(Byte)
  BY <1>1 DEF Bytes
<1>3. (d \o <<"LF">>) \o v \in Seq(Byte)
  BY <1>2 DEF Bytes
<1> QED BY <1>3 DEF Joined, Bytes

(* One value more is joined to those before it. *)
LEMMA DataStep ==
  ASSUME NEW values \in Seq(Bytes), NEW v \in Bytes
  PROVE  DataOf(Append(values, v)) = Joined(DataOf(values), v)
<1> PICK n \in Nat : n = Len(values)
  OBVIOUS
<1>0. Append(values, v) \in Seq(Bytes)
  <2> HIDE DEF Bytes
  <2> QED OBVIOUS
<1> PICK r \in Seq(Bytes) : r = Append(values, v)
  BY <1>0
<1>1. Len(r) = n + 1 /\ (\A i \in 1..n : r[i] = values[i]) /\ r[n + 1] = v
  OBVIOUS
<1>2. Full(r) = Full(values) \cup (IF v = <<>> THEN {} ELSE {n + 1})
  BY FullStep
<1>3. Full(values) \in SUBSET (1..n)
  BY DEF Full
<1> PICK s : s = [i \in 1..Len(values) |-> Lead(values, i)]
  OBVIOUS
<1> PICK t : t = [i \in 1..Len(r) |-> Lead(r, i)]
  OBVIOUS
<1>4. s \in [1..n -> Seq(Byte)] /\ Led(values) = FlattenSeq(s)
  BY LedTypes DEF Led
<1>5. t \in [1..(n + 1) -> Seq(Byte)] /\ Led(r) = FlattenSeq(t)
  BY <1>1, LedTypes DEF Led
<1>6. v \in Seq(Byte) /\ <<"LF">> \in Seq(Byte) /\ <<>> \in Seq(Byte)
  BY ByteFacts DEF Bytes
<1>11. <<"LF">> \o v \in Seq(Byte)
  BY ONLY <1>6
<1> PICK w \in Seq(Byte) : w = <<"LF">> \o v
  BY <1>11
<1>7. n + 1 \in 1..(n + 1) /\ t[n + 1] = Lead(r, n + 1)
  BY <1>1
<1>8. CASE Full(values) = {} /\ v = <<>>
  <2>1. Full(r) = {}
    BY <1>2, <1>8
  <2>2. DataOf(r) = <<>> /\ DataOf(values) = <<>>
    BY <2>1, <1>8, DataType
  <2> QED BY <2>2, <1>8 DEF Joined
<1>9. CASE Full(values) = {} /\ v # <<>>
  <2>1. Full(r) = {n + 1}
    BY <1>2, <1>9
  <2>2. Min(Full(r)) = n + 1
    <3> PICK k \in Nat : k = n + 1
      OBVIOUS
    <3>1. k \in Full(r) /\ \A y \in Full(r) : k <= y
      BY <2>1
    <3>2. Min(Full(r)) = k
      BY ONLY <3>1, r \in Seq(Bytes), FirstIs
    <3> QED BY <3>2
  <2>3. \A i \in 1..(n + 1) : t[i] = IF i < n + 1 THEN <<>> ELSE <<"LF">> \o r[i]
    BY <1>1, <2>2 DEF Lead
  <2> PICK u : u = [i \in 1..n |-> <<>>]
    OBVIOUS
  <2>4. u \in [1..n -> Seq(Byte)] /\ \A i \in 1..n : u[i] = <<>>
    BY <1>6
  <2>5. Grows(u, t, n)
    <3>1. \A i \in 1..n : i \in 1..(n + 1) /\ i < n + 1
      OBVIOUS
    <3> QED BY <2>3, <2>4, <3>1 DEF Grows
  <2>6. FlattenSeq(u) = <<>>
    BY ONLY <2>4, n \in Nat, EmptyParts
  <2>7. /\ FlattenSeq(u) \in Seq(Byte) /\ FlattenSeq(t) \in Seq(Byte)
        /\ FlattenSeq(t) = FlattenSeq(u) \o t[n + 1]
        /\ t[n + 1] \in Seq(Byte)
    BY ONLY <1>5, <2>4, <2>5, n \in Nat, FlattenOneMore
  <2>8. t[n + 1] = w
    <3>1. ~(n + 1 < n + 1)
      OBVIOUS
    <3> QED BY <2>3, <1>7, <1>1, <3>1
  <2>9. Led(r) = w
    <3>1. <<>> \o w = w
      BY ONLY w \in Seq(Byte), ConcatEmptySeq
    <3> QED BY <1>5, <2>6, <2>7, <2>8, <3>1
  <2>10. Tail(w) = v
    <3>1. <<"LF">> # <<>> /\ Tail(<<"LF">>) = <<>>
      OBVIOUS
    <3>2. Tail(w) = Tail(<<"LF">>) \o v
      BY ONLY <1>6, <3>1, w = <<"LF">> \o v, TailOfLonger
    <3>3. <<>> \o v = v
      BY ONLY <1>6, ConcatEmptySeq
    <3> QED BY <3>1, <3>2, <3>3
  <2>11. DataOf(r) = Tail(Led(r)) /\ DataOf(values) = <<>>
    BY <2>1, <1>9, DataType
  <2> QED BY <2>9, <2>10, <2>11 DEF Joined
<1>10. CASE Full(values) # {}
  <2> PICK m : m = Min(Full(values))
    OBVIOUS
  <2>1. m \in Full(values) /\ (\A y \in Full(values) : m <= y) /\ m \in 1..n
    BY <1>3, <1>10, FullFirst
  <2>2. Min(Full(r)) = m
    <3>1. m \in Full(r) /\ \A y \in Full(r) : m <= y
      BY <1>2, <2>1
    <3> QED BY <3>1, FirstIs
  <2>3. \A i \in 1..(n + 1) : t[i] = IF i < m THEN <<>> ELSE <<"LF">> \o r[i]
    BY <1>1, <2>2 DEF Lead
  <2>4. \A i \in 1..n : s[i] = IF i < m THEN <<>> ELSE <<"LF">> \o values[i]
    BY DEF Lead
  <2>5. Grows(s, t, n)
    <3>1. ASSUME NEW i \in 1..n
          PROVE  t[i] = s[i]
      <4>1. i \in 1..(n + 1) /\ r[i] = values[i]
        BY <1>1
      <4>2. t[i] = IF i < m THEN <<>> ELSE <<"LF">> \o r[i]
        BY ONLY <2>3, <4>1
      <4>3. s[i] = IF i < m THEN <<>> ELSE <<"LF">> \o values[i]
        BY ONLY <2>4, i \in 1..n
      <4> QED BY ONLY <4>1, <4>2, <4>3
    <3> QED BY ONLY <3>1 DEF Grows
  <2>6. /\ FlattenSeq(s) \in Seq(Byte) /\ FlattenSeq(t) \in Seq(Byte)
        /\ FlattenSeq(t) = FlattenSeq(s) \o t[n + 1]
        /\ t[n + 1] \in Seq(Byte)
    BY ONLY <1>4, <1>5, <2>5, n \in Nat, FlattenOneMore
  <2>7. t[n + 1] = w
    <3>1. ~(n + 1 < m)
      BY <2>1
    <3> QED BY <2>3, <1>7, <1>1, <3>1
  <2> PICK d \in Seq(Byte) : d = Led(values)
    BY LedTypes
  <2>8. Led(r) = d \o w
    BY <1>4, <1>5, <2>6, <2>7
  <2>9. d # <<>>
    <3>1. Len(d) >= 2 /\ Len(<<>>) = 0
      BY <1>10, LedIsLong
    <3> QED BY ONLY <3>1
  <2>10. Tail(d \o w) = Tail(d) \o w
    BY ONLY <2>9, d \in Seq(Byte), w \in Seq(Byte), TailOfLonger
  <2>11. Full(r) # {}
    BY <1>2, <1>10
  <2>12. DataOf(r) = Tail(d) \o w /\ DataOf(values) = Tail(d) /\ DataOf(values) # <<>>
    BY <1>10, <2>8, <2>10, <2>11, DataType
  <2> PICK e \in Seq(Byte) : e = DataOf(values)
    BY DataType DEF Bytes
  <2>13. e \o (<<"LF">> \o v) = (e \o <<"LF">>) \o v
    <3> PICK lf \in Seq(Byte) : lf = <<"LF">>
      BY <1>6
    <3>1. (e \o lf) \o v = e \o (lf \o v)
      BY ONLY <1>6, e \in Seq(Byte), lf \in Seq(Byte), ConcatAssociative, SMTT(30)
    <3> QED BY ONLY <3>1, lf = <<"LF">>
  <2> QED BY <2>12, <2>13 DEF Joined
<1> QED BY <1>8, <1>9, <1>10
LEMMA DataNext ==
  ASSUME NEW group \in Seq(NotBlank), NEW l \in NotBlank
  PROVE  /\ Data(group) \in Bytes
         /\ Data(Append(group, l)) =
              IF Head(l) = "D" THEN Joined(Data(group), Tail(l)) ELSE Data(group)
<1> PICK v : v = ValuesIn(group)
  OBVIOUS
<1>1. v \in Seq(Bytes)
  BY ValuesStep
<1>2. ValuesIn(Append(group, l)) = IF Head(l) = "D" THEN Append(v, Tail(l)) ELSE v
  BY ValuesStep
<1>3. Tail(l) \in Bytes
  BY LineTypes DEF NotBlank
<1>4. DataOf(v) \in Bytes
  BY ONLY <1>1, DataType
<1>5. DataOf(Append(v, Tail(l))) = Joined(DataOf(v), Tail(l))
  BY ONLY <1>1, <1>3, DataStep
<1> QED BY <1>2, <1>4, <1>5 DEF Data

LEMMA NoData == Data(<<>>) = <<>>
<1> PICK e : e = <<>>
  OBVIOUS
<1>1. e \in Seq(Bytes) /\ Full(e) = {}
  BY DEF Full
<1>2. DataOf(e) = <<>>
  BY ONLY <1>1, DataType
<1> QED BY <1>2, NoValues DEF Data

(* The lines that give a name. *)
Named(group) == {i \in 1..Len(group) : Head(group[i]) = "E"}

LEMMA NamedLast ==
  ASSUME NEW n \in Nat, NEW N \in SUBSET (1..n), N # {}
  PROVE  Max(N) \in N /\ \A y \in N : y <= Max(N)
<1>1. N \in SUBSET (0..n)
  OBVIOUS
<1>2. \E x \in N : \A y \in N : y <= x
  BY <1>1, GreatestElement
<1>3. \E x \in N : \A y \in N : x >= y
  BY <1>2
<1>4. Max(N) \in N /\ \A y \in N : Max(N) >= y
  BY <1>3 DEF Max
<1> QED BY <1>4

LEMMA NameNext ==
  ASSUME NEW group \in Seq(NotBlank), NEW l \in NotBlank
  PROVE  /\ Name(group) \in Bytes
         /\ Name(Append(group, l)) = IF Head(l) = "E" THEN Tail(l) ELSE Name(group)
<1> PICK n \in Nat : n = Len(group)
  OBVIOUS
<1> PICK r : r = Append(group, l)
  OBVIOUS
<1>1. r \in Seq(NotBlank) /\ Len(r) = n + 1 /\ (\A i \in 1..n : r[i] = group[i]) /\ r[n + 1] = l
  OBVIOUS
<1> PICK N : N = Named(group)
  OBVIOUS
<1> PICK M : M = Named(r)
  OBVIOUS
<1>2. N \in SUBSET (1..n)
  BY DEF Named
<1>3. M = N \cup (IF Head(l) = "E" THEN {n + 1} ELSE {})
  <2>1. \A i \in 1..(n + 1) : i \in 1..n \/ i = n + 1
    OBVIOUS
  <2>2. n + 1 \in 1..(n + 1) /\ 1..n \subseteq 1..(n + 1)
    OBVIOUS
  <2> QED BY <1>1, <2>1, <2>2 DEF Named
<1>4. Name(group) = IF N = {} THEN <<>> ELSE Tail(group[Max(N)])
  BY DEF Name, Named
<1>5. Name(r) = IF M = {} THEN <<>> ELSE Tail(r[Max(M)])
  BY DEF Name, Named
<1>6. N # {} => Max(N) \in N /\ Max(N) \in 1..n
  BY <1>2, NamedLast
<1>7. Name(group) \in Bytes
  <2>1. CASE N = {}
    BY <1>4, <2>1 DEF Bytes
  <2>2. CASE N # {}
    <3>1. group[Max(N)] \in NotBlank
      BY <1>6, <2>2
    <3>2. Tail(group[Max(N)]) \in Bytes
      BY <3>1, LineTypes DEF NotBlank
    <3> QED BY <1>4, <2>2, <3>2
  <2> QED BY <2>1, <2>2
<1>8. CASE Head(l) = "E"
  <2>1. M \in SUBSET (1..(n + 1)) /\ n + 1 \in M /\ n + 1 \in Nat
    BY <1>2, <1>3, <1>8
  <2>2. Max(M) \in M /\ \A y \in M : y <= Max(M)
    BY ONLY <2>1, NamedLast
  <2>3. Max(M) = n + 1
    <3> PICK m : m = Max(M)
      OBVIOUS
    <3>1. m \in 1..(n + 1) /\ n + 1 <= m
      BY <2>1, <2>2
    <3> QED BY <3>1
  <2> QED BY <1>1, <1>5, <1>7, <1>8, <2>1, <2>3
<1>9. CASE Head(l) # "E"
  <2>1. M = N
    BY <1>3, <1>9
  <2>2. N # {} => r[Max(N)] = group[Max(N)]
    BY <1>1, <1>6
  <2> QED BY <1>4, <1>5, <1>7, <1>9, <2>1, <2>2
<1> QED BY <1>8, <1>9

LEMMA NoName == Name(<<>>) = <<>>
BY DEF Name

LEMMA GroupFacts ==
  ASSUME NEW group \in Seq(NotBlank)
  PROVE  Data(group) \in Bytes /\ Name(group) \in Bytes
<1> PICK b \in Byte : b = "D"
  BY DEF Byte
<1>2. <<b>> \in Seq(Byte) /\ <<b>> # <<>>
  OBVIOUS
<1>1. <<b>> \in NotBlank
  BY <1>2 DEF NotBlank, Bytes
<1> QED BY <1>1, DataNext, NameNext

(* The event of the lines before a blank one. *)
Made(group) == IF Data(group) = <<>> THEN <<>> ELSE <<[event |-> Name(group), data |-> Data(group)]>>

LEMMA MadeType ==
  ASSUME NEW group \in Seq(NotBlank)
  PROVE  Made(group) \in Seq(Event)
<1>1. [event |-> Name(group), data |-> Data(group)] \in Event
  BY GroupFacts DEF Event
<1> QED BY <1>1 DEF Made

LEMMA EventsStep ==
  ASSUME NEW lines \in Seq(Bytes), NEW l \in Bytes
  PROVE  /\ EventsIn(lines) \in Seq(Event) /\ EventsIn(Append(lines, l)) \in Seq(Event)
         /\ EventsIn(Append(lines, l)) =
              EventsIn(lines) \o (IF l = <<>> THEN Made(InProgress(lines)) ELSE <<>>)
<1> PICK n \in Nat : n = Len(lines)
  OBVIOUS
<1>0. Append(lines, l) \in Seq(Bytes)
  <2> HIDE DEF Bytes
  <2> QED OBVIOUS
<1> PICK r \in Seq(Bytes) : r = Append(lines, l)
  BY <1>0
<1>1. Len(r) = n + 1 /\ (\A i \in 1..n : r[i] = lines[i]) /\ r[n + 1] = l
  OBVIOUS
<1> DEFINE s == [i \in 1..n |-> EventAt(lines, i)]
           t == [i \in 1..(n + 1) |-> EventAt(r, i)]
<1>2. ASSUME NEW i \in 1..(n + 1)
      PROVE  Group(lines, i) \in Seq(NotBlank) /\ Group(r, i) = Group(lines, i)
  <2>1. i \in 1..(Len(lines) + 1)
    OBVIOUS
  <2>2. Between(r, <<>>, i) = Between(lines, <<>>, i)
    BY <2>1, BetweenSame
  <2> QED BY <2>1, <2>2, GroupType DEF Group
<1>3. ASSUME NEW i \in 1..(n + 1)
      PROVE  EventAt(r, i) = (IF r[i] = <<>> THEN Made(Group(lines, i)) ELSE <<>>)
             /\ EventAt(r, i) \in Seq(Event)
  <2>1. EventAt(r, i) = IF r[i] = <<>> THEN Made(Group(lines, i)) ELSE <<>>
    BY <1>2 DEF EventAt, Made
  <2>2. Made(Group(lines, i)) \in Seq(Event)
    BY <1>2, MadeType
  <2>3. <<>> \in Seq(Event)
    OBVIOUS
  <2> QED BY <2>1, <2>2, <2>3
<1>4. ASSUME NEW i \in 1..n
      PROVE  EventAt(r, i) = EventAt(lines, i) /\ i \in 1..(n + 1)
  <2>1. i \in 1..(n + 1)
    OBVIOUS
  <2>2. Group(r, i) = Group(lines, i) /\ r[i] = lines[i]
    BY <1>1, <1>2, <2>1
  <2> QED BY <2>1, <2>2 DEF EventAt
<1>5. s \in [1..n -> Seq(Event)] /\ t \in [1..(n + 1) -> Seq(Event)]
  <2>1. \A i \in 1..n : EventAt(lines, i) \in Seq(Event)
    BY <1>3, <1>4
  <2>2. \A i \in 1..(n + 1) : EventAt(r, i) \in Seq(Event)
    BY <1>3
  <2> QED BY <2>1, <2>2
<1>6. Grows(s, t, n)
  BY <1>4 DEF Grows
<1>7. t[n + 1] = IF l = <<>> THEN Made(InProgress(lines)) ELSE <<>>
  <2>1. n + 1 \in 1..(n + 1)
    OBVIOUS
  <2>2. t[n + 1] = EventAt(r, n + 1)
    BY <2>1
  <2> QED BY <1>1, <1>3, <2>1, <2>2 DEF InProgress
<1>8. EventsIn(lines) = FlattenSeq(s) /\ EventsIn(r) = FlattenSeq(t)
  BY <1>1 DEF EventsIn
<1> HIDE DEF s, t
<1>9. /\ FlattenSeq(s) \in Seq(Event) /\ FlattenSeq(t) \in Seq(Event)
      /\ FlattenSeq(t) = FlattenSeq(s) \o t[n + 1]
      /\ t[n + 1] \in Seq(Event)
  <2> PICK T : T = Event
    OBVIOUS
  <2>1. s \in [1..n -> Seq(T)] /\ t \in [1..(n + 1) -> Seq(T)]
    BY <1>5
  <2>2. /\ FlattenSeq(s) \in Seq(T) /\ FlattenSeq(t) \in Seq(T)
        /\ FlattenSeq(t) = FlattenSeq(s) \o t[n + 1]
        /\ t[n + 1] \in Seq(T)
    BY ONLY <2>1, <1>6, n \in Nat, FlattenOneMore
  <2> QED BY <2>2
<1>10. EventsIn(lines) \in Seq(Event) /\ EventsIn(r) \in Seq(Event)
  BY <1>8, <1>9
<1>11. EventsIn(r) = EventsIn(lines) \o t[n + 1]
  BY <1>8, <1>9
<1> QED BY <1>7, <1>10, <1>11

LEMMA NoEvents == EventsIn(<<>>) = <<>>
<1> DEFINE Of(i) == EventAt(<<>>, i)
<1>1. [i \in 1..Len(<<>>) |-> Of(i)] = <<>>
  <2> HIDE DEF Of
  <2> QED OBVIOUS
<1> QED BY <1>1, FlattenEmpty DEF EventsIn
(* Of the caps, what one byte more can break: the line it is on, or the event its line ends. *)
LEMMA LineTooLongNext ==
  ASSUME NEW text \in Bytes, NEW b \in Byte
  PROVE  LineTooLong(Append(text, b))
           <=> LineTooLong(text) \/ (b # "LF" /\ Len(Unfinished(text)) >= MaxLineBytes)
<1> PICK n \in Nat : n = Len(text)
  BY DEF Bytes
<1>0. Append(text, b) \in Seq(Byte) /\ text \in Seq(Byte)
  BY DEF Bytes
<1> PICK r \in Seq(Byte) : r = Append(text, b)
  BY <1>0
<1>1. Len(r) = n + 1 /\ (\A i \in 1..n : r[i] = text[i]) /\ r[n + 1] = b
  BY <1>0
<1> PICK Q : Q = {j \in 1..n : text[j] = "LF"}
  OBVIOUS
<1>2. Q \in SUBSET (1..n)
  OBVIOUS
<1> PICK c : c = LastOf(Q)
  OBVIOUS
<1>3. c \in 0..n /\ c \in {0} \cup Q /\ \A x \in Q : x <= c
  BY ONLY <1>2, n \in Nat, c = LastOf(Q), LastOfIs
<1>4. Len(Unfinished(text)) = n - c
  <2> PICK i : i = n + 1
    OBVIOUS
  <2>1. i = n + 1 /\ n = Len(text) /\ i - 1 = n
    OBVIOUS
  <2>2. Len(Between(text, "LF", i)) = n - LastMark(text, "LF", i)
    BY ONLY <1>0, <2>1, n \in Nat, BetweenEnd
  <2>3. LastMark(text, "LF", i) = c
    BY <2>1 DEF LastMark, LastOf
  <2> QED BY <2>1, <2>2, <2>3 DEF Unfinished
<1>5. MaxLineBytes \in Nat
  BY GuestAssumption
<1>6. ASSUME LineTooLong(text)
      PROVE  LineTooLong(r)
  <2>1. PICK i \in 1..n, j \in 1..n : j - i >= MaxLineBytes /\ \A k \in i..j : text[k] # "LF"
    BY <1>6 DEF LineTooLong
  <2>2. i \in 1..(n + 1) /\ j \in 1..(n + 1)
    OBVIOUS
  <2>3. \A k \in i..j : k \in 1..n
    OBVIOUS
  <2>4. \A k \in i..j : r[k] # "LF"
    BY <1>1, <2>1, <2>3
  <2> QED BY <1>1, <2>1, <2>2, <2>4 DEF LineTooLong
<1>7. ASSUME b # "LF", n - c >= MaxLineBytes
      PROVE  LineTooLong(r)
  <2>1. c + 1 \in 1..(n + 1) /\ n + 1 \in 1..(n + 1) /\ (n + 1) - (c + 1) >= MaxLineBytes
    BY <1>3, <1>5, <1>7
  <2>2. \A k \in (c + 1)..(n + 1) : r[k] # "LF"
    <3> TAKE k \in (c + 1)..(n + 1)
    <3>1. CASE k = n + 1
      BY <1>1, <1>7, <3>1
    <3>2. CASE k # n + 1
      <4>1. k \in 1..n /\ ~(k <= c)
        BY <1>3, <3>2
      <4>2. k \notin Q
        BY <1>3, <4>1
      <4> QED BY <1>1, <4>1, <4>2
    <3> QED BY <3>1, <3>2
  <2> PICK i : i = c + 1
    OBVIOUS
  <2> PICK j : j = n + 1
    OBVIOUS
  <2>3. i \in 1..Len(r) /\ j \in 1..Len(r) /\ j - i >= MaxLineBytes /\ \A k \in i..j : r[k] # "LF"
    BY <1>1, <2>1, <2>2
  <2> QED BY <2>3 DEF LineTooLong
<1>8. ASSUME LineTooLong(r)
      PROVE  LineTooLong(text) \/ (b # "LF" /\ n - c >= MaxLineBytes)
  <2>1. PICK i \in 1..(n + 1), j \in 1..(n + 1) : j - i >= MaxLineBytes /\ \A k \in i..j : r[k] # "LF"
    BY <1>1, <1>8 DEF LineTooLong
  <2>2. i <= j
    BY <1>5, <2>1
  <2>3. CASE j <= n
    <3>1. i \in 1..n /\ j \in 1..n /\ \A k \in i..j : k \in 1..n
      BY <2>2, <2>3
    <3>2. \A k \in i..j : text[k] # "LF"
      BY <1>1, <2>1, <3>1
    <3> QED BY <2>1, <3>1, <3>2 DEF LineTooLong
  <2>4. CASE j = n + 1
    <3>1. j \in i..j
      BY <2>2
    <3>2. b # "LF"
      BY <1>1, <2>1, <2>4, <3>1
    <3>3. c < i
      <4>1. SUFFICES ASSUME ~(c < i) PROVE FALSE
        BY <1>3
      <4>2. c \in i..j /\ c \in Q /\ c \in 1..n
        BY <1>2, <1>3, <2>4, <4>1
      <4> QED BY <1>1, <2>1, <4>2
    <3>4. n - c >= MaxLineBytes
      BY <1>3, <1>5, <2>1, <2>4, <3>3
    <3> QED BY <3>2, <3>4
  <2> QED BY <2>3, <2>4
<1> QED BY <1>4, <1>6, <1>7, <1>8

(* The line that ends the text takes its event past the cap. *)
Overflows(lines, l) ==
  l # <<>> /\ Head(l) = "D" /\ Len(Data(InProgress(lines))) + Len(l) > MaxEventBytes

LEMMA LastOverflowsIs ==
  ASSUME NEW lines \in Seq(Bytes), NEW l \in Bytes
  PROVE  LastOverflows(Append(lines, l)) <=> Overflows(lines, l)
<1> PICK g \in Seq(NotBlank) : g = InProgress(lines)
  BY InProgressNext
<1> PICK h : h = InProgress(Append(lines, l))
  OBVIOUS
<1>1. h = IF l = <<>> THEN <<>> ELSE Append(g, l)
  BY InProgressNext
<1>2. LastOverflows(Append(lines, l)) <=>
        /\ h # <<>> /\ Head(Last(h)) = "D"
        /\ Len(Data(Front(h))) + Len(Last(h)) > MaxEventBytes
  BY DEF LastOverflows, InProgress
<1>3. CASE l = <<>>
  BY <1>1, <1>2, <1>3 DEF Overflows
<1>4. CASE l # <<>>
  <2>1. l \in NotBlank
    BY <1>4 DEF NotBlank
  <2>2. h \in Seq(NotBlank) /\ h # <<>> /\ Len(h) = Len(g) + 1 /\ h[Len(g) + 1] = l
        /\ \A i \in 1..Len(g) : h[i] = g[i]
    BY <1>1, <1>4, <2>1
  <2>3. Last(h) = l
    BY <2>2 DEF Last
  <2>4. Front(h) = g
    <3> PICK k \in Nat : k = Len(g)
      OBVIOUS
    <3>0. k + 1 - 1 = k
      OBVIOUS
    <3>1. Front(h) = SubSeq(h, 1, k)
      BY <2>2, <3>0 DEF Front
    <3>2. k \in 0..Len(h)
      BY <2>2
    <3>3. SubSeq(h, 1, k) \in Seq(NotBlank) /\ Len(SubSeq(h, 1, k)) = k
          /\ \A i \in 1..k : SubSeq(h, 1, k)[i] = h[i]
      BY ONLY <2>2, <3>2, CutIsPrefix
    <3> PICK f \in Seq(NotBlank) : f = SubSeq(h, 1, k)
      BY <3>3
    <3>4. Len(f) = Len(g) /\ \A i \in 1..Len(f) : f[i] = g[i]
      BY <2>2, <3>3
    <3>5. f = g
      BY ONLY <3>4, f \in Seq(NotBlank), g \in Seq(NotBlank), SeqEqual
    <3> QED BY <3>1, <3>5
  <2> QED BY <1>2, <1>4, <2>2, <2>3, <2>4 DEF Overflows
<1> QED BY <1>3, <1>4

LEMMA CapNext ==
  ASSUME NEW text \in Bytes, NEW b \in Byte
  PROVE  PastACap(Append(text, b)) <=>
           \/ PastACap(text)
           \/ b # "LF" /\ Len(Unfinished(text)) >= MaxLineBytes
           \/ b = "LF" /\ Overflows(LinesOf(text), WithoutCR(Unfinished(text)))
<1> PICK n \in Nat : n = Len(text)
  BY DEF Bytes
<1>0. Append(text, b) \in Seq(Byte) /\ text \in Seq(Byte)
  BY DEF Bytes
<1> PICK r \in Seq(Byte) : r = Append(text, b)
  BY <1>0
<1>1. Len(r) = n + 1 /\ (\A i \in 1..n : r[i] = text[i]) /\ r[n + 1] = b
  BY <1>0
<1> DEFINE Cut(t, i) == LastOverflows(LinesOf(SubSeq(t, 1, i)))
<1>2. ASSUME NEW i \in 1..n
      PROVE  Cut(r, i) <=> Cut(text, i)
  <2>1. SubSeq(r, 1, i) = SubSeq(text, 1, i)
    <3>1. i \in 0..Len(r) /\ i \in 0..Len(text) /\ \A j \in 1..i : j \in 1..n
      BY <1>1
    <3> PICK x : x = SubSeq(r, 1, i)
      OBVIOUS
    <3> PICK y : y = SubSeq(text, 1, i)
      OBVIOUS
    <3>2. x \in Seq(Byte) /\ Len(x) = i /\ \A j \in 1..i : x[j] = r[j]
      BY ONLY <3>1, r \in Seq(Byte), x = SubSeq(r, 1, i), CutIsPrefix
    <3>3. y \in Seq(Byte) /\ Len(y) = i /\ \A j \in 1..i : y[j] = text[j]
      BY ONLY <3>1, <1>0, y = SubSeq(text, 1, i), CutIsPrefix
    <3>4. Len(x) = Len(y) /\ \A j \in 1..Len(x) : x[j] = y[j]
      BY <1>1, <3>1, <3>2, <3>3
    <3>5. x = y
      BY ONLY <3>2, <3>3, <3>4, SeqEqual
    <3> QED BY <3>5
  <2> QED BY <2>1
<1>3. SubSeq(r, 1, n + 1) = r /\ SubSeq(text, 1, n) = text
  <2>1. r = [i \in 1..(n + 1) |-> r[i]]
    <3>1. r = [i \in 1..Len(r) |-> r[i]]
      BY ONLY r \in Seq(Byte)
    <3> QED BY ONLY <3>1, <1>1
  <2>2. text = [i \in 1..n |-> text[i]]
    BY <1>0
  <2>3. SubSeq(r, 1, n + 1) = [i \in 1..(n + 1) |-> r[i]]
    BY <1>1
  <2>4. SubSeq(text, 1, n) = [i \in 1..n |-> text[i]]
    BY <1>0
  <2> QED BY <2>1, <2>2, <2>3, <2>4
<1>4. (\E i \in 1..Len(r) : Cut(r, i)) <=> (\E i \in 1..n : Cut(text, i)) \/ LastOverflows(LinesOf(r))
  <2>1. \A i \in 1..(n + 1) : i \in 1..n \/ i = n + 1
    OBVIOUS
  <2>2. 1..n \subseteq 1..(n + 1) /\ n + 1 \in 1..(n + 1)
    OBVIOUS
  <2>3. Cut(r, n + 1) <=> LastOverflows(LinesOf(r))
    BY <1>3
  <2> HIDE DEF Cut
  <2> QED BY <1>1, <1>2, <2>1, <2>2, <2>3
<1>5. PastACap(r) <=> LineTooLong(r) \/ (\E i \in 1..n : Cut(text, i)) \/ LastOverflows(LinesOf(r))
  BY <1>4 DEF PastACap
<1>6. PastACap(text) <=> LineTooLong(text) \/ \E i \in 1..n : Cut(text, i)
  BY DEF PastACap
<1>7. LineTooLong(r) <=> LineTooLong(text) \/ (b # "LF" /\ Len(Unfinished(text)) >= MaxLineBytes)
  BY LineTooLongNext
<1>8. CASE b = "LF"
  <2> PICK l : l = WithoutCR(Unfinished(text))
    OBVIOUS
  <2>1. LinesOf(text) \in Seq(Bytes) /\ LinesOf(r) = Append(LinesOf(text), l) /\ l \in Bytes
    BY <1>8, LinesStep, UnfinishedType
  <2>2. LastOverflows(LinesOf(r)) <=> Overflows(LinesOf(text), l)
    BY <2>1, LastOverflowsIs
  <2> HIDE DEF Cut
  <2> QED BY <1>5, <1>6, <1>7, <1>8, <2>2
<1>9. CASE b # "LF"
  <2>1. LinesOf(r) = LinesOf(text)
    BY <1>9, LinesStep
  <2>2. LastOverflows(LinesOf(text)) => \E i \in 1..n : Cut(text, i)
    <3>1. CASE n = 0
      <4>1. text = <<>>
        BY <1>0, <3>1, EmptySeq
      <4>2. LinesOf(text) = <<>>
        BY <4>1, NoLines
      <4>3. ~LastOverflows(LinesOf(text))
        <5> PICK e : e = LinesOf(text)
          OBVIOUS
        <5>1. e = <<>> /\ Len(e) + 1 = 1
          BY <4>2
        <5>2. Group(e, Len(e) + 1) = <<>>
          BY <5>1, BetweenNothing DEF Group
        <5> QED BY <5>2 DEF LastOverflows
      <4> QED BY <4>3
    <3>2. CASE n # 0
      <4>1. n \in 1..n
        BY <3>2
      <4> QED BY <1>3, <4>1
    <3> QED BY <3>1, <3>2
  <2> HIDE DEF Cut
  <2> QED BY <1>5, <1>6, <1>7, <1>9, <2>1, <2>2
<1> QED BY <1>8, <1>9
LEMMA LongerHasPrefix ==
  ASSUME NEW T, NEW s \in Seq(T), NEW t \in Seq(T)
  PROVE  IsPrefix(s, s \o t)
<1> PICK n \in Nat : n = Len(s)
  OBVIOUS
<1>1. n \in 0..Len(s) /\ Len(s \o t) = Len(s) + Len(t) /\ Len(t) \in Nat
  OBVIOUS
<1>2. SubSeq(s \o t, 1, n) = SubSeq(s, 1, n)
  BY <1>1, ConcatPrefix
<1>3. Len(s) <= Len(s \o t)
  BY <1>1
<1> QED BY <1>2, <1>3 DEF IsPrefix

(* What a byte more makes an event of. *)
Closed(text, b) ==
  IF b = "LF" /\ WithoutCR(Unfinished(text)) = <<>> THEN Made(InProgress(LinesOf(text))) ELSE <<>>

LEMMA EventsNext ==
  ASSUME NEW text \in Bytes, NEW b \in Byte
  PROVE  /\ EventsOf(text) \in Seq(Event) /\ Closed(text, b) \in Seq(Event)
         /\ EventsOf(Append(text, b)) = EventsOf(text) \o Closed(text, b)
         /\ IsPrefix(EventsOf(text), EventsOf(Append(text, b)))
<1> PICK lines \in Seq(Bytes) : lines = LinesOf(text)
  BY LinesStep
<1> PICK l \in Bytes : l = WithoutCR(Unfinished(text))
  BY UnfinishedType
<1> PICK e : e = EventsOf(text)
  OBVIOUS
<1>1. e \in Seq(Event)
  BY EventsStep DEF EventsOf
<1>2. Made(InProgress(lines)) \in Seq(Event)
  BY InProgressNext, MadeType
<1>3. Closed(text, b) \in Seq(Event)
  BY <1>2 DEF Closed
<1>4. LinesOf(Append(text, b)) = IF b = "LF" THEN Append(lines, l) ELSE lines
  BY LinesStep
<1>5. EventsIn(Append(lines, l)) = e \o (IF l = <<>> THEN Made(InProgress(lines)) ELSE <<>>)
  BY EventsStep DEF EventsOf
<1>6. e \o <<>> = e
  BY ONLY <1>1, ConcatEmptySeq
<1>7. EventsOf(Append(text, b)) = e \o Closed(text, b)
  <2>1. CASE b = "LF"
    BY <2>1, <1>4, <1>5 DEF EventsOf, Closed
  <2>2. CASE b # "LF"
    <3>1. Closed(text, b) = <<>>
      BY <2>2 DEF Closed
    <3>2. EventsOf(Append(text, b)) = e
      BY <2>2, <1>4 DEF EventsOf
    <3> QED BY <3>1, <3>2, <1>6
  <2> QED BY <2>1, <2>2
<1>8. IsPrefix(e, EventsOf(Append(text, b)))
  BY <1>1, <1>3, <1>7, LongerHasPrefix
<1> QED BY <1>1, <1>3, <1>7, <1>8

-----------------------------------------------------------------------------
(* What the parser makes of a byte. *)
LEMMA TakeLineIs ==
  ASSUME NEW p, NEW l
  PROVE  /\ l = <<>> => TakeLine(p, l) = Dispatched(p)
         /\ l # <<>> /\ Head(l) = "E" => TakeLine(p, l) = [p EXCEPT !.event = Tail(l)]
         /\ l # <<>> /\ Head(l) = "D" =>
              TakeLine(p, l) = IF Len(p.data) + Len(Tail(l)) + 1 > MaxEventBytes
                               THEN [p EXCEPT !.spent = TRUE]
                               ELSE [p EXCEPT !.data = Joined(@, Tail(l))]
         /\ l # <<>> /\ Head(l) \notin {"E", "D"} => TakeLine(p, l) = p
<1>0. "E" # "D"
  OBVIOUS
<1>1. ASSUME l = <<>> PROVE TakeLine(p, l) = Dispatched(p)
  BY <1>1, Zenon DEF TakeLine
<1>2. ASSUME l # <<>>, Head(l) = "E" PROVE TakeLine(p, l) = [p EXCEPT !.event = Tail(l)]
  <2>1. Head(l) # "D"
    BY <1>0, <1>2
  <2> QED BY <1>2, <2>1, Zenon DEF TakeLine
<1>3. ASSUME l # <<>>, Head(l) = "D"
      PROVE  TakeLine(p, l) = IF Len(p.data) + Len(Tail(l)) + 1 > MaxEventBytes
                               THEN [p EXCEPT !.spent = TRUE]
                               ELSE [p EXCEPT !.data = Joined(@, Tail(l))]
  <2>1. Head(l) # "E"
    BY <1>0, <1>3
  <2> QED BY <1>3, <2>1, Zenon DEF TakeLine
<1>4. ASSUME l # <<>>, Head(l) \notin {"E", "D"} PROVE TakeLine(p, l) = p
  <2>1. Head(l) # "E" /\ Head(l) # "D"
    BY <1>4
  <2> QED BY <1>4, <2>1, Zenon DEF TakeLine
<1> QED BY <1>1, <1>2, <1>3, <1>4

LEMMA TakeByteIs ==
  ASSUME NEW p, NEW b
  PROVE  /\ p.spent => TakeByte(p, b) = p
         /\ ~p.spent /\ b = "LF" => TakeByte(p, b) = TakeLine([p EXCEPT !.line = <<>>], WithoutCR(p.line))
         /\ ~p.spent /\ b # "LF" =>
              TakeByte(p, b) = IF Len(p.line) >= MaxLineBytes THEN [p EXCEPT !.spent = TRUE]
                               ELSE [p EXCEPT !.line = Append(@, b)]
<1>1. ASSUME p.spent PROVE TakeByte(p, b) = p
  BY <1>1, Zenon DEF TakeByte
<1>2. ASSUME ~p.spent, b = "LF"
      PROVE  TakeByte(p, b) = TakeLine([p EXCEPT !.line = <<>>], WithoutCR(p.line))
  BY <1>2, Zenon DEF TakeByte
<1>3. ASSUME ~p.spent, b # "LF"
      PROVE  TakeByte(p, b) = IF Len(p.line) >= MaxLineBytes THEN [p EXCEPT !.spent = TRUE]
                              ELSE [p EXCEPT !.line = Append(@, b)]
  BY <1>3, Zenon DEF TakeByte
<1> QED BY <1>1, <1>2, <1>3

(* The parser p, which returned `before` and then p.out, has read the text. *)
Reads(text, p, before) ==
  LET group == InProgress(LinesOf(text))
  IN  /\ ~PastACap(text)
      /\ p.line = Unfinished(text)
      /\ p.data = Data(group) /\ p.event = Name(group)
      /\ before \o p.out = EventsOf(text)

Parses(text, p, before) ==
  /\ text \in Bytes /\ p \in Parser /\ before \in Seq(Event)
  /\ p.spent => PastACap(text) /\ IsPrefix(before, EventsOf(text))
  /\ ~p.spent => Reads(text, p, before)

LEMMA NoText ==
  /\ Unfinished(<<>>) = <<>> /\ ~PastACap(<<>>) /\ EventsOf(<<>>) = <<>>
  /\ InProgress(LinesOf(<<>>)) = <<>>
<1> PICK e : e = <<>>
  OBVIOUS
<1>1. Len(e) + 1 = 1 /\ Len(e) = 0
  OBVIOUS
<1>2. Unfinished(e) = <<>> /\ InProgress(e) = <<>>
  BY <1>1, BetweenNothing DEF Unfinished, InProgress, Group
<1>3. LinesOf(e) = <<>> /\ EventsIn(e) = <<>>
  BY NoLines, NoEvents
<1>4. ~PastACap(e)
  BY <1>1 DEF PastACap, LineTooLong
<1> QED BY <1>2, <1>3, <1>4 DEF EventsOf

LEMMA ReadsNothing == Parses(<<>>, NewParser, <<>>)
<1>1. NewParser \in Parser /\ ~NewParser.spent
  BY DEF NewParser, Parser, Bytes
<1>2. Reads(<<>>, NewParser, <<>>)
  <2>1. <<>> \o <<>> = <<>>
    OBVIOUS
  <2> QED BY <2>1, NoText, NoData, NoName DEF Reads, NewParser
<1>3. <<>> \in Bytes /\ <<>> \in Seq(Event)
  BY DEF Bytes
<1> QED BY <1>1, <1>2, <1>3 DEF Parses
(* The next text and what the next parser has to be for it. *)
LEMMA NextText ==
  ASSUME NEW text \in Bytes, NEW b \in Byte
  PROVE  /\ Append(text, b) \in Bytes
         /\ b = "LF" => Unfinished(Append(text, b)) = <<>>
         /\ b # "LF" => /\ Unfinished(Append(text, b)) = Append(Unfinished(text), b)
                        /\ LinesOf(Append(text, b)) = LinesOf(text)
<1>1. text \in Seq(Byte) /\ Append(text, b) \in Seq(Byte)
  BY DEF Bytes
<1>2. Unfinished(Append(text, b)) = IF b = "LF" THEN <<>> ELSE Append(Unfinished(text), b)
  BY <1>1, BetweenNext DEF Unfinished
<1> QED BY <1>1, <1>2, LinesStep DEF Bytes

(* A parser that fails, or that has failed, keeps what it returned before. *)
LEMMA StaysSpent ==
  ASSUME NEW text, NEW p, NEW before, Parses(text, p, before), NEW b \in Byte, PastACap(Append(text, b)),
         NEW q \in Parser, q.spent
  PROVE  Parses(Append(text, b), q, before)
<1>1. text \in Bytes /\ before \in Seq(Event) /\ p \in Parser
  BY DEF Parses
<1>2. IsPrefix(before, EventsOf(text)) /\ EventsOf(text) \in Seq(Event)
  <2>1. EventsOf(text) \in Seq(Event)
    BY <1>1, EventsNext
  <2>2. CASE p.spent
    BY <2>1, <2>2 DEF Parses
  <2>3. CASE ~p.spent
    <3>1. before \o p.out = EventsOf(text)
      BY <2>3 DEF Parses, Reads
    <3>2. p.out \in Seq(Event)
      BY <1>1 DEF Parser
    <3>3. IsPrefix(before, before \o p.out)
      BY <1>1, <3>2, LongerHasPrefix
    <3> QED BY <2>1, <3>1, <3>3
  <2> QED BY <2>2, <2>3
<1>3. IsPrefix(EventsOf(text), EventsOf(Append(text, b))) /\ EventsOf(Append(text, b)) \in Seq(Event)
  <2>1. Append(text, b) \in Bytes
    BY <1>1, NextText
  <2> QED BY <1>1, <2>1, EventsNext
<1>4. IsPrefix(before, EventsOf(Append(text, b)))
  BY <1>1, <1>2, <1>3, PrefixTransitive
<1>5. Append(text, b) \in Bytes
  BY <1>1, NextText
<1> QED BY <1>1, <1>4, <1>5 DEF Parses

LEMMA WithinALine ==
  ASSUME NEW text, NEW p, NEW before, Parses(text, p, before), ~p.spent, NEW b \in Byte, b # "LF"
  PROVE  Parses(Append(text, b), TakeByte(p, b), before)
<1>1. text \in Bytes /\ before \in Seq(Event) /\ p \in Parser /\ Reads(text, p, before)
  BY DEF Parses
<1>2. p.line = Unfinished(text) /\ p.line \in Bytes /\ p.out \in Seq(Event)
  BY <1>1 DEF Reads, Parser
<1>3. MaxLineBytes \in Nat /\ Len(p.line) \in Nat
  BY <1>2, GuestAssumption DEF Bytes
<1>4. CASE Len(p.line) >= MaxLineBytes
  <2>1. TakeByte(p, b) = [p EXCEPT !.spent = TRUE]
    BY <1>4, TakeByteIs
  <2>2. PastACap(Append(text, b))
    BY <1>1, <1>2, <1>4, CapNext
  <2> PICK q : q = TakeByte(p, b)
    OBVIOUS
  <2>3. q \in Parser /\ q.spent
    BY <1>1, <2>1 DEF Parser
  <2>4. Parses(Append(text, b), q, before)
    BY <2>2, <2>3, StaysSpent
  <2> QED BY <2>4
<1>5. CASE ~(Len(p.line) >= MaxLineBytes)
  <2>1. TakeByte(p, b) = [p EXCEPT !.line = Append(@, b)]
    BY <1>5, TakeByteIs
  <2> PICK q : q = TakeByte(p, b)
    OBVIOUS
  <2>2. Append(p.line, b) \in Bytes
    BY <1>2 DEF Bytes
  <2>3. /\ q \in Parser /\ ~q.spent /\ q.line = Append(p.line, b)
        /\ q.data = p.data /\ q.event = p.event /\ q.out = p.out
    BY <1>1, <2>1, <2>2 DEF Parser
  <2>4. ~PastACap(Append(text, b))
    BY <1>1, <1>2, <1>5, CapNext DEF Reads
  <2>5. /\ Unfinished(Append(text, b)) = Append(Unfinished(text), b) /\ Append(text, b) \in Bytes
        /\ LinesOf(Append(text, b)) = LinesOf(text)
    BY <1>1, NextText
  <2>6. EventsOf(Append(text, b)) = EventsOf(text)
    BY <2>5 DEF EventsOf
  <2>7. Reads(Append(text, b), q, before)
    BY <1>1, <1>2, <2>3, <2>4, <2>5, <2>6 DEF Reads
  <2>8. Parses(Append(text, b), q, before)
    BY <1>1, <2>3, <2>5, <2>7 DEF Parses
  <2> QED BY <2>8
<1> QED BY <1>4, <1>5

(* What a line, blank or not, does to the group of the event in progress. *)
LEMMA LineEnds ==
  ASSUME NEW text, NEW p, NEW before, Parses(text, p, before), ~p.spent,
         NEW l, l = WithoutCR(p.line), NEW r, r = Append(text, "LF"),
         NEW q, q = TakeLine([p EXCEPT !.line = <<>>], l)
  PROVE  Parses(r, q, before)
<1>0. "LF" \in Byte
  BY ByteFacts
<1>1. text \in Bytes /\ before \in Seq(Event) /\ p \in Parser /\ Reads(text, p, before)
  BY DEF Parses
<1>2. /\ p.line = Unfinished(text) /\ p.line \in Bytes /\ p.out \in Seq(Event) /\ l \in Bytes
      /\ p.data \in Bytes /\ p.event \in Bytes
  <2>1. p.line = Unfinished(text) /\ p.line \in Bytes /\ p.out \in Seq(Event)
        /\ p.data \in Bytes /\ p.event \in Bytes
    BY <1>1 DEF Reads, Parser
  <2> QED BY <2>1, LineTypes
<1> PICK lines \in Seq(Bytes) : lines = LinesOf(text)
  BY <1>1, LinesType
<1> PICK g \in Seq(NotBlank) : g = InProgress(lines)
  BY <1>2, InProgressNext
<1>3. p.data = Data(g) /\ p.event = Name(g) /\ before \o p.out = EventsOf(text) /\ ~PastACap(text)
  BY <1>1 DEF Reads
<1>4. r \in Bytes /\ Unfinished(r) = <<>> /\ LinesOf(r) = Append(lines, l)
  BY <1>0, <1>1, <1>2, NextText, LinesStep
<1> PICK h : h = InProgress(LinesOf(r))
  OBVIOUS
<1>5. h = IF l = <<>> THEN <<>> ELSE Append(g, l)
  BY <1>2, <1>4, InProgressNext
<1>6. PastACap(r) <=> Overflows(lines, l)
  BY <1>0, <1>1, <1>2, <1>3, CapNext
<1>7. EventsOf(text) \in Seq(Event) /\ EventsOf(r) = EventsOf(text) \o (IF l = <<>> THEN Made(g) ELSE <<>>)
  <2>1. Closed(text, "LF") = IF l = <<>> THEN Made(g) ELSE <<>>
    BY <1>2 DEF Closed
  <2> QED BY <1>0, <1>1, <2>1, EventsNext
<1> PICK e \in Seq(Event) : e = EventsOf(text)
  BY <1>7
<1> PICK o \in Seq(Event) : o = p.out
  BY <1>2
<1> PICK w : w = [p EXCEPT !.line = <<>>]
  OBVIOUS
<1>8. /\ w \in Parser /\ w.line = <<>> /\ w.event = p.event /\ w.data = p.data /\ w.out = o /\ ~w.spent
  <2>1. <<>> \in Bytes
    BY DEF Bytes
  <2>2. w \in Parser
    BY ONLY <1>1, <2>1, w = [p EXCEPT !.line = <<>>] DEF Parser
  <2>3. /\ w.line = <<>> /\ w.event = p.event /\ w.data = p.data /\ w.out = p.out
        /\ w.spent = p.spent
    BY ONLY <1>1, w = [p EXCEPT !.line = <<>>] DEF Parser
  <2> QED BY <2>2, <2>3
<1>9. q = TakeLine(w, l)
  OBVIOUS
<1>10. SUFFICES \/ PastACap(r) /\ q \in Parser /\ q.spent
                \/ /\ ~PastACap(r) /\ q \in Parser /\ ~q.spent
                   /\ q.line = <<>> /\ q.data = Data(h) /\ q.event = Name(h)
                   /\ before \o q.out = EventsOf(r)
  <2>1. ASSUME PastACap(r), q \in Parser, q.spent
        PROVE  Parses(r, q, before)
    BY <1>0, <2>1, StaysSpent
  <2>2. ASSUME ~PastACap(r), q \in Parser, ~q.spent,
               q.line = <<>>, q.data = Data(h), q.event = Name(h), before \o q.out = EventsOf(r)
        PROVE  Parses(r, q, before)
    <3>1. Reads(r, q, before)
      BY <1>4, <2>2 DEF Reads
    <3> QED BY <1>1, <1>4, <2>2, <3>1 DEF Parses
  <2> QED BY <2>1, <2>2
<1>11. CASE l = <<>>
  <2>1. q = Dispatched(w)
    BY <1>9, <1>11, TakeLineIs
  <2>2. ~PastACap(r)
    BY <1>6, <1>11 DEF Overflows
  <2>3. h = <<>> /\ Data(h) = <<>> /\ Name(h) = <<>>
    BY <1>5, <1>11, NoData, NoName
  <2> PICK m \in Event : m = [event |-> p.event, data |-> p.data]
    BY <1>2 DEF Event
  <2>4. o \o <<>> = o /\ e \o <<>> = e /\ Append(o, m) \in Seq(Event)
        /\ before \o Append(o, m) = (before \o o) \o <<m>>
    <3>1. o \o <<>> = o /\ e \o <<>> = e
      BY ONLY o \in Seq(Event), e \in Seq(Event), ConcatEmptySeq
    <3> PICK T : T = Event
      OBVIOUS
    <3>2. o \in Seq(T) /\ m \in T /\ before \in Seq(T)
      BY <1>1
    <3>3. Append(o, m) \in Seq(T) /\ before \o Append(o, m) = (before \o o) \o <<m>>
      BY ONLY <3>2
    <3> QED BY <3>1, <3>3
  <2>5. Made(g) = IF p.data = <<>> THEN <<>> ELSE <<m>>
    BY <1>3 DEF Made
  <2>6. CASE p.data = <<>>
    <3>1. q \in Parser /\ ~q.spent /\ q.line = <<>> /\ q.data = <<>> /\ q.event = <<>> /\ q.out = o
      BY <1>8, <2>1, <2>6 DEF Dispatched, Parser, Bytes
    <3>2. before \o q.out = EventsOf(r)
      BY <1>3, <1>7, <1>11, <2>4, <2>5, <2>6, <3>1
    <3> QED BY <2>2, <2>3, <3>1, <3>2
  <2>7. CASE p.data # <<>>
    <3>0. m = [event |-> w.event, data |-> w.data] /\ w.data # <<>>
      BY <1>8, <2>7
    <3> PICK a \in Seq(Event) : a = Append(o, m)
      BY <2>4
    <3>3. q = [w EXCEPT !.data = <<>>, !.event = <<>>, !.out = a]
      BY <1>8, <2>1, <3>0 DEF Dispatched
    <3>1. /\ q \in Parser /\ ~q.spent /\ q.line = <<>> /\ q.data = <<>> /\ q.event = <<>>
          /\ q.out = Append(o, m)
      BY <1>8, <3>3 DEF Parser, Bytes
    <3>2. before \o q.out = EventsOf(r)
      BY <1>3, <1>7, <1>11, <2>4, <2>5, <2>7, <3>1
    <3> QED BY <2>2, <2>3, <3>1, <3>2
  <2> QED BY <2>6, <2>7
<1>12. CASE l # <<>>
  <2>0. l \in NotBlank /\ Tail(l) \in Bytes /\ Len(Tail(l)) = Len(l) - 1 /\ Len(l) \in Nat
    BY <1>2, <1>12, LineTypes DEF NotBlank
  <2>1. h = Append(g, l)
    BY <1>5, <1>12
  <2>2. Data(h) = IF Head(l) = "D" THEN Joined(p.data, Tail(l)) ELSE p.data
    BY <1>3, <2>0, <2>1, DataNext
  <2>3. Name(h) = IF Head(l) = "E" THEN Tail(l) ELSE p.event
    BY <1>3, <2>0, <2>1, NameNext
  <2>4. EventsOf(r) = before \o o
    <3>1. e \o <<>> = e
      BY ONLY e \in Seq(Event), ConcatEmptySeq
    <3> QED BY <1>3, <1>7, <1>12, <3>1
  <2>5. PastACap(r) <=> Head(l) = "D" /\ Len(p.data) + Len(l) > MaxEventBytes
    BY <1>3, <1>6, <1>12 DEF Overflows
  <2>6. CASE Head(l) = "E"
    <3>1. q = [w EXCEPT !.event = Tail(l)]
      BY <1>9, <1>12, <2>6, TakeLineIs
    <3>2. q \in Parser /\ ~q.spent /\ q.line = <<>> /\ q.data = p.data /\ q.event = Tail(l) /\ q.out = o
      BY <1>8, <2>0, <3>1 DEF Parser
    <3>3. Head(l) # "D"
      BY <2>6, ByteFacts
    <3> QED BY <2>2, <2>3, <2>4, <2>5, <2>6, <3>2, <3>3
  <2>7. CASE Head(l) = "D"
    <3>1. Head(l) # "E"
      BY <2>7, ByteFacts
    <3>2. q = IF Len(p.data) + Len(Tail(l)) + 1 > MaxEventBytes THEN [w EXCEPT !.spent = TRUE]
              ELSE [w EXCEPT !.data = Joined(@, Tail(l))]
      <4>1. q = IF Len(w.data) + Len(Tail(l)) + 1 > MaxEventBytes THEN [w EXCEPT !.spent = TRUE]
                ELSE [w EXCEPT !.data = Joined(@, Tail(l))]
        BY ONLY <1>9, <1>12, <2>7, TakeLineIs
      <4> QED BY <4>1, <1>8
    <3>3. Len(p.data) + Len(Tail(l)) + 1 = Len(p.data) + Len(l)
      <4> PICK d \in Seq(Byte) : d = p.data
        BY <1>2 DEF Bytes
      <4> PICK i \in Nat : i = Len(d)
        BY ONLY d \in Seq(Byte)
      <4> PICK k \in Nat : k = Len(l)
        BY <2>0
      <4>1. i + (k - 1) + 1 = i + k
        OBVIOUS
      <4> QED BY <2>0, <4>1
    <3>4. CASE Len(p.data) + Len(l) > MaxEventBytes
      <4>1. q = [w EXCEPT !.spent = TRUE]
        BY <3>2, <3>3, <3>4
      <4>2. q \in Parser /\ q.spent
        BY <1>8, <4>1 DEF Parser
      <4> QED BY <2>5, <2>7, <3>4, <4>2
    <3>5. CASE ~(Len(p.data) + Len(l) > MaxEventBytes)
      <4>1. q = [w EXCEPT !.data = Joined(@, Tail(l))]
        BY <3>2, <3>3, <3>5
      <4>2. Joined(p.data, Tail(l)) \in Bytes
        BY <1>2, <2>0, JoinedTypes
      <4>3. /\ q \in Parser /\ ~q.spent /\ q.line = <<>> /\ q.data = Joined(p.data, Tail(l))
            /\ q.event = p.event /\ q.out = o
        BY <1>8, <4>1, <4>2 DEF Parser
      <4> QED BY <2>2, <2>3, <2>4, <2>5, <2>7, <3>1, <3>5, <4>3
    <3> QED BY <3>4, <3>5
  <2>8. CASE Head(l) \notin {"E", "D"}
    <3>1. q = w
      BY <1>9, <1>12, <2>8, TakeLineIs
    <3>2. Head(l) # "E" /\ Head(l) # "D"
      BY <2>8
    <3> QED BY <1>8, <2>2, <2>3, <2>4, <2>5, <3>1, <3>2
  <2> QED BY <2>6, <2>7, <2>8
<1> QED BY <1>11, <1>12

(* One byte more, whatever it is. *)
LEMMA ByteStep ==
  ASSUME NEW text, NEW p, NEW before, Parses(text, p, before), NEW b \in Byte
  PROVE  Parses(Append(text, b), TakeByte(p, b), before)
<1>0. p \in Parser /\ text \in Bytes
  BY DEF Parses
<1>1. CASE p.spent
  <2>1. PastACap(text)
    BY <1>1 DEF Parses
  <2>2. PastACap(Append(text, b))
    BY <1>0, <2>1, CapNext
  <2> QED BY <1>0, <1>1, <2>2, StaysSpent, TakeByteIs
<1>2. CASE ~p.spent /\ b # "LF"
  BY <1>2, WithinALine
<1>3. CASE ~p.spent /\ b = "LF"
  <2> PICK l : l = WithoutCR(p.line)
    OBVIOUS
  <2> PICK r : r = Append(text, "LF")
    OBVIOUS
  <2> PICK q : q = TakeLine([p EXCEPT !.line = <<>>], l)
    OBVIOUS
  <2>1. Parses(r, q, before)
    BY <1>3, LineEnds
  <2>2. TakeByte(p, b) = q
    BY <1>3, TakeByteIs
  <2> QED BY <1>3, <2>1, <2>2
<1> QED BY <1>1, <1>2, <1>3
-----------------------------------------------------------------------------
(* The function a chunk is fed through: f[n] is the parser after n of its bytes. *)
Feeds(p, chunk, f) ==
  f = [n \in 0..Len(chunk) |-> IF n = 0 THEN p ELSE TakeByte(f[n - 1], chunk[n])]

LEMMA TakeByteType ==
  ASSUME NEW p \in Parser, NEW b \in Byte
  PROVE  TakeByte(p, b) \in Parser
<1>1. /\ p.line \in Bytes /\ p.event \in Bytes /\ p.data \in Bytes /\ p.out \in Seq(Event)
      /\ <<>> \in Bytes
  BY DEF Parser, Bytes
<1> PICK l : l = WithoutCR(p.line)
  OBVIOUS
<1>2. l \in Bytes
  BY <1>1, LineTypes
<1> PICK w : w = [p EXCEPT !.line = <<>>]
  OBVIOUS
<1>3. w \in Parser
  BY ONLY <1>1, p \in Parser, w = [p EXCEPT !.line = <<>>] DEF Parser
<1>4. \A q \in Parser : [q EXCEPT !.spent = TRUE] \in Parser
  BY DEF Parser
<1>5. CASE p.spent
  BY <1>5, TakeByteIs
<1>6. CASE ~p.spent /\ b # "LF"
  <2> PICK x \in Seq(Byte) : x = p.line
    BY <1>1 DEF Bytes
  <2>0. Append(x, b) \in Seq(Byte)
    BY ONLY x \in Seq(Byte), b \in Byte
  <2> PICK a \in Bytes : a = Append(p.line, b)
    BY <2>0 DEF Bytes
  <2>1. [p EXCEPT !.line = a] \in Parser
    BY DEF Parser
  <2>2. TakeByte(p, b) = IF Len(p.line) >= MaxLineBytes THEN [p EXCEPT !.spent = TRUE]
                         ELSE [p EXCEPT !.line = a]
    BY <1>6, TakeByteIs
  <2> QED BY <1>4, <2>1, <2>2
<1>7. CASE ~p.spent /\ b = "LF"
  <2>1. TakeByte(p, b) = TakeLine(w, l)
    BY <1>7, TakeByteIs
  <2>2. w.event \in Bytes /\ w.data \in Bytes /\ w.out \in Seq(Event)
    BY <1>3 DEF Parser
  <2>3. CASE l = <<>>
    <3>1. TakeLine(w, l) = Dispatched(w)
      BY <2>3, TakeLineIs
    <3> PICK m \in Event : m = [event |-> w.event, data |-> w.data]
      BY <2>2 DEF Event
    <3> DEFINE a == IF w.data = <<>> THEN w.out ELSE Append(w.out, m)
    <3>2. a \in Seq(Event)
      <4> PICK T : T = Event
        OBVIOUS
      <4> PICK o \in Seq(T) : o = w.out
        BY <2>2
      <4>1. Append(o, m) \in Seq(T)
        BY ONLY o \in Seq(T), m \in Event, T = Event
      <4> QED BY <4>1
    <3>3. Dispatched(w) = [w EXCEPT !.data = <<>>, !.event = <<>>, !.out = a]
      BY DEF Dispatched
    <3> HIDE DEF a
    <3>4. [w EXCEPT !.data = <<>>, !.event = <<>>, !.out = a] \in Parser
      BY ONLY <1>1, <1>3, <3>2 DEF Parser
    <3> QED BY <2>1, <3>1, <3>3, <3>4
  <2>4. CASE l # <<>>
    <3>1. Tail(l) \in Bytes
      BY <1>2, <2>4, LineTypes
    <3>2. Joined(w.data, Tail(l)) \in Bytes
      BY <2>2, <3>1, JoinedTypes
    <3>3. [w EXCEPT !.event = Tail(l)] \in Parser
      BY ONLY <1>3, <3>1 DEF Parser
    <3>4. [w EXCEPT !.data = Joined(w.data, Tail(l))] \in Parser
      BY ONLY <1>3, <3>2 DEF Parser
    <3>5. CASE Head(l) = "E"
      BY <1>3, <2>1, <2>4, <3>3, <3>5, TakeLineIs
    <3>6. CASE Head(l) = "D"
      <4>1. TakeLine(w, l) = IF Len(w.data) + Len(Tail(l)) + 1 > MaxEventBytes
                             THEN [w EXCEPT !.spent = TRUE]
                             ELSE [w EXCEPT !.data = Joined(@, Tail(l))]
        BY ONLY <2>4, <3>6, TakeLineIs
      <4>2. [w EXCEPT !.spent = TRUE] \in Parser
        BY <1>3, <1>4
      <4>3. [w EXCEPT !.data = Joined(@, Tail(l))] \in Parser
        BY <3>4
      <4> QED BY <2>1, <4>1, <4>2, <4>3
    <3>7. CASE Head(l) \notin {"E", "D"}
      BY <1>3, <2>1, <2>4, <3>7, TakeLineIs
    <3> QED BY <3>5, <3>6, <3>7
  <2> QED BY <2>3, <2>4
<1> QED BY <1>5, <1>6, <1>7

LEMMA FeedsAt ==
  ASSUME NEW p, NEW chunk \in Bytes, NEW f, Feeds(p, chunk, f)
  PROVE  f[0] = p /\ \A k \in 0..(Len(chunk) - 1) : f[k + 1] = TakeByte(f[k], chunk[k + 1])
<1>0. Len(chunk) \in Nat
  BY DEF Bytes
<1> DEFINE F == [n \in 0..Len(chunk) |-> IF n = 0 THEN p ELSE TakeByte(f[n - 1], chunk[n])]
<1>1. f = F
  BY DEF Feeds
<1>2. F[0] = p
  BY <1>0
<1>3. ASSUME NEW k \in 0..(Len(chunk) - 1)
      PROVE  F[k + 1] = TakeByte(f[k], chunk[k + 1])
  <2>1. k + 1 \in 0..Len(chunk) /\ k + 1 # 0 /\ k + 1 - 1 = k
    BY <1>0
  <2>2. F[k + 1] = IF k + 1 = 0 THEN p ELSE TakeByte(f[k + 1 - 1], chunk[k + 1])
    BY <2>1
  <2> QED BY <2>1, <2>2
<1> HIDE DEF F
<1> QED BY <1>1, <1>2, <1>3

LEMMA SomethingFeeds ==
  ASSUME NEW p \in Parser, NEW chunk \in Bytes
  PROVE  \E f : Feeds(p, chunk, f)
<1>0. chunk \in Seq(Byte) /\ Len(chunk) \in Nat
  BY DEF Bytes
<1> DEFINE n == Len(chunk)
           Up(f, m) == \A i \in 0..m : f[i] = IF i = 0 THEN p ELSE TakeByte(f[i - 1], chunk[i])
           Good == {m \in 0..n : \E f \in [0..m -> Parser] : Up(f, m)}
<1>1. 0 \in Good
  <2> DEFINE f == [i \in 0..0 |-> p]
  <2>1. 0 \in 0..n
    BY <1>0
  <2>2. f \in [0..0 -> Parser]
    OBVIOUS
  <2>3. \A i \in 0..0 : i = 0 /\ f[i] = p
    OBVIOUS
  <2> HIDE DEF f
  <2>4. Up(f, 0)
    BY <2>3
  <2> HIDE DEF Up
  <2>5. \E h \in [0..0 -> Parser] : Up(h, 0)
    BY <2>2, <2>4
  <2> QED BY <2>1, <2>5
<1>2. ASSUME NEW m \in 0..(n - 1), m \in Good
      PROVE  m + 1 \in Good
  <2>1. PICK f \in [0..m -> Parser] : Up(f, m)
    BY <1>2
  <2> DEFINE v == TakeByte(f[m], chunk[m + 1])
             g == [i \in 0..(m + 1) |-> IF i <= m THEN f[i] ELSE v]
  <2>2. v \in Parser
    <3>1. m + 1 \in 1..n /\ chunk[m + 1] \in Byte /\ m \in 0..m
      BY <1>0
    <3>2. f[m] \in Parser
      BY <3>1
    <3> QED BY <3>1, <3>2, TakeByteType
  <2>3. g \in [0..(m + 1) -> Parser]
    <3> HIDE DEF v
    <3> QED BY <2>2
  <2>4. ASSUME NEW i \in 0..(m + 1)
        PROVE  g[i] = IF i = 0 THEN p ELSE TakeByte(g[i - 1], chunk[i])
    <3>1. CASE i <= m
      <4>1. i \in 0..m /\ (i # 0 => i - 1 \in 0..m /\ i - 1 \in 0..(m + 1) /\ i - 1 <= m)
        BY <3>1
      <4>2. g[i] = f[i] /\ (i # 0 => g[i - 1] = f[i - 1])
        <5> HIDE DEF v
        <5> QED BY <4>1, <3>1
      <4>3. f[i] = IF i = 0 THEN p ELSE TakeByte(f[i - 1], chunk[i])
        BY <2>1, <4>1
      <4> HIDE DEF g
      <4> QED BY <4>2, <4>3
    <3>2. CASE i = m + 1
      <4>1. i # 0 /\ ~(i <= m) /\ i - 1 = m /\ i - 1 \in 0..(m + 1) /\ i - 1 <= m
        BY <3>2
      <4>2. g[i] = v /\ g[i - 1] = f[m]
        <5> HIDE DEF v
        <5> QED BY <4>1
      <4>3. v = TakeByte(f[m], chunk[i])
        BY <3>2
      <4> HIDE DEF g, v
      <4> QED BY <4>1, <4>2, <4>3
    <3>3. i <= m \/ i = m + 1
      OBVIOUS
    <3> QED BY <3>1, <3>2, <3>3
  <2>5. m + 1 \in 0..n
    BY <1>0
  <2>6. Up(g, m + 1)
    <3> HIDE DEF g
    <3> QED BY <2>4
  <2> HIDE DEF g, Up
  <2> QED BY <2>3, <2>6, <2>5
<1>3. n \in Good
  <2>1. n \in Nat /\ n \in 0..n
    BY <1>0
  <2> HIDE DEF Good, n
  <2>2. 0..n \subseteq Good
    BY <2>1, <1>1, <1>2, BySteps
  <2> QED BY <2>1, <2>2
<1>4. PICK f \in [0..n -> Parser] : Up(f, n)
  BY <1>3
<1>5. f = [i \in 0..Len(chunk) |-> IF i = 0 THEN p ELSE TakeByte(f[i - 1], chunk[i])]
  BY <1>4
<1> QED BY <1>5 DEF Feeds

LEMMA FedFeeds ==
  ASSUME NEW p \in Parser, NEW chunk \in Bytes
  PROVE  \E f : Feeds(p, chunk, f) /\ Fed(p, chunk) = f[Len(chunk)]
<1> DEFINE f == CHOOSE f : Feeds(p, chunk, f)
<1>1. Fed(p, chunk) = f[Len(chunk)]
  BY DEF Fed, Feeds
<1>2. \E g : Feeds(p, chunk, g)
  BY SomethingFeeds
<1>3. Feeds(p, chunk, f)
  BY <1>2
<1> QED BY <1>1, <1>3

(* A chunk of the text is read as its bytes are. *)
LEMMA ChunkStep ==
  ASSUME NEW text \in Bytes, NEW n \in 0..Len(text), NEW k \in Nat, n + k <= Len(text),
         NEW p, NEW before, Parses(SubSeq(text, 1, n), p, before)
  PROVE  Parses(SubSeq(text, 1, n + k), Fed(p, SubSeq(text, n + 1, n + k)), before)
<1>1. text \in Seq(Byte) /\ n \in Nat /\ Len(text) \in Nat /\ p \in Parser
  BY DEF Bytes, Parses
<1> PICK c : c = SubSeq(text, n + 1, n + k)
  OBVIOUS
<1>2. c \in Seq(Byte) /\ c \in Bytes /\ Len(c) = k /\ \A i \in 1..k : c[i] = text[n + i]
  <2>1. c \in Seq(Byte)
    BY <1>1, SubSeqType
  <2>2. Len(c) = k /\ \A i \in 1..k : c[i] = text[n + i]
    BY <1>1, SubSeqAt
  <2> QED BY <2>1, <2>2 DEF Bytes
<1>3. PICK f : Feeds(p, c, f) /\ Fed(p, c) = f[k]
  BY <1>1, <1>2, FedFeeds
<1> DEFINE Good == {m \in 0..k : Parses(SubSeq(text, 1, n + m), f[m], before)}
<1>4. 0 \in Good
  <2>1. f[0] = p /\ n + 0 = n /\ 0 \in 0..k
    BY <1>1, <1>2, <1>3, FeedsAt
  <2> QED BY <2>1
<1>5. ASSUME NEW m \in 0..(k - 1), m \in Good
      PROVE  m + 1 \in Good
  <2>1. f[m + 1] = TakeByte(f[m], c[m + 1])
    <3>1. m \in 0..(Len(c) - 1) /\ c \in Bytes /\ Feeds(p, c, f)
      BY <1>2, <1>3
    <3> QED BY ONLY <3>1, FeedsAt
  <2>2. m + 1 \in 1..k /\ m + 1 \in 0..k /\ n + m \in Nat /\ n + m + 1 <= Len(text)
        /\ n + (m + 1) = n + m + 1
    BY <1>1
  <2> PICK i \in Nat : i = n + m
    BY <2>2
  <2>3. text[i + 1] \in Byte /\ i + 1 <= Len(text) /\ i \in 0..Len(text) /\ i + 1 \in 0..Len(text)
    BY <1>1, <2>2
  <2>4. c[m + 1] = text[i + 1]
    BY <1>2, <2>2
  <2>5. SubSeq(text, 1, i + 1) = Append(SubSeq(text, 1, i), text[i + 1])
    <3> PICK x : x = SubSeq(text, 1, i + 1)
      OBVIOUS
    <3> PICK y : y = SubSeq(text, 1, i)
      OBVIOUS
    <3>1. x \in Seq(Byte) /\ Len(x) = i + 1 /\ \A j \in 1..(i + 1) : x[j] = text[j]
      BY ONLY <1>1, <2>3, x = SubSeq(text, 1, i + 1), CutIsPrefix
    <3>2. y \in Seq(Byte) /\ Len(y) = i /\ \A j \in 1..i : y[j] = text[j]
      BY ONLY <1>1, <2>3, y = SubSeq(text, 1, i), CutIsPrefix
    <3>3. i + 1 \in 1..(i + 1) /\ \A j \in 1..i : j \in 1..(i + 1)
      OBVIOUS
    <3>4. x[i + 1] = text[i + 1] /\ \A j \in 1..i : x[j] = y[j]
      BY <3>1, <3>2, <3>3
    <3> PICK b \in Byte : b = text[i + 1]
      BY <2>3
    <3>5. x = Append(y, b)
      BY ONLY <3>1, <3>2, <3>4, b \in Byte, b = text[i + 1], i \in Nat
    <3> QED BY <3>5
  <2>6. Parses(SubSeq(text, 1, i), f[m], before)
    BY <1>5
  <2>7. Parses(Append(SubSeq(text, 1, i), text[i + 1]), TakeByte(f[m], text[i + 1]), before)
    BY ONLY <2>3, <2>6, ByteStep
  <2>8. Parses(SubSeq(text, 1, n + (m + 1)), f[m + 1], before)
    BY <2>1, <2>2, <2>4, <2>5, <2>7
  <2> QED BY <2>2, <2>8
<1> HIDE DEF Good
<1>6. k \in Good
  <2>1. 0..k \subseteq Good
    BY <1>4, <1>5, BySteps
  <2> QED BY <2>1
<1>7. Parses(SubSeq(text, 1, n + k), f[k], before)
  BY <1>6 DEF Good
<1> QED BY <1>3, <1>7
-----------------------------------------------------------------------------
Endings == {"going", "error", "cap", "end", "cancelled"}

(* What the guest has read so far, and how far it was. *)
GuestSoFar ==
  /\ body \in Bytes /\ taken \in 0..Len(body) /\ ended \in Endings
  /\ parser \in Parser /\ events \in Seq(Event)
  /\ use = "events" =>
       /\ ended = "going" => ~parser.spent
       /\ Parses(SubSeq(body, 1, taken), [parser EXCEPT !.out = <<>>], events)
  /\ use = "excerpt" =>
       /\ ended = "cap" => taken > ExcerptCap
       /\ ended = "end" => taken = Len(body)

LEMMA BodiesAreBytes ==
  ASSUME NEW u \in DOMAIN Bodies, NEW b \in Bodies[u]
  PROVE  b \in Bytes
<1>1. \A Q \in SUBSET Byte, n \in Int : Over(Q, n) \subseteq Bytes
  <2> TAKE Q \in SUBSET Byte, n \in Int
  <2>1. \A k \in 0..n : [1..k -> Q] \subseteq Seq(Byte)
    OBVIOUS
  <2> QED BY <2>1 DEF Over, Bytes
<1>2. Longest \in Int /\ Longest - 3 \in Int
  BY GuestAssumption
<1>3. /\ {"D", "x", "LF"} \in SUBSET Byte /\ {"D", "E", "C", "x", "LF", "CR"} \in SUBSET Byte
      /\ {"x", "_"} \in SUBSET Byte
  BY DEF Byte
<1>4. /\ Over({"D", "x", "LF"}, Longest) \subseteq Bytes
      /\ Over({"D", "E", "C", "x", "LF", "CR"}, Longest - 3) \subseteq Bytes
      /\ Over({"x", "_"}, Longest - 3) \subseteq Bytes
  BY <1>1, <1>2, <1>3
<1>5. /\ u \in {"events", "excerpt"}
      /\ Bodies["events"] = Over({"D", "x", "LF"}, Longest)
                              \cup Over({"D", "E", "C", "x", "LF", "CR"}, Longest - 3)
      /\ Bodies["excerpt"] = Over({"x", "_"}, Longest - 3)
  BY DEF Bodies
<1> QED BY <1>4, <1>5

(* After a chunk: the events it completed are returned, or the parser has failed. *)
LEMMA Returned ==
  ASSUME NEW text, NEW p, NEW before, Parses(text, p, before)
  PROVE  /\ p \in Parser /\ [p EXCEPT !.out = <<>>].spent = p.spent
         /\ p.spent => Parses(text, [p EXCEPT !.out = <<>>], before)
         /\ ~p.spent => /\ before \o p.out \in Seq(Event)
                        /\ Parses(text, [p EXCEPT !.out = <<>>], before \o p.out)
<1>1. p \in Parser /\ text \in Bytes /\ before \in Seq(Event)
  BY DEF Parses
<1> PICK q : q = [p EXCEPT !.out = <<>>]
  OBVIOUS
<1>2. /\ q \in Parser /\ q.spent = p.spent /\ q.out = <<>>
      /\ q.line = p.line /\ q.event = p.event /\ q.data = p.data
  <2>1. <<>> \in Seq(Event)
    OBVIOUS
  <2>2. q \in Parser
    BY ONLY <1>1, <2>1, q = [p EXCEPT !.out = <<>>] DEF Parser
  <2>3. /\ q.spent = p.spent /\ q.out = <<>>
        /\ q.line = p.line /\ q.event = p.event /\ q.data = p.data
    BY ONLY <1>1, q = [p EXCEPT !.out = <<>>] DEF Parser
  <2> QED BY <2>2, <2>3
<1>3. ASSUME p.spent PROVE Parses(text, q, before)
  BY <1>1, <1>2, <1>3 DEF Parses
<1>4. ASSUME ~p.spent
      PROVE  before \o p.out \in Seq(Event) /\ Parses(text, q, before \o p.out)
  <2>1. Reads(text, p, before)
    BY <1>4 DEF Parses
  <2>2. EventsOf(text) = before \o p.out /\ EventsOf(text) \in Seq(Event)
    BY <1>1, <2>1, EventsNext, ByteFacts DEF Reads
  <2> PICK e \in Seq(Event) : e = before \o p.out
    BY <2>2
  <2>3. e \o <<>> = e
    BY ONLY e \in Seq(Event), ConcatEmptySeq
  <2>4. Reads(text, q, e)
    BY <1>2, <2>1, <2>2, <2>3 DEF Reads
  <2>5. Parses(text, q, e)
    BY <1>1, <1>2, <1>4, <2>4 DEF Parses
  <2> QED BY <2>5
<1> QED BY <1>1, <1>2, <1>3, <1>4

LEMMA GuestStarts == GuestInit => GuestSoFar
<1> SUFFICES ASSUME GuestInit PROVE GuestSoFar
  OBVIOUS
<1>1. body \in Bytes
  BY BodiesAreBytes DEF GuestInit
<1>2. Len(body) \in Nat /\ 0 \in 0..Len(body)
  BY <1>1 DEF Bytes
<1>3. SubSeq(body, 1, 0) = <<>>
  <2>1. SubSeq(body, 1, 0) \in Seq(Byte) /\ Len(SubSeq(body, 1, 0)) = 0
    BY <1>1, <1>2, CutIsPrefix DEF Bytes
  <2> QED BY <2>1, EmptySeq
<1>4. Parses(<<>>, NewParser, <<>>) /\ NewParser \in Parser /\ <<>> \in Seq(Event)
  BY ReadsNothing DEF Parses
<1>5. [NewParser EXCEPT !.out = <<>>] = NewParser /\ ~NewParser.spent
  BY DEF NewParser
<1> QED BY <1>1, <1>2, <1>3, <1>4, <1>5 DEF GuestInit, GuestSoFar, Endings

LEMMA RestLength ==
  ASSUME NEW b \in Bytes, NEW c \in 0..Len(b)
  PROVE  Len(SubSeq(b, c + 1, Len(b))) = Len(b) - c
<1> PICK s \in Seq(Byte) : s = b
  BY DEF Bytes
<1> PICK n \in Nat : n = Len(s)
  BY ONLY s \in Seq(Byte)
<1> PICK d \in Nat : d = n - c /\ n = c + d
  <2>1. n - c \in Nat /\ n = c + (n - c)
    OBVIOUS
  <2> QED BY <2>1
<1>1. Len(SubSeq(s, c + 1, c + d)) = d
  <2>1. c \in Nat /\ c + d <= Len(s)
    OBVIOUS
  <2> QED BY ONLY <2>1, s \in Seq(Byte), d \in Nat, SubSeqAt
<1> QED BY <1>1

LEMMA FeedKeeps == GuestSoFar /\ Feed => GuestSoFar'
<1> SUFFICES ASSUME GuestSoFar, Feed PROVE GuestSoFar'
  OBVIOUS
<1>1. /\ use = "events" /\ ended = "going" /\ body \in Bytes /\ taken \in 0..Len(body)
      /\ parser \in Parser /\ ~parser.spent /\ events \in Seq(Event)
      /\ Parses(SubSeq(body, 1, taken), [parser EXCEPT !.out = <<>>], events)
  BY DEF Feed, GuestSoFar
<1>2. PICK k \in 1..Len(Rest) :
        /\ parser' = feed(parser, Next1(k)) /\ taken' = taken + k
        /\ events' = IF parser'.spent THEN events ELSE events \o parser'.out
        /\ ended' = IF parser'.spent THEN "error" ELSE ended
  BY DEF Feed
<1>3. use' = use /\ body' = body
  BY DEF Feed
<1>4. k \in Nat /\ taken + k <= Len(body) /\ taken + k \in 0..Len(body)
  <2> PICK n \in Nat : n = Len(body)
    BY <1>1 DEF Bytes
  <2>1. n = taken + (n - taken) /\ n - taken \in Nat /\ taken \in Nat
    BY <1>1
  <2>2. Len(Rest) = n - taken
    BY <1>1, RestLength DEF Rest
  <2> QED BY <2>1, <2>2
<1> PICK w : w = [parser EXCEPT !.out = <<>>]
  OBVIOUS
<1> PICK p : p = Fed(w, SubSeq(body, taken + 1, taken + k))
  OBVIOUS
<1>5. Parses(SubSeq(body, 1, taken + k), p, events)
  <2>1. Parses(SubSeq(body, 1, taken), w, events)
    BY <1>1
  <2> QED BY ONLY <1>1, <1>4, <2>1, p = Fed(w, SubSeq(body, taken + 1, taken + k)), ChunkStep
<1>6. parser' = p
  BY <1>2 DEF feed, Next1
<1> PICK text : text = SubSeq(body, 1, taken + k)
  OBVIOUS
<1>7. Parses(text, p, events)
  BY <1>5
<1>8. /\ p \in Parser /\ [p EXCEPT !.out = <<>>].spent = p.spent
      /\ p.spent => Parses(text, [p EXCEPT !.out = <<>>], events)
      /\ ~p.spent => /\ events \o p.out \in Seq(Event)
                     /\ Parses(text, [p EXCEPT !.out = <<>>], events \o p.out)
  BY ONLY <1>7, Returned
<1>9. body' \in Bytes /\ taken' \in 0..Len(body') /\ ended' \in Endings /\ parser' \in Parser
  BY <1>1, <1>2, <1>3, <1>4, <1>6, <1>8 DEF Endings
<1>10. events' \in Seq(Event) /\ (ended' = "going" => ~parser'.spent)
       /\ Parses(text, [parser' EXCEPT !.out = <<>>], events')
  <2>1. CASE p.spent
    BY <1>1, <1>2, <1>6, <1>8, <2>1
  <2>2. CASE ~p.spent
    BY <1>1, <1>2, <1>6, <1>8, <2>2
  <2> QED BY <2>1, <2>2
<1>11. use' = "events" /\ SubSeq(body', 1, taken') = text
  BY <1>1, <1>2, <1>3
<1> QED BY <1>9, <1>10, <1>11 DEF GuestSoFar

LEMMA CollectKeeps == GuestSoFar /\ (Collect \/ Collected) => GuestSoFar'
<1> SUFFICES ASSUME GuestSoFar, Collect \/ Collected PROVE GuestSoFar'
  OBVIOUS
<1>1. use = "excerpt" /\ ended = "going" /\ body \in Bytes /\ taken \in 0..Len(body)
      /\ parser \in Parser /\ events \in Seq(Event)
  BY DEF GuestSoFar, Collect, Collected
<1>2. use' = use /\ body' = body /\ parser' = parser /\ events' = events
  BY DEF Collect, Collected
<1> PICK n \in Nat : n = Len(body)
  BY <1>1 DEF Bytes
<1>3. n = taken + (n - taken) /\ n - taken \in Nat /\ taken \in Nat
  BY <1>1
<1>4. Len(Rest) = n - taken
  BY <1>1, RestLength DEF Rest
<1>5. CASE Collect
  <2>1. PICK k \in 1..Len(Rest) : taken' = taken + k
    BY <1>5 DEF Collect
  <2>2. taken' \in 0..n /\ ended' = ended
    BY <1>3, <1>4, <1>5, <2>1 DEF Collect
  <2> QED BY <1>1, <1>2, <2>2 DEF GuestSoFar, Endings
<1>6. CASE Collected
  <2>1. taken' = taken
    BY <1>6 DEF Collected
  <2>2. \/ taken > ExcerptCap /\ ended' = "cap"
        \/ Rest = <<>> /\ ended' = "end"
        \/ ended' \in {"cancelled", "error"}
    BY <1>6 DEF Collected
  <2>3. Rest = <<>> => taken = n
    <3>1. Len(<<>>) = 0
      OBVIOUS
    <3> QED BY <1>3, <1>4, <3>1
  <2> QED BY <1>1, <1>2, <2>1, <2>2, <2>3 DEF GuestSoFar, Endings
<1> QED BY <1>5, <1>6

(* What the mark of an excerpt is. *)
LEMMA MarkIs ==
  /\ taken > ExcerptCap => CutShort.mark = "truncated"
  /\ ~(taken > ExcerptCap) /\ CutShort.text = <<>> /\ ended = "error" => CutShort.mark = "unreadable"
  /\ ~(taken > ExcerptCap) /\ CutShort.text # <<>> /\ ended = "error" => CutShort.mark = "interrupted"
  /\ ~(taken > ExcerptCap) /\ ended # "error" => CutShort.mark = "none"
<1> DEFINE text == Trim(SubSeq(body, 1, Min({taken, ExcerptCap})))
           mark == CASE text = <<>> /\ ~(taken > ExcerptCap) /\ ended = "error" -> "unreadable"
                     [] taken > ExcerptCap -> "truncated"
                     [] text # <<>> /\ ~(taken > ExcerptCap) /\ ended = "error" -> "interrupted"
                     [] OTHER -> "none"
<1>1. CutShort = [text |-> text, mark |-> mark]
  BY Zenon DEF CutShort
<1>2. CutShort.text = text /\ CutShort.mark = mark
  <2> HIDE DEF text, mark
  <2> QED BY <1>1
<1>3. ASSUME taken > ExcerptCap PROVE mark = "truncated"
  <2> HIDE DEF text
  <2> QED BY <1>3, Zenon DEF mark
<1>4. ASSUME ~(taken > ExcerptCap), text = <<>>, ended = "error" PROVE mark = "unreadable"
  <2> HIDE DEF text
  <2> QED BY <1>4, Zenon DEF mark
<1>5. ASSUME ~(taken > ExcerptCap), text # <<>>, ended = "error" PROVE mark = "interrupted"
  <2> HIDE DEF text
  <2> QED BY <1>5, Zenon DEF mark
<1>6. ASSUME ~(taken > ExcerptCap), ended # "error" PROVE mark = "none"
  <2> HIDE DEF text
  <2> QED BY <1>6, Zenon DEF mark
<1> HIDE DEF text, mark
<1> QED BY <1>2, <1>3, <1>4, <1>5, <1>6

LEMMA ExcerptSays == GuestSoFar => ExcerptSaysSo
<1> SUFFICES ASSUME GuestSoFar, use = "excerpt", ended \notin {"going", "cancelled"}
             PROVE  /\ CutShort.mark = "none" => ended = "end" /\ CutShort.text = Trim(body)
                    /\ CutShort.mark = "unreadable" => CutShort.text = <<>> /\ ended = "error"
                    /\ CutShort.mark = "truncated" => Len(body) > ExcerptCap
  BY DEF ExcerptSaysSo
<1>1. /\ body \in Bytes /\ taken \in 0..Len(body) /\ ended \in {"error", "cap", "end"}
      /\ ended = "cap" => taken > ExcerptCap
      /\ ended = "end" => taken = Len(body)
  BY DEF GuestSoFar, Endings
<1>2. ExcerptCap \in Nat /\ Len(body) \in Nat
  BY <1>1, GuestAssumption DEF Bytes
<1> PICK m : m = CutShort.mark
  OBVIOUS
<1> PICK t : t = CutShort.text
  OBVIOUS
<1>3. CASE taken > ExcerptCap
  <2>1. m = "truncated"
    BY <1>3, MarkIs
  <2>2. Len(body) > ExcerptCap
    BY <1>1, <1>2, <1>3
  <2> QED BY <2>1, <2>2
<1>4. CASE ~(taken > ExcerptCap) /\ ended = "error"
  <2>1. (t = <<>> => m = "unreadable") /\ (t # <<>> => m = "interrupted")
    BY <1>4, MarkIs
  <2> QED BY <1>4, <2>1
<1>5. CASE ~(taken > ExcerptCap) /\ ended = "end"
  <2>1. m = "none"
    BY <1>5, MarkIs
  <2>2. Min({taken, ExcerptCap}) = Len(body)
    <3>1. taken \in Nat /\ taken <= ExcerptCap /\ taken = Len(body)
      BY <1>1, <1>2, <1>5
    <3>2. Min({taken, ExcerptCap}) = IF taken <= ExcerptCap THEN taken ELSE ExcerptCap
      BY <1>2, <3>1, MinOfTwo
    <3> QED BY <3>1, <3>2
  <2>3. SubSeq(body, 1, Len(body)) = body
    BY <1>1 DEF Bytes
  <2>4. t = Trim(body)
    BY <2>2, <2>3 DEF CutShort
  <2> QED BY <1>5, <2>1, <2>4
<1> QED BY <1>1, <1>3, <1>4, <1>5

LEMMA ParsesAsOne == GuestSoFar => ChunksParseAsOne
<1> SUFFICES ASSUME GuestSoFar, use = "events" PROVE ChunksParseAsOne
  BY DEF ChunksParseAsOne
<1> PICK text : text = SubSeq(body, 1, taken)
  OBVIOUS
<1> PICK q : q = [parser EXCEPT !.out = <<>>]
  OBVIOUS
<1>1. Parses(text, q, events) /\ parser \in Parser /\ events \in Seq(Event)
  BY DEF GuestSoFar
<1>2. q.spent = parser.spent /\ q.out = <<>>
  BY ONLY <1>1, q = [parser EXCEPT !.out = <<>>] DEF Parser
<1>3. CASE parser.spent
  <2>1. PastACap(text) /\ IsPrefix(events, EventsOf(text))
    BY <1>1, <1>2, <1>3 DEF Parses
  <2> QED BY <1>3, <2>1 DEF ChunksParseAsOne
<1>4. CASE ~parser.spent
  <2>1. ~PastACap(text) /\ events \o <<>> = EventsOf(text)
    BY <1>1, <1>2, <1>4 DEF Parses, Reads
  <2>2. events \o <<>> = events
    BY ONLY <1>1, ConcatEmptySeq
  <2> QED BY <1>4, <2>1, <2>2 DEF ChunksParseAsOne
<1> QED BY <1>3, <1>4

(* A guest reads a body the same however the kernel cuts it: the parser returns the events
   of the text it has, each once and in order, and fails on just what is past a cap; an
   excerpt that is not the body says so (sse.rs, stream.rs), for every cap and length.    *)
THEOREM ChunksNeverMatter == GuestSpec => []ChunksCarryNoMeaning
<1>1. GuestSoFar /\ [GuestNext]_guestVars => GuestSoFar'
  <2>1. GuestSoFar /\ UNCHANGED guestVars => GuestSoFar'
    BY DEF GuestSoFar, guestVars
  <2> QED BY <2>1, FeedKeeps, CollectKeeps DEF GuestNext
<1>2. GuestSoFar => ChunksCarryNoMeaning
  BY ParsesAsOne, ExcerptSays DEF ChunksCarryNoMeaning
<1> QED BY <1>1, <1>2, GuestStarts, PTL DEF GuestSpec
=============================================================================
