------------------------------ MODULE EditTool ------------------------------
(***************************************************************************)
(* The edit tool (tool-edit/src/lib.rs and the steps of its manifest,      *)
(* plugins/tools/edit.json): a read of the whole file, a decision, and a   *)
(* write that looks whether the file still holds what was read and then    *)
(* replaces it, while others write the file too.  The two host steps are   *)
(* kept to what they promise (FsRead, FsWrite).                            *)
(*                                                                         *)
(* A character is a, b or one whose bytes are not UTF-8 (?), which a read  *)
(* shows as a replacement character (r).                                   *)
(***************************************************************************)
EXTENDS Naturals, Sequences, SequencesExt, FiniteSets

CONSTANTS
  ReadMax,     \* READ_MAX_BYTES
  MaxFile,     \* bound: the longest file at the start
  MaxChanges   \* bound: changes the others make

ASSUME EditAssumption == ReadMax \in Nat /\ MaxFile \in Nat /\ MaxChanges \in Nat

VARIABLES
  file,        \* what the file holds, or Absent
  call,        \* the arguments: old, new, replace_all
  at,          \* where the call is
  got,         \* the read step's result
  decided,     \* the decide step's result
  looked,      \* history: what the write saw, and whether the file changed behind its look
  landed,      \* history: what the write replaced, and by what
  outcome,     \* how the call was answered
  changes      \* how often the others changed the file

editVars == <<file, call, at, got, decided, looked, landed, outcome, changes>>

Absent == <<"absent">>
Texts(chars, n) == UNION {[1..k -> chars] : k \in 0..n}

NotRead == [outcome |-> "none", content |-> <<>>, truncated |-> FALSE, lossy |-> FALSE]
Refuse == [write |-> FALSE, content |-> <<>>, count |-> 0]
NotLooked == [text |-> Absent, late |-> FALSE]
NotLanded == [before |-> Absent, after |-> Absent]

EditInit ==
  /\ file \in {Absent} \cup Texts({"a", "b"}, MaxFile) \cup Texts({"a", "?"}, 2)
  /\ call \in [old: Texts({"a", "b"}, 2), new: {<<>>, <<"b">>, <<"a", "a">>}, replace_all: BOOLEAN]
  /\ at = "read"
  /\ got = NotRead /\ decided = Refuse
  /\ looked = NotLooked /\ landed = NotLanded
  /\ outcome = "none"
  /\ changes = 0

-----------------------------------------------------------------------------
(* The read step: the whole file or its first ReadMax bytes, a miss, or an error, the
   token's and the operator's no among them, which ends the call.                     *)
Shown(text) == [i \in DOMAIN text |-> IF text[i] = "?" THEN "r" ELSE text[i]]

Settled(what) == at' = "done" /\ outcome' = what

Read ==
  /\ at = "read"
  /\ \/ /\ file # Absent
        /\ LET kept == SubSeq(file, 1, IF Len(file) > ReadMax THEN ReadMax ELSE Len(file))
           IN  got' = [outcome |-> "ok", content |-> Shown(kept), truncated |-> kept # file,
                       lossy |-> Contains(kept, "?")]
        /\ at' = "decide" /\ UNCHANGED outcome
     \/ got' = [NotRead EXCEPT !.outcome = "missed"] /\ at' = "decide" /\ UNCHANGED outcome
     \/ Settled("failed") /\ UNCHANGED got
  /\ UNCHANGED <<file, call, decided, looked, landed, changes>>

-----------------------------------------------------------------------------
(* decide *)

Finds(text, old, i) == i + Len(old) <= Len(text) + 1 /\ SubSeq(text, i, i + Len(old) - 1) = old

(* Where a scan from the left finds old: each find goes on `step` further. *)
Found(text, old, step) ==
  LET from[i \in 1..(Len(text) + 1 + step)] ==
        IF i > Len(text) THEN <<>>
        ELSE IF Finds(text, old, i) THEN <<i>> \o from[i + step]
        ELSE from[i + 1]
  IN  from[1]

(* Mutant: a match that overlaps the last one is not counted. *)
overlapping_count_Apart(text, old) == Len(Found(text, old, Len(old)))

overlapping_count(text, old) == Len(Found(text, old, 1))

(* str::replacen: the first `most` finds, none overlapping. *)
replacen(text, old, new, most) ==
  LET finds == Found(text, old, Len(old))
      used == SubSeq(finds, 1, IF most < Len(finds) THEN most ELSE Len(finds))
      from[i \in 1..(Len(text) + 1 + Len(old))] ==
        IF i > Len(text) THEN <<>>
        ELSE IF Contains(used, i) THEN new \o from[i + Len(old)]
        ELSE <<text[i]>> \o from[i + 1]
  IN  from[1]

decide(read, old, new, replace_all) ==
  LET text == read.content
      n == IF replace_all THEN Len(Found(text, old, Len(old))) ELSE overlapping_count(text, old)
  IN  IF \/ old = <<>> \/ old = new
         \/ read.outcome # "ok" \/ read.truncated \/ read.lossy
         \/ n = 0 \/ (n > 1 /\ ~replace_all)
      THEN Refuse
      ELSE [write |-> TRUE, count |-> n,
            content |-> replacen(text, old, new, IF replace_all THEN Len(text) ELSE 1)]

Decide ==
  /\ at = "decide"
  /\ decided' = decide(got, call.old, call.new, call.replace_all)
  /\ IF decided'.write THEN at' = "write" /\ UNCHANGED outcome ELSE Settled("refused")
  /\ UNCHANGED <<file, call, got, looked, landed, changes>>

-----------------------------------------------------------------------------
(* The write step, with expect_content.  It goes ahead if the file holds   *)
(* exactly what was read; else, or if it cannot look, the file is let be.  *)
Look ==
  /\ at = "write"
  /\ \/ file = got.content /\ at' = "rename" /\ looked' = [NotLooked EXCEPT !.text = file] /\ UNCHANGED outcome
     \/ (Settled("missed") \/ Settled("failed")) /\ UNCHANGED looked
  /\ UNCHANGED <<file, call, got, decided, landed, changes>>

(* The rename comes behind the look, and replaces what is there by then.   *)
Rename ==
  /\ at = "rename"
  /\ \/ /\ file' = decided.content
        /\ landed' = [before |-> file, after |-> decided.content]
        /\ Settled("replaced")
     \/ (Settled("missed") \/ Settled("failed")) /\ UNCHANGED <<file, landed>>
  /\ UNCHANGED <<call, got, decided, looked, changes>>

(* Others write the file, or remove it. *)
Change ==
  /\ at # "done" /\ changes < MaxChanges
  /\ changes' = changes + 1
  /\ file' \in {Absent, <<"a">>, <<"a", "b">>, <<"?">>} \ {file}
  /\ looked' = [text |-> looked.text, late |-> at = "rename"]
  /\ UNCHANGED <<call, at, got, decided, landed, outcome>>

EditNext == Read \/ Decide \/ Look \/ Rename \/ Change

EditSpec == EditInit /\ [][EditNext]_editVars

-----------------------------------------------------------------------------
(* A text with new at the places S, each for one old, and the rest as it was. *)
Spliced(text, S, old, new) ==
  LET Piece(i) == IF i \in S THEN new
                  ELSE IF \E j \in S : j < i /\ i < j + Len(old) THEN <<>>
                  ELSE <<text[i]>>
  IN  FlattenSeq([i \in 1..Len(text) |-> Piece(i)])

(* An edit rewrites what it was asked to and no more, whatever was read and whoever else
   writes.  What it lands is the whole file as the write saw it but for `old`: at its one
   place, which nothing else there can be taken for, or, with replace_all, at every place
   clear of the ones before.  It says how many, and an answer that is not "replaced"
   leaves the file alone.  What it replaces is the text it saw: "one landing between the
   look and the rename" is the only change it can miss (fs_write).                        *)
EditKeepsTheRest ==
  LET seen == looked.text
      old == call.old
      places == {i \in 1..Len(seen) : Finds(seen, old, i)}
  IN  IF outcome # "replaced" THEN landed = NotLanded
      ELSE /\ landed.before = seen \/ looked.late
           /\ ~Contains(seen, "?")
           /\ \E S \in SUBSET places :
                /\ landed.after = Spliced(seen, S, old, call.new)
                /\ Cardinality(S) = decided.count
                /\ ~call.replace_all => S = places /\ Cardinality(S) = 1
                /\ call.replace_all => \A i \in places :
                     (i \in S) <=> ~\E j \in S : j < i /\ i < j + Len(old)
=============================================================================
