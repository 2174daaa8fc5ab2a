------------------------------- MODULE FsRead -------------------------------
(***************************************************************************)
(* host_fs.read and host_fs.list (gwennol-core/src/steps/fs.rs, dir.rs).   *)
(* The path asked for is a link p that others may point elsewhere, and the *)
(* names it leads to may come to name other files, between any two system  *)
(* calls.  What is read is read through a handle opened before the         *)
(* operator is asked.                                                      *)
(*                                                                         *)
(* A byte is a plain one (x), a line feed (n), the head of a two-byte      *)
(* character (h) or its continuation (t).  A line number takes one place   *)
(* ("#") where the code prints seven bytes.                                *)
(***************************************************************************)
EXTENDS Naturals, Sequences, SequencesExt, FiniteSets, FiniteSetsExt

CONSTANTS
  Entry,       \* the names p may lead to
  Inode,       \* what they may name
  Folders,     \* the directories among them
  Pipes,       \* the FIFOs and sockets among them
  Ceiling,     \* READ_BYTES_CEILING
  Caps,        \* the values of max_bytes a call may give
  MaxLine,     \* bound: the lines a call may ask for
  LongestFile, \* bound: the longest file
  MaxMoves     \* bound: changes the others make

ASSUME ReadAssumption ==
  /\ Folders \cup Pipes \subseteq Inode
  /\ Ceiling \in Nat \ {0} /\ Caps \subseteq Nat
  /\ MaxLine \in Nat /\ LongestFile \in Nat /\ MaxMoves \in Nat

VARIABLES
  rop,         \* the step: read or list
  link,        \* where p leads: a name, nowhere, or round in a loop
  named,       \* what each name is the name of
  been,        \* history: everything each name has named
  rpc,         \* where the step is
  rheld,       \* the file or directory the handle holds
  shown,       \* the path the operator is shown
  miss,        \* the outcome of a miss, kept until it is approved
  allowed,     \* history: the operator said yes
  fired,       \* the invocation's token has fired
  moves,       \* how many changes the others made
  text,        \* the bytes of the file
  range,       \* the params of the call
  scan,        \* the locals of read_lines
  reply        \* what the step returned

worldVars == <<link, named, been, moves>>
fileVars == <<text, range, scan>>
readVars == <<rop, worldVars, rpc, rheld, shown, miss, allowed, fired, fileVars, reply>>

Gone == "gone"
Byte == {"x", "n", "h", "t"}
Files == UNION {[1..k -> Byte] : k \in 0..LongestFile}

(* Bound: what a file holds does not depend on how its names moved, so it holds anything
   where nothing else was about, and is empty elsewhere.                                 *)
Held == IF moves = 0 /\ \A e \in Entry : named[e] = rheld THEN Files ELSE {<<>>}

(* Params as they pass validation: lines counted from 1, no limit (0) or at least one
   line, and max_bytes clamped to the ceiling.                                       *)
capped(requested) == Min({requested, Ceiling})
Range1 ==
  [offset: 1..MaxLine, limit: 0..MaxLine, number: BOOLEAN, max: {capped(m) : m \in Caps}]

NotAsked == [outcome |-> "none", content |-> <<>>, truncated |-> FALSE, lossy |-> FALSE]
NoScan == [out |-> <<>>, line |-> 1, kept |-> 0, consumed |-> 0, fresh |-> TRUE]

ReadInit ==
  /\ rop \in {"read", "list"}
  /\ link \in Entry \cup {Gone, "loop"}
  /\ named \in [Entry -> Inode \cup {Gone}]
  /\ been = [e \in Entry |-> {named[e]}]
  /\ rpc = "start"
  /\ rheld = Gone /\ shown = Gone /\ miss = "none"
  /\ allowed = FALSE /\ fired = FALSE
  /\ moves = 0
  /\ text = <<>>
  /\ range = [offset |-> 1, limit |-> 0, number |-> FALSE, max |-> 1]
  /\ scan = NoScan
  /\ reply = NotAsked

-----------------------------------------------------------------------------
(* The step's answers. *)

Answered(what) ==
  /\ rpc' = "done"
  /\ reply' = [NotAsked EXCEPT !.outcome = what]

(* A miss is an answer the model can act on: the operator sees the probe first. *)
Missed(outcome) ==
  /\ miss' = outcome
  /\ rpc' = "probe"
  /\ UNCHANGED reply

Target == IF link \in Entry THEN named[link] ELSE Gone

(* Params that do not pass fail the step before anything is opened. *)
Start ==
  /\ rpc = "start"
  /\ \/ rpc' = "open" /\ UNCHANGED reply
     \/ Answered("failed")
  /\ UNCHANGED <<rop, worldVars, rheld, shown, miss, allowed, fired, fileVars>>

(* A FIFO or a socket is refused outright; a loop is an error nobody can act on; a file is
   no directory to list.                                                               *)
Open ==
  /\ rpc = "open" /\ ~fired
  /\ \/ link = "loop" /\ Answered("failed") /\ UNCHANGED <<rheld, miss>>
     \/ link # "loop" /\ Target = Gone /\ Missed("not_found") /\ UNCHANGED rheld
     \/ Target # Gone /\ Missed("permission_denied") /\ UNCHANGED rheld
     \/ Target # Gone /\ rop = "list" /\ Target \notin Folders
          /\ Missed("not_a_directory") /\ UNCHANGED rheld
     \/ rop = "read" /\ Target \in Pipes /\ Answered("failed") /\ UNCHANGED <<rheld, miss>>
     \/ /\ Target \in (IF rop = "list" THEN Folders ELSE Inode \ Pipes)
        /\ rheld' = Target
        /\ rpc' = "name"
        /\ UNCHANGED <<miss, reply>>
  /\ UNCHANGED <<rop, worldVars, shown, allowed, fired, fileVars>>

Canonicalize ==
  /\ rpc = "name" /\ ~fired
  /\ \/ link = "loop" /\ Answered("failed") /\ UNCHANGED <<shown, miss>>
     \/ link # "loop" /\ Target = Gone /\ Missed("not_found") /\ UNCHANGED shown
     \/ Target # Gone /\ shown' = link /\ rpc' = "verify" /\ UNCHANGED <<miss, reply>>
  /\ UNCHANGED <<rop, worldVars, rheld, allowed, fired, fileVars>>

(* Mutant: what the path shown names now is not compared with what is held. *)
Verify_Trusting ==
  /\ rpc = "verify" /\ (rop = "list" => ~fired)
  /\ rpc' = "ask"
  /\ UNCHANGED <<rop, worldVars, rheld, shown, miss, allowed, fired, fileVars, reply>>

(* verify_named.  A read fails whatever the check says; for a listing the check belongs to
   the open, whose errors are classified, and which a cut ends.                        *)
Verify ==
  /\ rpc = "verify" /\ (rop = "list" => ~fired)
  /\ \/ named[shown] = rheld /\ rpc' = "ask" /\ UNCHANGED <<miss, reply>>
     \/ named[shown] # rheld /\ (rop = "read" \/ named[shown] # Gone)
          /\ Answered("failed") /\ UNCHANGED miss
     \/ named[shown] = Gone /\ rop = "list" /\ Missed("not_found")
  /\ UNCHANGED <<rop, worldVars, rheld, shown, allowed, fired, fileVars>>

(* canonicalize_missing: canonical if it is there by now and may be reached, else as
   spelled.                                                                            *)
Probe ==
  /\ rpc = "probe" /\ ~fired
  /\ \/ link = "loop" /\ Answered("failed") /\ UNCHANGED shown
     \/ /\ link # "loop"
        /\ shown' \in {IF Target = Gone THEN "p" ELSE link}
                        \cup (IF miss = "permission_denied" THEN {"p"} ELSE {})
        /\ rpc' = "ask"
        /\ UNCHANGED reply
  /\ UNCHANGED <<rop, worldVars, rheld, miss, allowed, fired, fileVars>>

(* or_cancelled, at each checkpoint; and approve, which withdraws the question. *)
CutRead ==
  /\ fired
  /\ \/ rpc \in {"open", "name", "probe", "plain", "lines"}
     \/ rpc \in {"verify", "entries"} /\ rop = "list"
  /\ Answered("cancelled")
  /\ UNCHANGED <<rop, worldVars, rheld, shown, miss, allowed, fired, fileVars>>

WithdrawRead ==
  /\ rpc = "ask" /\ fired
  /\ Answered("withdrawn")
  /\ UNCHANGED <<rop, worldVars, rheld, shown, miss, allowed, fired, fileVars>>

DenyRead ==
  /\ rpc = "ask" /\ ~fired
  /\ Answered("denied")
  /\ UNCHANGED <<rop, worldVars, rheld, shown, miss, allowed, fired, fileVars>>

(* The file's bytes and the range matter from here on. *)
AllowRead ==
  /\ rpc = "ask" /\ ~fired
  /\ allowed' = TRUE
  /\ \/ miss # "none" /\ Answered(miss) /\ UNCHANGED fileVars
     \/ miss = "none" /\ rop = "list" /\ rpc' = "entries" /\ UNCHANGED <<reply, fileVars>>
     \/ /\ miss = "none" /\ rop = "read" /\ rheld \in Folders
        /\ Answered("is_directory")
        /\ UNCHANGED fileVars
     \/ /\ miss = "none" /\ rop = "read" /\ rheld \notin Folders
        /\ text' \in Held /\ range' \in Range1
        /\ rpc' = IF range'.number \/ range'.offset # 1 \/ range'.limit # 0
                  THEN "lines" ELSE "plain"
        /\ UNCHANGED <<scan, reply>>
  /\ UNCHANGED <<rop, worldVars, rheld, shown, miss, fired>>

(* Dir::list through the handle: at most max entries, and whether there were more. *)
ListEntries ==
  /\ rpc = "entries" /\ ~fired
  /\ \E held \in 0..2 :
       /\ rpc' = "done"
       /\ reply' = [NotAsked EXCEPT !.outcome = "ok", !.truncated = held > range.max]
  /\ UNCHANGED <<rop, worldVars, rheld, shown, miss, allowed, fired, fileVars>>

-----------------------------------------------------------------------------
(* lossy_capped: cut back to where a character begins. *)
Boundary(bytes, i) == i = Len(bytes) \/ bytes[i + 1] # "t"

Kept(bytes, max) ==
  IF Len(bytes) <= max THEN bytes
  ELSE SubSeq(bytes, 1, Max({i \in 0..max : i = 0 \/ Boundary(bytes, i)}))

WellFormed(bytes) ==
  \A i \in 1..Len(bytes) :
    /\ bytes[i] = "h" => i < Len(bytes) /\ bytes[i + 1] = "t"
    /\ bytes[i] = "t" => i > 1 /\ bytes[i - 1] = "h"

ReturnBytes(bytes, scanCut) ==
  LET kept == Kept(bytes, range.max)
  IN  /\ reply' = [outcome |-> "ok", content |-> kept, lossy |-> ~WellFormed(kept),
                   truncated |-> Len(bytes) > range.max \/ scanCut]
      /\ rpc' = "done"

(* One byte past the cap tells "exactly the cap" from "truncated". *)
ReadPlain ==
  /\ rpc = "plain" /\ ~fired
  /\ ReturnBytes(SubSeq(text, 1, Min({range.max + 1, Len(text)})), FALSE)
  /\ UNCHANGED <<rop, worldVars, rheld, shown, miss, allowed, fired, fileVars>>

(* Mutant: take() stops at the ceiling itself. *)
Scanned_Exact == Min({Ceiling, Len(text)})

(* What take() lets through. *)
Scanned == Min({Ceiling + 1, Len(text)})

InRange == scan.line >= range.offset /\ (range.limit = 0 \/ scan.kept < range.limit)

(* The locals after one turn of the loop over a chunk of k bytes, which ends at a line
   feed, or where the reader's buffer did.                                           *)
Consumed(k) ==
  LET chunk == SubSeq(text, scan.consumed + 1, scan.consumed + k)
      feed == Last(chunk) = "n"
      number == IF scan.fresh /\ range.number THEN <<"#">> ELSE <<>>
  IN  [out |-> IF InRange THEN scan.out \o number \o chunk ELSE scan.out,
       line |-> IF feed THEN scan.line + 1 ELSE scan.line,
       kept |-> IF feed /\ InRange THEN scan.kept + 1 ELSE scan.kept,
       consumed |-> scan.consumed + k,
       fresh |-> IF feed THEN TRUE ELSE IF InRange THEN FALSE ELSE scan.fresh]

RangeComplete(s) == s.line >= range.offset /\ range.limit # 0 /\ s.kept >= range.limit

ReadChunk ==
  /\ rpc = "lines" /\ ~fired
  /\ \E k \in 1..(Scanned - scan.consumed) :
       LET s == Consumed(k)
           stop == \/ RangeComplete(s)
                   \/ s.consumed > Ceiling
                   \/ InRange /\ Len(s.out) > range.max
       IN  /\ \A i \in 1..(k - 1) : text[scan.consumed + i] # "n"
           /\ scan' = s
           /\ IF ~stop THEN UNCHANGED <<rpc, reply>>
              ELSE IF RangeComplete(s) \/ s.consumed <= Ceiling THEN ReturnBytes(s.out, FALSE)
              ELSE \E probed \in {"more", "end", "error"} :
                     /\ (probed = "more") => Len(text) > s.consumed
                     /\ (probed = "end") => Len(text) = s.consumed
                     /\ ReturnBytes(s.out, probed # "end")
  /\ UNCHANGED <<rop, worldVars, rheld, shown, miss, allowed, fired, text, range>>

EndOfFile ==
  /\ rpc = "lines" /\ ~fired
  /\ scan.consumed = Scanned
  /\ ReturnBytes(scan.out, FALSE)
  /\ UNCHANGED <<rop, worldVars, rheld, shown, miss, allowed, fired, fileVars>>

-----------------------------------------------------------------------------
Fire ==
  /\ ~fired /\ rpc \notin {"start", "done"}
  /\ fired' = TRUE
  /\ UNCHANGED <<rop, worldVars, rpc, rheld, shown, miss, allowed, fileVars, reply>>

(* Others point p elsewhere, or put something else at a name. *)
Move ==
  /\ rpc \in {"open", "name", "verify", "probe"}
  /\ moves < MaxMoves
  /\ moves' = moves + 1
  /\ \/ link' \in (Entry \cup {Gone, "loop"}) \ {link} /\ UNCHANGED <<named, been>>
     \/ \E e \in Entry, i \in Inode \cup {Gone} :
          /\ i # named[e]
          /\ named' = [named EXCEPT ![e] = i]
          /\ been' = [been EXCEPT ![e] = @ \cup {i}]
          /\ UNCHANGED link
  /\ UNCHANGED <<rop, rpc, rheld, shown, miss, allowed, fired, fileVars, reply>>

ReadNext ==
  \/ Start \/ Open \/ Canonicalize \/ Verify \/ Probe
  \/ CutRead \/ WithdrawRead \/ DenyRead \/ AllowRead
  \/ ListEntries \/ ReadPlain \/ ReadChunk \/ EndOfFile
  \/ Fire \/ Move

ReadSpec == ReadInit /\ [][ReadNext]_readVars

-----------------------------------------------------------------------------
(* What a plugin learns of a path it learns after the operator allowed it, and what it is
   given to read was named by the very path the operator was shown: others who move the
   link or the file while it is being opened make the step fail instead.               *)
ReadsWhatWasShown ==
  /\ reply.outcome \in {"ok", "is_directory", "not_found", "not_a_directory",
                        "permission_denied"} => allowed
  /\ reply.outcome \in {"ok", "is_directory"} => rheld \in been[shown]

(* The lines asked for, of the first k bytes of the file. *)
LineOf(bytes, i) == 1 + Cardinality({j \in 1..(i - 1) : bytes[j] = "n"})

Wanted(bytes, r, i) ==
  /\ LineOf(bytes, i) >= r.offset
  /\ r.limit = 0 \/ LineOf(bytes, i) < r.offset + r.limit

Piece(bytes, r, i) ==
  IF ~Wanted(bytes, r, i) THEN <<>>
  ELSE IF r.number /\ (i = 1 \/ bytes[i - 1] = "n") THEN <<"#", bytes[i]>>
  ELSE <<bytes[i]>>

Lines(bytes, r, k) == FlattenSeq([i \in 1..k |-> Piece(bytes, r, i)])

(* A read says what it left out.  One that is not truncated is every line of the range,
   to the last byte; one that is was cut by the cap, or by the scan ceiling with the range
   unfinished and, as far as a last read can tell, the file going on; and a file that is
   text is never answered lossy because of where the cap cut it (the scan ceiling alone may
   still cut a character in two).                                                         *)
HonestAnswer ==
  (rop = "read" /\ reply.outcome = "ok") =>
    LET ended == range.limit # 0 /\ LineOf(text, Scanned + 1) >= range.offset + range.limit
        overCap == Len(Lines(text, range, Scanned)) > range.max
        split == Len(text) > Ceiling /\ ~WellFormed(SubSeq(text, 1, Scanned))
    IN  /\ IsPrefix(reply.content, Lines(text, range, Scanned))
        /\ Len(reply.content) <= range.max
        /\ ~reply.truncated => reply.content = Lines(text, range, Len(text))
        /\ reply.truncated => overCap \/ (Len(text) > Ceiling /\ ~ended)
        /\ (WellFormed(text) /\ reply.lossy) => split /\ ~overCap
=============================================================================
