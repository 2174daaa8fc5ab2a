------------------------------ MODULE FsWrite ------------------------------
(***************************************************************************)
(* host_fs.write (gwennol-core/src/steps/fs.rs, dir.rs) among others who   *)
(* change the same directories.  The destination is f in the directory p   *)
(* or p/m.  Its deepest existing ancestor is found and held open before    *)
(* the operator is asked; what is done after the approval is done through  *)
(* that handle.  One system call is one step, and the others may act       *)
(* between any two.                                                        *)
(*                                                                         *)
(* Directories are objects, so that a directory keeps its identity when    *)
(* its name goes.  `out` stands for what the agent has no business in:     *)
(* it stays at the name o, and the others only plant links that lead there.*)
(* The build is the one with directory handles (cfg dir_handles).          *)
(***************************************************************************)
EXTENDS Naturals, Sequences, SequencesExt

CONSTANTS
  New,         \* directories that do not exist yet
  MaxMeddle    \* bound: changes the others make

ASSUME DirAssumption ==
  /\ New \cap {"root", "out", "home"} = {}
  /\ MaxMeddle \in Nat

VARIABLES
  tree,        \* what each directory has at each name
  request,     \* the step's params: path, create_dirs, expect_content
  cancelled,   \* the invocation's token has fired
  pc,          \* where fs_write is
  below,       \* Anchored::below, the destination's own name left out
  path,        \* Anchored::anchor: the name the operator is shown
  held,        \* the handle, and the name it was canonicalised to
  seen,        \* what the look at the destination found
  kept,        \* an answer kept for after the approval
  approved,    \* the path the operator approved
  perms,       \* Prepared::dest_perms
  due,         \* the answer once the temporary is discarded
  answer,      \* what the step returned
  logged,      \* a temporary was left behind, and that was logged
  meddled,     \* how many changes the others made
  late,        \* history: one of them was to f after the last look at it
  swaps        \* history: those on the way to the handle while it was named

anchorVars == <<below, path, held, seen, kept>>
workVars == <<perms, due, logged>>
othersVars == <<meddled, late, swaps>>
vars == <<tree, request, cancelled, pc, anchorVars, approved, workVars, answer, othersVars>>

Dir == {"root", "out", "home"} \cup New
Name == {"p", "o", "m", "f", "t"}     \* t is the temporary's

Mode == {"private", "public"}
Content == {"old", "other", "empty", "part", "new"}

Nothing == [is |-> "nothing"]
Link == [is |-> "link"]               \* to out, or to its f
Special == [is |-> "special"]         \* a FIFO, say
Folder(d) == [is |-> "dir", to |-> d]
File(c, m) == [is |-> "file", holds |-> c, mode |-> m]

Node == {Nothing, Link, Special} \cup [is: {"dir"}, to: Dir]
          \cup [is: {"file"}, holds: Content, mode: Mode]

EmptyDir == [n \in Name |-> Nothing]
OutAtStart == [EmptyDir EXCEPT !["f"] = File("other", "private")]

Error == {"not_found", "not_a_directory"}
Outcome == Error \cup {"ok", "is_directory", "is_symlink", "changed", "permission_denied"}
Answer == Outcome \cup {"failed", "denied", "cancelled"}

Anchoring == {"walk", "open", "name", "verify", "look", "vouch"}
Preparing == {"mkdir", "enter", "classify", "create"}
Filling == {"fill", "filling", "chmod"}
Landing == {"filled", "compare", "rename", "discard"}

TypeOK ==
  /\ tree \in [Dir -> [Name -> Node]]
  /\ request \in [parent: {<<"p">>, <<"p", "m">>}, create: BOOLEAN, expect: BOOLEAN]
  /\ cancelled \in BOOLEAN
  /\ pc \in {"start", "ask", "done"} \cup Anchoring \cup Preparing \cup Filling \cup Landing
  /\ below \in Seq(Name) /\ IsSuffix(below, request.parent)
  /\ path \in Seq(Name)
  /\ held \in [dir: Dir, real: Seq(Name)]
  /\ seen \in Node
  /\ kept \in Outcome \cup {"none"}
  /\ approved \in Seq(Name)
  /\ perms \in Mode \cup {"none"}
  /\ due \in Answer \cup {"none"}
  /\ answer \in Answer \cup {"none"}
  /\ logged \in BOOLEAN
  /\ meddled \in 0..MaxMeddle
  /\ late \in BOOLEAN
  /\ swaps \in 0..MaxMeddle

(* What may stand at p and below it when the step begins. *)
TreeWith(p, m, f) ==
  [d \in Dir |->
     CASE d = "root" -> [EmptyDir EXCEPT !["p"] = p, !["o"] = Folder("out")]
       [] d = "out"  -> OutAtStart
       [] d = "home" -> [EmptyDir EXCEPT !["m"] = m, !["f"] = f]
       [] OTHER      -> EmptyDir]

Trees ==
  { TreeWith(p, m, f) :
      p \in {Nothing, Link, Folder("home")},
      m \in {Nothing, Link} \cup {Folder(d) : d \in New},
      f \in {Nothing, Link, File("old", "private")} }

Init ==
  /\ tree \in Trees
  /\ request \in [parent: {<<"p">>, <<"p", "m">>}, create: BOOLEAN, expect: BOOLEAN]
  /\ cancelled = FALSE
  /\ pc = "start"
  /\ below = <<>>
  /\ path = <<>>
  /\ held = [dir |-> "root", real |-> <<>>]
  /\ seen = Nothing
  /\ kept = "none"
  /\ approved = <<>>
  /\ perms = "none"
  /\ due = "none"
  /\ answer = "none"
  /\ logged = FALSE
  /\ meddled = 0
  /\ late = FALSE
  /\ swaps = 0

-----------------------------------------------------------------------------
(* The file system (external). *)

(* Resolving a name by path follows links; `real` is the canonical name. *)
Enter(w, n) ==
  IF w.err # "none" THEN w
  ELSE LET node == tree[w.at][n]
       IN CASE node.is = "dir"     -> [at |-> node.to, real |-> Append(w.real, n), err |-> "none"]
            [] node.is = "link"    -> [at |-> "out", real |-> <<"o">>, err |-> "none"]
            [] node.is = "nothing" -> [w EXCEPT !.err = "not_found"]
            [] OTHER               -> [w EXCEPT !.err = "not_a_directory"]

Root == [at |-> "root", real |-> <<>>, err |-> "none"]

(* Of at most two names. *)
Walk(names) ==
  CASE Len(names) = 0 -> Root
    [] Len(names) = 1 -> Enter(Root, names[1])
    [] OTHER          -> Enter(Enter(Root, names[1]), names[2])

(* canonicalize: a name may also end at what is no directory. *)
EndsAtFile(names) ==
  /\ names # <<>>
  /\ Walk(Front(names)).err = "none"
  /\ tree[Walk(Front(names)).at][Last(names)].is \in {"file", "special"}

Canonicalised(names) ==
  IF EndsAtFile(names) THEN [Walk(Front(names)) EXCEPT !.real = Append(@, Last(names))]
                       ELSE Walk(names)

At(n) == tree[held.dir][n]

Put(d, n, node) == tree' = [tree EXCEPT ![d][n] = node]

(* A directory nobody has yet. *)
Fresh(d) ==
  /\ d # held.dir
  /\ tree[d] = EmptyDir
  /\ \A e \in Dir, n \in Name : tree[e][n] # Folder(d)

-----------------------------------------------------------------------------
Goto(l) == pc' = l /\ UNCHANGED answer
Return(a) == pc' = "done" /\ answer' = a

NoWrite == UNCHANGED <<tree, workVars>>

(* The params: what must exist cannot be combined with making it. *)
Start ==
  /\ pc = "start"
  /\ IF request.create /\ request.expect THEN Return("failed") ELSE Goto("walk")
  /\ NoWrite
  /\ UNCHANGED <<request, cancelled, anchorVars, approved, othersVars>>

(* The prefix of the parent that anchor() is at. *)
Existing == SubSeq(request.parent, 1, Len(request.parent) - Len(below))

(* split_at_existing: the deepest ancestor that canonicalises. *)
FindAncestor ==
  /\ pc = "walk"
  /\ LET w == Canonicalised(Existing)
     IN IF w.err = "none"
        THEN path' = w.real /\ below' = below /\ Goto("open")
        ELSE path' = path /\ below' = <<Last(Existing)>> \o below /\ Goto("walk")
  /\ NoWrite
  /\ UNCHANGED <<request, cancelled, held, seen, kept, approved, othersVars>>

(* An ancestor that went away meanwhile, or is no directory, is the        *)
(* destination's answer, given after the approval of the name the walk     *)
(* found.                                                                  *)
AncestorGone(err) ==
  /\ kept' = err
  /\ Goto("ask")
  /\ UNCHANGED <<path, held>>

(* Dir::open, Dir::open_canonical *)
OpenAncestor ==
  /\ pc = "open"
  /\ LET w == Walk(Existing)
     IN IF w.err = "none"
        THEN held' = [held EXCEPT !.dir = w.at] /\ Goto("name") /\ UNCHANGED <<path, kept>>
        ELSE AncestorGone(w.err)
  /\ NoWrite
  /\ UNCHANGED <<request, cancelled, below, seen, approved, othersVars>>

NameAncestor ==
  /\ pc = "name"
  /\ LET w == Canonicalised(Existing)
     IN IF w.err = "none"
        THEN held' = [held EXCEPT !.real = w.real] /\ Goto("verify") /\ UNCHANGED <<path, kept>>
        ELSE AncestorGone(w.err)
  /\ NoWrite
  /\ UNCHANGED <<request, cancelled, below, seen, approved, othersVars>>

(* verify_named: the name leads to the very directory that is held. *)
VerifyAncestor ==
  /\ pc = "verify"
  /\ LET w == Walk(held.real)
         named == Canonicalised(held.real)
     IN IF w.err = "none" /\ w.at = held.dir
        THEN path' = held.real /\ Goto("look") /\ UNCHANGED <<held, kept>>
        ELSE IF named.err # "none" THEN AncestorGone(named.err)
        ELSE Return("failed") /\ UNCHANGED <<path, held, kept>>
  /\ NoWrite
  /\ UNCHANGED <<request, cancelled, below, seen, approved, othersVars>>

(* The destination is looked at through the handle, where it can exist; a  *)
(* link there is the answer, after the approval.                           *)
LookAtDestination ==
  /\ pc = "look"
  /\ LET node == IF below = <<>> THEN At("f") ELSE Nothing
     IN /\ seen' = node
        /\ kept' = IF node = Link THEN "is_symlink" ELSE kept
        /\ Goto(IF node \in {Nothing, Link} THEN "ask" ELSE "vouch")
  /\ NoWrite
  /\ UNCHANGED <<request, cancelled, below, path, held, approved, othersVars>>

(* preflight: a name the filesystem will not take, or an error nobody can  *)
(* act on.                                                                 *)
NameRefused ==
  /\ pc = "look"
  /\ Return("failed")
  /\ NoWrite
  /\ UNCHANGED <<request, cancelled, anchorVars, approved, othersVars>>

(***************************************************************************)
(* vouched_name: the path must canonicalise to a name in the anchor that   *)
(* is the very file the look found.  Its two calls are one step here: what *)
(* could change between them is what could change before the first.        *)
(***************************************************************************)
VouchName ==
  /\ pc = "vouch"
  /\ LET w == Walk(request.parent)
         node == tree[w.at]["f"]
         real == IF node = Link THEN <<"o">> ELSE w.real
     IN CASE w.err = "not_found" \/ (w.err = "none" /\ node = Nothing) -> Goto("ask")
          [] w.err = "not_a_directory" -> Return("failed")
          [] w.err = "none" /\ node # Nothing ->
               IF real # path \/ At("f") \notin {Nothing, seen}
               THEN Return("failed") ELSE Goto("ask")
  /\ NoWrite
  /\ UNCHANGED <<request, cancelled, anchorVars, approved, othersVars>>

(* Up to the answer the token is raced, and nothing was done. *)
CutBeforeWork ==
  /\ pc \in Anchoring \cup {"ask"}
  /\ cancelled
  /\ Return("cancelled")
  /\ NoWrite
  /\ UNCHANGED <<request, cancelled, anchorVars, approved, othersVars>>

(* Where the descent goes on. *)
Descent(names) ==
  IF names = <<>> THEN "classify" ELSE IF request.create THEN "mkdir" ELSE "enter"

Allow ==
  /\ pc = "ask"
  /\ ~cancelled
  /\ approved' = path \o below \o <<"f">>
  /\ IF kept # "none" THEN Return(kept) ELSE Goto(Descent(below))
  /\ NoWrite
  /\ UNCHANGED <<request, cancelled, anchorVars, othersVars>>

Deny ==
  /\ pc = "ask"
  /\ ~cancelled
  /\ Return("denied")
  /\ NoWrite
  /\ UNCHANGED <<request, cancelled, anchorVars, approved, othersVars>>

-----------------------------------------------------------------------------
(* prepare: everything relative to the anchor.                             *)

(* The system may refuse any of it; that is the answer. *)
PrepareRefused ==
  /\ pc \in Preparing
  /\ Return("permission_denied")
  /\ NoWrite
  /\ UNCHANGED <<request, cancelled, anchorVars, approved, othersVars>>

(* What is already there is left to the descent. *)
MakeDir ==
  /\ pc = "mkdir"
  /\ IF At(Head(below)) = Nothing
     THEN \E d \in New : Fresh(d) /\ Put(held.dir, Head(below), Folder(d))
     ELSE UNCHANGED tree
  /\ Goto("enter")
  /\ UNCHANGED <<request, cancelled, anchorVars, approved, workVars, othersVars>>

(* Mutant: the descent follows links. *)
EnterDir_Follows ==
  /\ pc = "enter"
  /\ LET node == At(Head(below))
     IN CASE node.is \in {"dir", "link"} ->
               /\ held' = [held EXCEPT !.dir = IF node.is = "dir" THEN node.to ELSE "out"]
               /\ below' = Tail(below)
               /\ Goto(Descent(Tail(below)))
          [] node.is = "nothing" -> Return("not_found") /\ UNCHANGED <<held, below>>
          [] OTHER -> Return("not_a_directory") /\ UNCHANGED <<held, below>>
  /\ NoWrite
  /\ UNCHANGED <<request, cancelled, path, seen, kept, approved, othersVars>>

(* Dir::open_child: no link is followed. *)
EnterDir ==
  /\ pc = "enter"
  /\ LET node == At(Head(below))
     IN CASE node.is = "dir" ->
               /\ held' = [held EXCEPT !.dir = node.to]
               /\ below' = Tail(below)
               /\ Goto(Descent(Tail(below)))
          [] node.is = "nothing" -> Return("not_found") /\ UNCHANGED <<held, below>>
          [] node.is \notin {"dir", "nothing"} ->
               Return("not_a_directory") /\ UNCHANGED <<held, below>>
  /\ NoWrite
  /\ UNCHANGED <<request, cancelled, path, seen, kept, approved, othersVars>>

(* Whether a file is replaced, and what it allowed. *)
Classify ==
  /\ pc = "classify"
  /\ LET node == At("f")
     IN CASE node.is = "dir"  -> Return("is_directory") /\ UNCHANGED perms
          [] node.is = "link" -> Return("is_symlink") /\ UNCHANGED perms
          [] node.is \notin {"dir", "link"} ->
               /\ perms' = CASE node = Nothing -> "none"
                             [] node = Special -> "public"
                             [] node.is = "file" -> node.mode
               /\ Goto("create")
  /\ UNCHANGED <<tree, request, cancelled, anchorVars, approved, due, logged, othersVars>>

(* create_temp_in: born 0600 when a file is replaced. *)
CreateTemp ==
  /\ pc = "create"
  /\ Put(held.dir, "t", File("empty", IF perms = "none" THEN "public" ELSE "private"))
  /\ Goto("fill")
  /\ UNCHANGED <<request, cancelled, anchorVars, approved, workVars, othersVars>>

-----------------------------------------------------------------------------
(* fill_temp, on the open handle whatever became of its name.              *)

Written(c, m) ==
  IF At("t") = Nothing THEN UNCHANGED tree ELSE Put(held.dir, "t", File(c, m))

TempMode == IF perms = "none" THEN "public" ELSE "private"

WriteSome ==
  /\ pc = "fill"
  /\ Written("part", TempMode)
  /\ Goto("filling")
  /\ UNCHANGED <<request, cancelled, anchorVars, approved, workVars, othersVars>>

WriteRest ==
  /\ pc = "filling"
  /\ Written("new", TempMode)
  /\ Goto(IF perms = "none" THEN "filled" ELSE "chmod")
  /\ UNCHANGED <<request, cancelled, anchorVars, approved, workVars, othersVars>>

SetPermissions ==
  /\ pc = "chmod"
  /\ Written("new", perms)
  /\ Goto("filled")
  /\ UNCHANGED <<request, cancelled, anchorVars, approved, workVars, othersVars>>

DiscardFor(a) == due' = a /\ Goto("discard") /\ UNCHANGED <<tree, perms, logged>>

FillFails ==
  /\ pc \in Filling
  /\ DiscardFor("failed")
  /\ UNCHANGED <<request, cancelled, anchorVars, approved, othersVars>>

(* Mutant: the token returns at once, as before the work. *)
FillCut_Returns ==
  /\ pc \in Filling
  /\ cancelled
  /\ Return("cancelled")
  /\ UNCHANGED <<tree, request, cancelled, anchorVars, approved, workVars, othersVars>>

FillCut ==
  /\ pc \in Filling
  /\ cancelled
  /\ DiscardFor("cancelled")
  /\ UNCHANGED <<request, cancelled, anchorVars, approved, othersVars>>

(* The token is read once more; from here on the write completes. *)
Filled ==
  /\ pc = "filled"
  /\ IF cancelled THEN DiscardFor("cancelled")
     ELSE Goto(IF request.expect THEN "compare" ELSE "rename") /\ NoWrite
  /\ UNCHANGED <<request, cancelled, anchorVars, approved, othersVars>>

-----------------------------------------------------------------------------
(* The last blocking call.                                                 *)

(* Mutant: what the look before the approval saw is good enough. *)
Compare_Stale ==
  /\ pc = "compare"
  /\ IF seen.is = "file" /\ seen.holds = "old" THEN Goto("rename") /\ NoWrite
     ELSE DiscardFor("changed")
  /\ UNCHANGED <<request, cancelled, anchorVars, approved, othersVars>>

(* Dir::holds *)
Compare ==
  /\ pc = "compare"
  /\ IF At("f").is = "file" /\ At("f").holds = "old" THEN Goto("rename") /\ NoWrite
     ELSE DiscardFor("changed")
  /\ UNCHANGED <<request, cancelled, anchorVars, approved, othersVars>>

LandingRefused ==
  /\ pc = "rename" \/ (pc = "compare" /\ At("f") \notin {Nothing, Link})
  /\ DiscardFor("permission_denied")
  /\ UNCHANGED <<request, cancelled, anchorVars, approved, othersVars>>

(* Dir::rename: a temporary that is gone is an error. *)
Rename ==
  /\ pc = "rename"
  /\ CASE At("t") = Nothing -> DiscardFor("failed")
       [] At("t") # Nothing /\ At("f").is = "dir" -> DiscardFor("is_directory")
       [] At("t") # Nothing /\ At("f").is # "dir" ->
            /\ tree' = [tree EXCEPT ![held.dir]["f"] = At("t"), ![held.dir]["t"] = Nothing]
            /\ Return("ok")
            /\ UNCHANGED workVars
  /\ UNCHANGED <<request, cancelled, anchorVars, approved, othersVars>>

(* discard_temp: a temporary that cannot be removed is logged. *)
Discard ==
  /\ pc = "discard"
  /\ \/ Put(held.dir, "t", Nothing) /\ UNCHANGED logged
     \/ At("t") # Nothing /\ logged' = TRUE /\ UNCHANGED tree
  /\ Return(due)
  /\ UNCHANGED <<request, cancelled, anchorVars, approved, perms, due, othersVars>>

-----------------------------------------------------------------------------
Cancel ==
  /\ ~cancelled /\ pc # "done"
  /\ cancelled' = TRUE
  /\ UNCHANGED <<tree, request, pc, anchorVars, approved, workVars, answer, othersVars>>

(* The others: what may come to stand at a name. *)
Others ==
  { <<"root", "p", node>> : node \in {Nothing, Link, Folder("home"), File("other", "public")} }
    \cup ({"home"} \cup New) \X {"m"} \X
           ({Nothing, Link, File("other", "public")} \cup {Folder(d) : d \in {e \in New : Fresh(e)}})
    \cup ({"home"} \cup New) \X {"f"} \X
           ({Nothing, Link, Special} \cup {File(c, m) : c \in {"old", "other"}, m \in Mode}
              \cup {Folder(d) : d \in {e \in New : Fresh(e)}})
    \cup ({"home", "out"} \cup New) \X {"t"} \X {Nothing}

(* The names the path to the handle leads through. *)
OnTheWay == {<<"root", "p">>, <<"home", "m">>}

Meddle ==
  /\ pc # "done" /\ meddled < MaxMeddle
  /\ \E change \in Others :
       LET d == change[1]
           n == change[2]
       IN /\ tree[d][n] # change[3] /\ ~Fresh(d)
          /\ Put(d, n, change[3])
          /\ late' = (late \/ (pc = "rename" /\ d = held.dir /\ n = "f"))
          /\ swaps' = IF pc \in {"name", "verify"} /\ <<d, n>> \in OnTheWay THEN swaps + 1 ELSE swaps
  /\ meddled' = meddled + 1
  /\ UNCHANGED <<request, cancelled, pc, anchorVars, approved, workVars, answer>>

Anchor ==
  \/ FindAncestor \/ OpenAncestor \/ NameAncestor \/ VerifyAncestor
  \/ LookAtDestination \/ NameRefused \/ VouchName

Prepare == MakeDir \/ EnterDir \/ Classify \/ CreateTemp \/ PrepareRefused

Fill == WriteSome \/ WriteRest \/ SetPermissions \/ FillFails \/ FillCut \/ Filled

Land == Compare \/ LandingRefused \/ Rename \/ Discard

Next ==
  \/ Start \/ Anchor \/ CutBeforeWork \/ Allow \/ Deny \/ Prepare \/ Fill \/ Land
  \/ Cancel \/ Meddle

Spec == Init /\ [][Next]_vars

-----------------------------------------------------------------------------
(***************************************************************************)
(* The operator judges where the bytes land: whatever links the others     *)
(* plant and whenever, a directory that only links lead to is touched only *)
(* under an approval that names it (fs_write, Dir::open_canonical).  The   *)
(* check of the name is one look: a name on the way that was changed and   *)
(* changed back between the open and that look passes it.                  *)
(***************************************************************************)
OutsideIsApproved ==
  tree["out"] # OutAtStart =>
    approved # <<>> /\ (approved[1] = "o" \/ swaps >= 2)

(***************************************************************************)
(* "The destination is never observable half-written", a write that does   *)
(* not answer ok has left it untouched, and every write has removed its    *)
(* temporary or logged it: "a cancelled write either leaves the destination*)
(* untouched with the temporary removed, or completes" (fs_write).  The    *)
(* bytes are never readable beyond what the file they replace allowed, and *)
(* it keeps its permissions (create_temp_in, fill_temp).                   *)
(***************************************************************************)
WholeOrNothing ==
  /\ TypeOK
  /\ \A d \in Dir : tree[d]["f"].is = "file" => tree[d]["f"].holds \notin {"empty", "part"}
  /\ pc = "done" =>
       \A d \in Dir :
         /\ tree[d]["t"] = Nothing \/ logged
         /\ tree[d]["f"].is = "file" /\ tree[d]["f"].holds = "new" => answer = "ok"
  /\ \A d \in Dir :
       /\ tree[d]["t"].is = "file" /\ tree[d]["t"].mode = "public" => perms # "private"
       /\ tree[d]["f"].is = "file" /\ tree[d]["f"].holds = "new"
            => tree[d]["f"].mode = (IF perms = "none" THEN "public" ELSE perms)

(***************************************************************************)
(* With expect_content the file that is replaced is one holding those      *)
(* bytes: a change made while the operator decided is caught, and only one *)
(* landing between the last look and the rename is not.                    *)
(***************************************************************************)
ExpectHonoured ==
  [][request.expect /\ answer # "ok" /\ answer' = "ok" =>
       late \/ (At("f").is = "file" /\ At("f").holds = "old")]_vars
=============================================================================
