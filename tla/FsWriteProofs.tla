---------------------------- MODULE FsWriteProofs ----------------------------
(***************************************************************************)
(* What host_fs.write keeps among any number of others' changes and with   *)
(* any number of directories: nothing is done where only links lead to     *)
(* under an approval that does not name it, the destination is replaced    *)
(* whole or not at all, and only while it holds what was expected.         *)
(*                                                                         *)
(* The first is the argument for the handle: what it leads to can differ   *)
(* from what it is called only after two changes on the way to it, one     *)
(* between the open and the naming and one between the naming and the look *)
(* that compares them (HandleIsNamed); from then on no name is resolved    *)
(* but single ones below the handle, and no directory but the root has an  *)
(* entry that is `out` itself (OneNameLeadsOut).                           *)
(***************************************************************************)
EXTENDS FsWrite, SequenceTheorems, TLAPS

Working == Preparing \cup Filling \cup Landing

(* Canonical names a walk may end with. *)
Canonical == {<<>>, <<"p">>, <<"o">>, <<"p", "m">>}

(* A walk that ends in the directory the operator must have named. *)
LeadsOut(names) == Walk(names).err = "none" /\ Walk(names).at = "out"

(* What is still to be looked up is the end of the parent; there is some of *)
(* it left while the descent goes on.                                       *)
Names ==
  /\ request.parent = <<"p">> => below \in {<<>>, <<"p">>}
  /\ request.parent = <<"p", "m">> => below \in {<<>>, <<"m">>, <<"p", "m">>}
  /\ pc \in {"mkdir", "enter"} => below # <<>>
  /\ path \in Canonical /\ held.real \in Canonical

OneNameLeadsOut ==
  /\ \A d \in Dir, n \in Name :
       tree[d][n].is = "dir" /\ tree[d][n].to = "out" => d = "root" /\ n = "o"
  /\ pc \in {"start", "ask"} \cup Anchoring =>
       /\ tree["out"] = OutAtStart
       /\ tree["root"]["p"].is = "dir" => tree["root"]["p"].to = "home"

HandleIsNamed ==
  /\ swaps <= meddled
  /\ pc \in {"start", "walk", "open"} => swaps = 0
  /\ held.dir = "out" =>
       /\ pc = "name" => swaps >= 1 \/ LeadsOut(Existing)
       /\ pc = "verify" =>
            held.real = <<"o">> \/ swaps >= 2 \/ (swaps >= 1 /\ ~LeadsOut(held.real))
       /\ pc \in {"look", "vouch"} \/ (pc = "ask" /\ kept = "none") => path = <<"o">> \/ swaps >= 2
       /\ pc \in Working => approved # <<>> /\ (approved[1] = "o" \/ swaps >= 2)

(* The mode a replaced file had, or that of a new one. *)
FinalMode == IF perms = "none" THEN "public" ELSE perms

(* There is one temporary, in the directory that is held, until it is      *)
(* renamed, or discarded; and it is whole when the token is last read.     *)
Temporary ==
  /\ \A d \in Dir : tree[d]["t"] # Nothing =>
       /\ tree[d]["t"].is = "file"
       /\ logged \/ (d = held.dir /\ pc \in Filling \cup Landing)
  /\ logged => pc = "done"
  /\ pc \in {"filled", "compare", "rename"} =>
       At("t") = Nothing \/ At("t") = File("new", FinalMode)
  /\ pc = "chmod" => perms # "none"

(* Only the rename answers ok, and only it puts the new bytes in place.    *)
Answered ==
  /\ pc = "done" <=> answer # "none"
  /\ kept \in Error \cup {"is_symlink", "none"}
  /\ due # "ok" /\ (pc = "discard" => due # "none")
  /\ \A d \in Dir : tree[d]["f"].is = "file" /\ tree[d]["f"].holds = "new" => answer = "ok"

(* Between the last look at the destination and the rename.                *)
Expected ==
  pc = "rename" /\ request.expect => late \/ (At("f").is = "file" /\ At("f").holds = "old")

IInv ==
  /\ WholeOrNothing /\ OutsideIsApproved
  /\ Names /\ OneNameLeadsOut /\ HandleIsNamed
  /\ Temporary /\ Answered /\ Expected

-----------------------------------------------------------------------------
(* Nodes, and what a change of the tree leaves.                            *)

LEMMA NodeTypes ==
  /\ Nothing \in Node /\ Link \in Node /\ Special \in Node
  /\ Nothing.is = "nothing" /\ Link.is = "link" /\ Special.is = "special"
  /\ \A d \in Dir : Folder(d) \in Node /\ Folder(d).is = "dir" /\ Folder(d).to = d
  /\ \A c \in Content, m \in Mode :
       /\ File(c, m) \in Node /\ File(c, m).is = "file"
       /\ File(c, m).holds = c /\ File(c, m).mode = m
  /\ \A x \in Node : x.is \in {"nothing", "link", "special", "dir", "file"}
  /\ \A x \in Node : x.is = "nothing" => x = Nothing
  /\ \A x \in Node : x.is = "link" => x = Link
  /\ \A x \in Node : x.is = "special" => x = Special
  /\ \A x \in Node : x.is = "dir" => x.to \in Dir
  /\ \A x \in Node : x.is = "file" => x.holds \in Content /\ x.mode \in Mode
BY DEF Node, Nothing, Link, Special, Folder, File

LEMMA DirTypes ==
  /\ "root" \in Dir /\ "out" \in Dir /\ "home" \in Dir /\ New \subseteq Dir
  /\ "root" \notin New /\ "out" \notin New /\ "home" \notin New
  /\ \A n \in {"p", "o", "m", "f", "t"} : n \in Name
BY DirAssumption DEF Dir, Name

LEMMA PutEffect ==
  ASSUME TypeOK, NEW d \in Dir, NEW n \in Name, NEW node \in Node, Put(d, n, node)
  PROVE  /\ tree' \in [Dir -> [Name -> Node]]
         /\ tree'[d][n] = node
         /\ \A e \in Dir, k \in Name : e # d \/ k # n => tree'[e][k] = tree[e][k]
         /\ \A e \in Dir : e # d => tree'[e] = tree[e]
BY DEF TypeOK, Put

LEMMA EmptyDirTypes ==
  /\ EmptyDir \in [Name -> Node] /\ \A n \in Name : EmptyDir[n] = Nothing
  /\ OutAtStart \in [Name -> Node]
  /\ OutAtStart["f"] = File("other", "private")
  /\ \A n \in Name \ {"f"} : OutAtStart[n] = Nothing
<1>1. EmptyDir \in [Name -> Node] /\ \A n \in Name : EmptyDir[n] = Nothing
  BY NodeTypes DEF EmptyDir
<1>2. File("other", "private") \in Node /\ "f" \in Name
  BY NodeTypes, DirTypes DEF Content, Mode
<1> QED
  BY <1>1, <1>2 DEF OutAtStart

-----------------------------------------------------------------------------
(* Walks. *)

Walked == [at: Dir, real: Seq(Name), err: Error \cup {"none"}]

LEMMA EnterTypes ==
  ASSUME TypeOK, NEW w \in Walked, NEW n \in Name
  PROVE  Enter(w, n) \in Walked
<1>1. tree[w.at][n] \in Node
  BY DEF TypeOK, Walked
<1>2. <<"o">> \in Seq(Name) /\ "out" \in Dir
  BY DEF Name, Dir
<1>3. Append(w.real, n) \in Seq(Name)
  BY DEF Walked
<1>4. CASE w.err # "none"
  BY <1>4 DEF Enter
<1>5. CASE w.err = "none" /\ tree[w.at][n].is = "dir"
  BY <1>1, <1>3, <1>5, NodeTypes DEF Enter, Walked
<1>6. CASE w.err = "none" /\ tree[w.at][n].is = "link"
  BY <1>2, <1>6 DEF Enter, Walked
<1>7. CASE w.err = "none" /\ tree[w.at][n].is = "nothing"
  BY <1>7 DEF Enter, Walked, Error
<1>8. CASE w.err = "none" /\ tree[w.at][n].is \notin {"dir", "link", "nothing"}
  BY <1>8 DEF Enter, Walked, Error
<1> QED
  BY <1>4, <1>5, <1>6, <1>7, <1>8

LEMMA RootTypes == Root \in Walked /\ Root.at = "root" /\ Root.real = <<>> /\ Root.err = "none"
BY DirTypes DEF Root, Walked, Error

LEMMA WalkTypes ==
  ASSUME TypeOK, NEW names \in Seq(Name)
  PROVE  Walk(names) \in Walked
<1>1. CASE Len(names) = 0
  BY <1>1, RootTypes DEF Walk
<1>2. CASE Len(names) = 1
  <2>1. names[1] \in Name
    BY <1>2
  <2> QED
    BY <1>2, <2>1, RootTypes, EnterTypes DEF Walk
<1>3. CASE Len(names) # 0 /\ Len(names) # 1
  <2>1. names[1] \in Name /\ names[2] \in Name
    <3> DEFINE l == Len(names)
    <3>1. l \in Nat /\ l # 0 /\ l # 1
      BY <1>3
    <3> HIDE DEF l
    <3>2. 1 \in 1..l /\ 2 \in 1..l
      BY <3>1
    <3>3. \A k \in 1..Len(names) : names[k] \in Name
      OBVIOUS
    <3> QED
      BY <3>2, <3>3 DEF l
  <2>2. Enter(Root, names[1]) \in Walked
    BY <2>1, RootTypes, EnterTypes
  <2>3. Enter(Enter(Root, names[1]), names[2]) \in Walked
    BY <2>1, <2>2, EnterTypes
  <2> QED
    BY <1>3, <2>3 DEF Walk
<1> QED
  BY <1>1, <1>2, <1>3

-----------------------------------------------------------------------------
(* Short sequences of names. *)

LEMMA ShortNames ==
  /\ <<>> \in Seq(Name) /\ <<"p">> \in Seq(Name) /\ <<"m">> \in Seq(Name)
  /\ <<"o">> \in Seq(Name) /\ <<"p", "m">> \in Seq(Name)
  /\ Len(<<>>) = 0 /\ Len(<<"p">>) = 1 /\ Len(<<"m">>) = 1 /\ Len(<<"p", "m">>) = 2
  /\ <<"p">>[1] = "p" /\ <<"m">>[1] = "m" /\ <<"p", "m">>[1] = "p" /\ <<"p", "m">>[2] = "m"
BY DEF Name

(* A name that ends at a file canonicalises to it. *)
LEMMA CanonicalisedTypes ==
  ASSUME TypeOK, NEW names \in {<<>>, <<"p">>, <<"o">>, <<"p", "m">>}
  PROVE  Canonicalised(names) \in Walked
<1>1. Walk(names) \in Walked
  <2>1. names \in Seq(Name)
    BY ShortNames
  <2> QED BY <2>1, WalkTypes
<1>2. CASE EndsAtFile(names)
  <2>1. Front(names) \in Seq(Name) /\ Last(names) \in Name
    <3>1. <<"o">> \in Seq(Name) /\ Len(<<"o">>) = 1 /\ <<"o">>[1] = "o" /\ {"p", "o", "m"} \subseteq Name
      BY DEF Name
    <3>2. names \in Seq(Name) /\ Len(names) \in {1, 2} /\ names[Len(names)] \in Name
      BY <1>2, <3>1, ShortNames DEF EndsAtFile
    <3>3. SubSeq(names, 1, Len(names) - 1) \in Seq(Name)
      BY <3>2
    <3> QED BY <3>2, <3>3 DEF Front, Last
  <2>2. PICK w \in Walked : w = Walk(Front(names))
    BY <2>1, WalkTypes
  <2>3. Append(w.real, Last(names)) \in Seq(Name)
    BY <2>1, <2>2 DEF Walked
  <2>4. [w EXCEPT !.real = Append(w.real, Last(names))] \in Walked
    BY <2>2, <2>3 DEF Walked
  <2> QED BY <1>2, <2>2, <2>4 DEF Canonicalised
<1> QED BY <1>1, <1>2 DEF Canonicalised

LEMMA ShortPrefixes ==
  ASSUME NEW s \in Seq(Name)
  PROVE  /\ SubSeq(s, 1, 0) = <<>> /\ SubSeq(s, 1, Len(s)) = s
         /\ Len(s) >= 1 => SubSeq(s, 1, 1) = <<s[1]>>
<1>1. SubSeq(s, 1, Len(s)) = s
  OBVIOUS
<1>2. SubSeq(s, 1, 0) = <<>>
  <2>1. SubSeq(s, 1, 0) \in Seq(Name) /\ Len(SubSeq(s, 1, 0)) = 0
    OBVIOUS
  <2> QED
    BY <2>1
<1>3. ASSUME Len(s) >= 1
      PROVE  SubSeq(s, 1, 1) = <<s[1]>>
  <2> DEFINE t == SubSeq(s, 1, 1)
             u == <<s[1]>>
  <2>1. t \in Seq(Name) /\ Len(t) = 1 /\ t[1] = s[1]
    BY <1>3
  <2>2. u \in Seq(Name) /\ Len(u) = 1 /\ u[1] = s[1]
    BY <1>3
  <2> HIDE DEF t, u
  <2>3. t = u
    BY <2>1, <2>2, SeqEqual
  <2> QED
    BY <2>3 DEF t, u
<1> QED
  BY <1>1, <1>2, <1>3

LEMMA ParentPrefixes ==
  /\ SubSeq(<<"p">>, 1, 0) = <<>> /\ SubSeq(<<"p">>, 1, 1) = <<"p">>
  /\ SubSeq(<<"p", "m">>, 1, 0) = <<>> /\ SubSeq(<<"p", "m">>, 1, 1) = <<"p">>
  /\ SubSeq(<<"p", "m">>, 1, 2) = <<"p", "m">>
<1>1. SubSeq(<<"p">>, 1, 0) = <<>> /\ SubSeq(<<"p">>, 1, 1) = <<"p">>
  <2> DEFINE s == <<"p">>
  <2>1. s \in Seq(Name) /\ Len(s) = 1
    BY ShortNames
  <2> HIDE DEF s
  <2>2. SubSeq(s, 1, 0) = <<>> /\ SubSeq(s, 1, Len(s)) = s
    BY <2>1, ShortPrefixes
  <2> QED
    BY <2>1, <2>2 DEF s
<1>2. /\ SubSeq(<<"p", "m">>, 1, 0) = <<>> /\ SubSeq(<<"p", "m">>, 1, 1) = <<"p">>
      /\ SubSeq(<<"p", "m">>, 1, 2) = <<"p", "m">>
  <2> DEFINE s == <<"p", "m">>
  <2>1. s \in Seq(Name) /\ Len(s) = 2 /\ s[1] = "p"
    BY ShortNames
  <2> HIDE DEF s
  <2>2. SubSeq(s, 1, 0) = <<>> /\ SubSeq(s, 1, Len(s)) = s
    BY <2>1, ShortPrefixes
  <2>3. SubSeq(s, 1, 1) = <<s[1]>>
    BY <2>1, ShortPrefixes
  <2> QED
    BY <2>1, <2>2, <2>3 DEF s
<1> QED
  BY <1>1, <1>2

LEMMA Joined ==
  /\ <<"p">> \o <<>> = <<"p">> /\ <<"m">> \o <<>> = <<"m">> /\ <<"p">> \o <<"m">> = <<"p", "m">>
  /\ Append(<<"p">>, "m") = <<"p", "m">>
  /\ Last(<<"p">>) = "p" /\ Last(<<"p", "m">>) = "m"
<1>1. <<"p">> \o <<"m">> = <<"p", "m">>
  <2> DEFINE s == <<"p">> \o <<"m">>
             t == <<"p", "m">>
  <2>1. s \in Seq(Name) /\ Len(s) = 2 /\ s[1] = "p" /\ s[2] = "m"
    BY ShortNames
  <2>2. t \in Seq(Name) /\ Len(t) = 2 /\ t[1] = "p" /\ t[2] = "m"
    BY ShortNames
  <2> HIDE DEF s, t
  <2>3. \A k \in 1..2 : s[k] = t[k]
    BY <2>1, <2>2
  <2>4. s = t
    BY <2>1, <2>2, <2>3, SeqEqual
  <2> QED
    BY <2>4 DEF s, t
<1>2. \A s \in Seq(Name) : s \o <<>> = s
  OBVIOUS
<1>3. Append(<<"p">>, "m") = <<"p", "m">>
  <2> DEFINE s == Append(<<"p">>, "m")
             t == <<"p", "m">>
  <2>1. s \in Seq(Name) /\ Len(s) = 2 /\ s[1] = "p" /\ s[2] = "m"
    BY ShortNames DEF Name
  <2>2. t \in Seq(Name) /\ Len(t) = 2 /\ t[1] = "p" /\ t[2] = "m"
    BY ShortNames
  <2> HIDE DEF s, t
  <2>3. \A k \in 1..2 : s[k] = t[k]
    BY <2>1, <2>2
  <2>4. s = t
    BY <2>1, <2>2, <2>3, SeqEqual
  <2> QED
    BY <2>4 DEF s, t
<1>4. Last(<<"p">>) = "p" /\ Last(<<"p", "m">>) = "m"
  BY ShortNames DEF Last
<1> QED
  BY <1>1, <1>2, <1>3, <1>4, ShortNames

LEMMA ReverseNames ==
  ASSUME NEW s \in Seq(Name)
  PROVE  /\ Reverse(s) \in Seq(Name) /\ Len(Reverse(s)) = Len(s)
         /\ Len(s) >= 1 => Reverse(s)[1] = s[Len(s)]
BY DEF Reverse

LEMMA ShortSuffixes ==
  /\ \A s \in Seq(Name) : IsSuffix(<<>>, s) /\ IsSuffix(s, s)
  /\ IsSuffix(<<"m">>, <<"p", "m">>)
<1>1. ASSUME NEW s \in Seq(Name)
      PROVE  IsSuffix(<<>>, s) /\ IsSuffix(s, s)
  <2>1. Reverse(s) \in Seq(Name) /\ Len(Reverse(s)) \in Nat
    BY ReverseNames
  <2>2. Reverse(<<>>) \in Seq(Name) /\ Len(Reverse(<<>>)) = 0
    BY ShortNames, ReverseNames
  <2>3. SubSeq(Reverse(<<>>), 1, 0) = <<>> /\ SubSeq(Reverse(s), 1, 0) = <<>>
    BY <2>1, <2>2, ShortPrefixes
  <2> QED
    BY <2>1, <2>2, <2>3 DEF IsSuffix, IsPrefix
<1>2. IsSuffix(<<"m">>, <<"p", "m">>)
  <2> DEFINE s == Reverse(<<"m">>)
             t == Reverse(<<"p", "m">>)
  <2>1. s \in Seq(Name) /\ Len(s) = 1 /\ s[1] = "m"
    <3> DEFINE a == <<"m">>
    <3>1. a \in Seq(Name) /\ Len(a) = 1 /\ a[1] = "m"
      BY ShortNames
    <3> HIDE DEF a
    <3>2. Reverse(a) \in Seq(Name) /\ Len(Reverse(a)) = 1 /\ Reverse(a)[1] = "m"
      BY <3>1, ReverseNames
    <3> QED
      BY <3>2 DEF a
  <2>2. t \in Seq(Name) /\ Len(t) = 2 /\ t[1] = "m"
    <3> DEFINE a == <<"p", "m">>
    <3>1. a \in Seq(Name) /\ Len(a) = 2 /\ a[2] = "m"
      BY ShortNames
    <3> HIDE DEF a
    <3>2. a \in Seq(Name) /\ Len(a) >= 1
      BY <3>1
    <3>3. Reverse(a) \in Seq(Name) /\ Len(Reverse(a)) = Len(a) /\ Reverse(a)[1] = a[Len(a)]
      BY <3>2, ReverseNames, Zenon
    <3> QED
      BY <3>1, <3>3 DEF a
  <2> HIDE DEF s, t
  <2>3. SubSeq(s, 1, 1) = <<"m">> /\ SubSeq(t, 1, 1) = <<"m">>
    BY <2>1, <2>2, ShortPrefixes
  <2>4. IsPrefix(s, t)
    BY <2>1, <2>2, <2>3 DEF IsPrefix
  <2> QED
    BY <2>4 DEF IsSuffix, s, t
<1> QED
  BY <1>1, <1>2

(* Until the approval a name leads out only by a link on the way.          *)
Before == {"start", "ask"} \cup Anchoring
TreeOK == tree \in [Dir -> [Name -> Node]]
Asking == pc \in Before
WaysOut ==
  /\ ~LeadsOut(<<>>)
  /\ LeadsOut(<<"p">>) <=> tree["root"]["p"].is = "link"
  /\ LeadsOut(<<"p", "m">>) <=> tree["root"]["p"].is = "dir" /\ tree["home"]["m"].is = "link"

LEMMA LeadsOutWhere ==
  TreeOK /\ OneNameLeadsOut /\ Asking =>
    /\ WaysOut
    /\ \A names \in {<<>>, <<"p">>, <<"p", "m">>} : Canonicalised(names).err = "none" =>
         Canonicalised(names).real = IF LeadsOut(names) THEN <<"o">> ELSE names
<1> SUFFICES ASSUME TreeOK, OneNameLeadsOut, Asking
             PROVE  /\ WaysOut
                    /\ \A names \in {<<>>, <<"p">>, <<"p", "m">>} : Canonicalised(names).err = "none" =>
                         Canonicalised(names).real = IF LeadsOut(names) THEN <<"o">> ELSE names
  OBVIOUS
<1> DEFINE p == tree["root"]["p"]
           m == tree["home"]["m"]
           toP == Enter(Root, "p")
           toM == Enter(toP, "m")
<1>1. /\ p \in Node /\ m \in Node /\ (p.is = "dir" => p.to = "home")
      /\ tree["out"]["m"] = Nothing /\ (m.is = "dir" => m.to # "out")
  BY DirTypes, EmptyDirTypes DEF TreeOK, OneNameLeadsOut, Asking, Before
<1>2. Walk(<<>>) = Root /\ Walk(<<"p">>) = toP /\ Walk(<<"p", "m">>) = toM
  BY DEF Walk
<1>3. /\ p.is = "dir" => toP = [at |-> "home", real |-> <<"p">>, err |-> "none"]
      /\ p.is = "link" => toP = [at |-> "out", real |-> <<"o">>, err |-> "none"]
      /\ p.is \notin {"dir", "link"} => toP.err # "none"
  <2>1. CASE p.is = "dir"
    BY <1>1, <2>1 DEF Enter, Root
  <2>2. CASE p.is = "link"
    BY <2>2 DEF Enter, Root
  <2>3. CASE p.is \notin {"dir", "link"}
    BY <2>3 DEF Enter, Root
  <2> QED
    BY <2>1, <2>2, <2>3
<1>4. /\ p.is = "dir" /\ m.is = "dir" =>
           toM.at # "out" /\ toM.real = <<"p", "m">>
      /\ p.is = "dir" /\ m.is = "link" =>
           toM.at = "out" /\ toM.real = <<"o">> /\ toM.err = "none"
      /\ p.is = "dir" /\ m.is \notin {"dir", "link"} => toM.err # "none"
      /\ p.is # "dir" => toM.err # "none"
  <2> HIDE DEF toP
  <2>1. CASE p.is = "dir" /\ m.is = "dir"
    <3>1. toP.at = "home" /\ toP.real = <<"p">> /\ toP.err = "none"
      BY <1>3, <2>1
    <3>2. toM.at = m.to /\ toM.real = Append(<<"p">>, "m")
      BY <2>1, <3>1 DEF Enter
    <3> QED
      BY <1>1, <2>1, <3>2, Joined
  <2>2. CASE p.is = "dir" /\ m.is = "link"
    BY <1>3, <2>2 DEF Enter
  <2>3. CASE p.is = "dir" /\ m.is \notin {"dir", "link"}
    BY <1>3, <2>3 DEF Enter
  <2>4. CASE p.is = "link"
    BY <1>1, <1>3, <2>4, NodeTypes DEF Enter
  <2>5. CASE p.is \notin {"dir", "link"}
    BY <1>3, <2>5 DEF Enter
  <2> QED
    BY <2>1, <2>2, <2>3, <2>4, <2>5
<1> HIDE DEF p, m, toP, toM
<1>5. ~LeadsOut(<<>>) /\ Walk(<<>>).real = <<>>
  BY <1>2 DEF LeadsOut, Root
<1>6. /\ LeadsOut(<<"p">>) <=> p.is = "link"
      /\ Walk(<<"p">>).err = "none" =>
           IF LeadsOut(<<"p">>) THEN Walk(<<"p">>).real = <<"o">> ELSE Walk(<<"p">>).real = <<"p">>
  BY <1>2, <1>3 DEF LeadsOut
<1>7. /\ LeadsOut(<<"p", "m">>) <=> p.is = "dir" /\ m.is = "link"
      /\ Walk(<<"p", "m">>).err = "none" =>
           IF LeadsOut(<<"p", "m">>) THEN Walk(<<"p", "m">>).real = <<"o">>
                                     ELSE Walk(<<"p", "m">>).real = <<"p", "m">>
  BY <1>2, <1>4 DEF LeadsOut
<1>8. ASSUME NEW names \in {<<>>, <<"p">>, <<"p", "m">>}, EndsAtFile(names)
      PROVE  Canonicalised(names).real = names /\ ~LeadsOut(names)
  <2>1. CASE names = <<"p">>
    <3>1. Front(<<"p">>) = <<>> /\ Last(<<"p">>) = "p" /\ Append(<<>>, "p") = <<"p">>
      BY DEF Front, Last
    <3>2. p.is \in {"file", "special"}
      BY <1>2, <1>8, <2>1, <3>1 DEF EndsAtFile, Root, p
    <3>3. Canonicalised(names) = [Root EXCEPT !.real = Append(Root.real, "p")]
      BY <1>2, <1>8, <2>1, <3>1 DEF Canonicalised
    <3>4. Canonicalised(names).real = <<"p">>
      BY <3>1, <3>3 DEF Root
    <3> QED BY <1>6, <2>1, <3>2, <3>4
  <2>2. CASE names = <<"p", "m">>
    <3>1. Front(<<"p", "m">>) = <<"p">> /\ Last(<<"p", "m">>) = "m"
      <4> DEFINE s == <<"p", "m">>
      <4>1. s \in Seq(Name) /\ Len(s) = 2 /\ s[1] = "p" /\ s[2] = "m"
        BY ShortNames
      <4> HIDE DEF s
      <4>2. SubSeq(s, 1, 1) = <<"p">> /\ Len(s) - 1 = 1
        BY <4>1, ShortPrefixes
      <4>3. Front(s) = <<"p">> /\ Last(s) = "m"
        BY <4>1, <4>2 DEF Front, Last
      <4> QED BY <4>3 DEF s
    <3>2. toP.err = "none" /\ tree[toP.at]["m"].is \in {"file", "special"}
      BY <1>2, <1>8, <2>2, <3>1 DEF EndsAtFile
    <3>3. p.is = "dir" /\ toP = [at |-> "home", real |-> <<"p">>, err |-> "none"]
      BY <1>1, <1>3, <3>2, NodeTypes
    <3>4. m.is \in {"file", "special"}
      BY <3>2, <3>3 DEF m
    <3>5. Canonicalised(names) = [toP EXCEPT !.real = Append(toP.real, "m")]
      BY <1>2, <1>8, <2>2, <3>1 DEF Canonicalised
    <3>6. Canonicalised(names).real = <<"p", "m">>
      BY <3>3, <3>5, Joined
    <3> QED BY <1>7, <2>2, <3>4, <3>6
  <2> QED BY <1>8, <2>1, <2>2 DEF EndsAtFile
<1>9. ASSUME NEW names \in {<<>>, <<"p">>, <<"p", "m">>}, Canonicalised(names).err = "none"
      PROVE  Canonicalised(names).real = IF LeadsOut(names) THEN <<"o">> ELSE names
  <2>1. CASE EndsAtFile(names)
    BY <1>8, <2>1
  <2>2. CASE ~EndsAtFile(names)
    <3>1. Canonicalised(names) = Walk(names) /\ Walk(names).err = "none"
      BY <1>9, <2>2 DEF Canonicalised
    <3> QED BY <1>5, <1>6, <1>7, <3>1
  <2> QED BY <2>1, <2>2
<1> QED
  BY <1>5, <1>6, <1>7, <1>9 DEF p, m, WaysOut

(* The prefix of the parent that is looked up. *)
LEMMA ExistingNames ==
  ASSUME TypeOK, Names
  PROVE  /\ Existing \in {<<>>, <<"p">>, <<"p", "m">>}
         /\ below = <<>> => Existing = request.parent
         /\ Existing # <<>> =>
              /\ request.parent = <<"p">> => <<Last(Existing)>> \o below = <<"p">>
              /\ request.parent = <<"p", "m">> =>
                   <<Last(Existing)>> \o below \in {<<"m">>, <<"p", "m">>}
<1>1. CASE request.parent = <<"p">>
  <2>1. CASE below = <<>>
    <3>1. Existing = <<"p">>
      BY <1>1, <2>1, ShortNames, ParentPrefixes DEF Existing
    <3> QED
      BY <1>1, <2>1, <3>1, Joined, ShortNames
  <2>2. CASE below = <<"p">>
    <3>1. Existing = <<>>
      BY <1>1, <2>2, ShortNames, ParentPrefixes DEF Existing
    <3> QED
      BY <2>2, <3>1, ShortNames
  <2> QED
    BY <1>1, <2>1, <2>2 DEF Names
<1>2. CASE request.parent = <<"p", "m">>
  <2>1. CASE below = <<>>
    <3>1. Existing = <<"p", "m">>
      BY <1>2, <2>1, ShortNames, ParentPrefixes DEF Existing
    <3> QED
      BY <1>2, <2>1, <3>1, Joined, ShortNames
  <2>2. CASE below = <<"m">>
    <3>1. Existing = <<"p">>
      BY <1>2, <2>2, ShortNames, ParentPrefixes DEF Existing
    <3> QED
      BY <1>2, <2>2, <3>1, Joined, ShortNames
  <2>3. CASE below = <<"p", "m">>
    <3>1. Existing = <<>>
      BY <1>2, <2>3, ShortNames, ParentPrefixes DEF Existing
    <3> QED
      BY <2>3, <3>1, ShortNames
  <2> QED
    BY <1>2, <2>1, <2>2, <2>3 DEF Names
<1> QED
  BY <1>1, <1>2 DEF TypeOK

(* What Names says is that of the types. *)
LEMMA NamesTypes ==
  ASSUME request.parent \in {<<"p">>, <<"p", "m">>}, Names
  PROVE  below \in Seq(Name) /\ IsSuffix(below, request.parent)
<1>1. CASE request.parent = <<"p">>
  BY <1>1, ShortNames, ShortSuffixes DEF Names
<1>2. CASE request.parent = <<"p", "m">>
  BY <1>2, ShortNames, ShortSuffixes DEF Names
<1> QED
  BY <1>1, <1>2

-----------------------------------------------------------------------------
(* The steps, by what they do to the tree and to the control.              *)

(* Those that put one entry, through the handle.                           *)
Puts == MakeDir \/ CreateTemp \/ WriteSome \/ WriteRest \/ SetPermissions \/ Discard

(* The others: before the approval, and after it. *)
Asks ==
  \/ Start \/ FindAncestor \/ OpenAncestor \/ NameAncestor \/ VerifyAncestor
  \/ LookAtDestination \/ NameRefused \/ VouchName \/ CutBeforeWork \/ Allow \/ Deny

Works ==
  \/ PrepareRefused \/ EnterDir \/ Classify \/ FillFails \/ FillCut \/ Filled
  \/ Compare \/ LandingRefused

LEMMA NextSplit ==
  ASSUME Next
  PROVE  Asks \/ Works \/ Puts \/ Rename \/ Cancel \/ Meddle
BY DEF Next, Anchor, Prepare, Fill, Land, Asks, Works, Puts

LEMMA DescentGoes ==
  ASSUME NEW names
  PROVE  /\ Descent(names) \in {"classify", "mkdir", "enter"}
         /\ Descent(names) \in {"mkdir", "enter"} => names # <<>>
BY DEF Descent

(* The stages a step is taken at, and what it leaves alone. *)
LEMMA AsksKeep ==
  ASSUME TypeOK, Asks
  PROVE  /\ pc \in Before /\ request' = request
         /\ tree' = tree /\ perms' = perms /\ due' = due /\ logged' = logged
         /\ meddled' = meddled /\ late' = late /\ swaps' = swaps
         /\ pc' \in Before \cup {"done", "classify", "mkdir", "enter"}
         /\ pc' \in {"done", "classify", "mkdir", "enter"} =>
              held' = held /\ below' = below /\ kept' = kept /\ path' = path
         /\ pc' \in {"classify", "mkdir", "enter"} => Allow /\ kept = "none"
         /\ approved' = approved \/ Allow
<1>1. CASE VouchName
  <2>1. Walk(request.parent).err \in Error \cup {"none"}
    BY ShortNames, WalkTypes DEF Walked, TypeOK
  <2>2. pc' \in {"ask", "done"}
    BY <1>1, <2>1 DEF VouchName, Error, Goto, Return
  <2> QED
    BY <1>1, <2>2 DEF VouchName, Before, Anchoring, NoWrite, workVars, othersVars, anchorVars
<1>2. CASE VerifyAncestor
  <2>1. \/ pc' = "ask"
        \/ pc' = "look"
        \/ pc' = "done" /\ held' = held /\ kept' = kept /\ path' = path
    BY <1>2 DEF VerifyAncestor, AncestorGone, Goto, Return
  <2> QED
    BY <1>2, <2>1 DEF VerifyAncestor, Before, Anchoring, NoWrite, workVars, othersVars
<1>3. CASE Allow
  BY <1>3, DescentGoes DEF Allow, Before, NoWrite, workVars, othersVars, anchorVars, Goto, Return
<1>4. CASE Start \/ NameRefused \/ CutBeforeWork \/ Deny
  BY <1>4 DEF Start, NameRefused, CutBeforeWork, Deny,
     Before, Anchoring, NoWrite, workVars, othersVars, anchorVars, Goto, Return
<1>5. CASE FindAncestor \/ OpenAncestor \/ NameAncestor \/ LookAtDestination
  BY <1>5 DEF FindAncestor, OpenAncestor, NameAncestor, LookAtDestination, AncestorGone,
     Before, Anchoring, NoWrite, workVars, othersVars, Goto
<1> QED
  BY <1>1, <1>2, <1>3, <1>4, <1>5 DEF Asks

LEMMA WorksKeep ==
  ASSUME Works
  PROVE  /\ pc \in Working /\ request' = request /\ approved' = approved
         /\ tree' = tree /\ logged' = logged
         /\ meddled' = meddled /\ late' = late /\ swaps' = swaps
         /\ path' = path /\ kept' = kept /\ seen' = seen
         /\ EnterDir \/ (held' = held /\ below' = below)
         /\ Classify \/ perms' = perms
         /\ pc' \in Working \cup {"done"}
BY DescentGoes DEF Works, PrepareRefused, EnterDir, Classify, FillFails, FillCut, Filled,
   Compare, LandingRefused, DiscardFor, Working, Preparing, Filling, Landing,
   NoWrite, workVars, othersVars, anchorVars, Goto, Return

LEMMA PutsKeep ==
  ASSUME Puts
  PROVE  /\ pc \in Working /\ request' = request /\ approved' = approved
         /\ perms' = perms /\ due' = due
         /\ meddled' = meddled /\ late' = late /\ swaps' = swaps
         /\ path' = path /\ kept' = kept /\ seen' = seen /\ held' = held /\ below' = below
         /\ pc' \in Working \cup {"done"}
BY DEF Puts, MakeDir, CreateTemp, WriteSome, WriteRest, SetPermissions, Discard,
   Working, Preparing, Filling, Landing,
   workVars, othersVars, anchorVars, Goto, Return

LEMMA RenameKeeps ==
  ASSUME Rename
  PROVE  /\ pc = "rename" /\ request' = request /\ approved' = approved
         /\ perms' = perms /\ logged' = logged
         /\ meddled' = meddled /\ late' = late /\ swaps' = swaps
         /\ path' = path /\ kept' = kept /\ seen' = seen /\ held' = held /\ below' = below
         /\ pc' \in {"discard", "done"}
BY DEF Rename, DiscardFor, workVars, othersVars, anchorVars, Goto, Return

LEMMA OthersKeep ==
  ASSUME Cancel \/ Meddle
  PROVE  /\ pc # "done" /\ pc' = pc /\ answer' = answer
         /\ request' = request /\ approved' = approved
         /\ perms' = perms /\ due' = due /\ logged' = logged
         /\ path' = path /\ kept' = kept /\ seen' = seen /\ held' = held /\ below' = below
         /\ Cancel => tree' = tree /\ meddled' = meddled /\ late' = late /\ swaps' = swaps
BY DEF Cancel, Meddle, workVars, othersVars, anchorVars

(* Where the write puts what.                                              *)
LEMMA PutsWhere ==
  ASSUME IInv, Puts
  PROVE  \/ tree' = tree
         \/ \E n \in {"p", "m", "t"}, node \in Node :
              /\ Put(held.dir, n, node)
              /\ n = "t" => node = Nothing \/ node.is = "file"
              /\ n # "t" => pc = "mkdir" /\ node.is = "dir" /\ node.to \in New
<1>1. TypeOK /\ Names
  BY DEF IInv, WholeOrNothing
<1>2. CASE MakeDir
  <2>1. CASE tree' = tree
    BY <2>1
  <2>2. CASE tree' # tree
    <3>1. PICK d \in New : Put(held.dir, Head(below), Folder(d))
      BY <1>2, <2>2 DEF MakeDir
    <3>2. Head(below) \in {"p", "m"} /\ pc = "mkdir"
      <4>1. below \in {<<"p">>, <<"m">>, <<"p", "m">>}
        BY <1>1, <1>2 DEF Names, MakeDir, TypeOK
      <4> QED
        BY <1>2, <4>1 DEF MakeDir
    <3>3. Folder(d) \in Node /\ Folder(d).is = "dir" /\ Folder(d).to = d
      BY NodeTypes, DirTypes
    <3> QED
      BY <3>1, <3>2, <3>3
  <2> QED
    BY <2>1, <2>2
<1>3. CASE CreateTemp
  <2> DEFINE mode == IF perms = "none" THEN "public" ELSE "private"
  <2>1. File("empty", mode) \in Node /\ File("empty", mode).is = "file"
    BY NodeTypes DEF Content, Mode
  <2>2. Put(held.dir, "t", File("empty", mode))
    BY <1>3 DEF CreateTemp
  <2> QED
    BY <2>1, <2>2
<1>4. ASSUME NEW c \in Content, NEW m \in Mode, Written(c, m)
      PROVE  \/ tree' = tree
             \/ \E node \in Node : Put(held.dir, "t", node) /\ node.is = "file"
  <2>1. File(c, m) \in Node /\ File(c, m).is = "file"
    BY NodeTypes
  <2> QED
    BY <1>4, <2>1 DEF Written
<1>5. TempMode \in Mode /\ "part" \in Content /\ "new" \in Content
  BY DEF TempMode, Mode, Content
<1>6. CASE WriteSome
  BY <1>4, <1>5, <1>6 DEF WriteSome
<1>7. CASE WriteRest
  BY <1>4, <1>5, <1>7 DEF WriteRest
<1>8. CASE SetPermissions
  <2>1. perms \in Mode
    BY <1>8 DEF IInv, WholeOrNothing, TypeOK, Temporary, SetPermissions
  <2> QED
    BY <1>4, <1>5, <1>8, <2>1 DEF SetPermissions
<1>9. CASE Discard
  BY <1>9, NodeTypes DEF Discard
<1> QED
  BY <1>2, <1>3, <1>6, <1>7, <1>8, <1>9 DEF Puts

(* What the others put where. *)
LEMMA MeddleWhere ==
  ASSUME TypeOK, Meddle
  PROVE  /\ meddled < MaxMeddle /\ meddled' = meddled + 1
         /\ \E d \in Dir, n \in Name, node \in Node :
              /\ Put(d, n, node) /\ tree[d][n] # node
              /\ late' = (late \/ (pc = "rename" /\ d = held.dir /\ n = "f"))
              /\ swaps' = IF pc \in {"name", "verify"} /\ <<d, n>> \in OnTheWay THEN swaps + 1 ELSE swaps
              /\ d = "root" => n = "p"
              /\ d = "out" => n = "t"
              /\ n = "t" => node = Nothing
              /\ n = "f" /\ node.is = "file" => node.holds \in {"old", "other"}
              /\ node.is = "dir" => node.to \in New \cup {"home"} /\ (d = "root" => node.to = "home")
<1>1. PICK change \in Others :
        LET d == change[1]
            n == change[2]
        IN /\ tree[d][n] # change[3] /\ ~Fresh(d)
           /\ Put(d, n, change[3])
           /\ late' = (late \/ (pc = "rename" /\ d = held.dir /\ n = "f"))
           /\ swaps' = IF pc \in {"name", "verify"} /\ <<d, n>> \in OnTheWay THEN swaps + 1 ELSE swaps
  BY DEF Meddle
<1> DEFINE d == change[1]
           n == change[2]
           node == change[3]
<1>2. /\ d \in Dir /\ n \in Name /\ node \in Node
      /\ d = "root" => n = "p"
      /\ d = "out" => n = "t"
      /\ n = "t" => node = Nothing
      /\ n = "f" /\ node.is = "file" => node.holds \in {"old", "other"}
      /\ node.is = "dir" => node.to \in New \cup {"home"} /\ (d = "root" => node.to = "home")
  <2>1. CASE change \in { <<"root", "p", x>> : x \in {Nothing, Link, Folder("home"), File("other", "public")} }
    BY <2>1, NodeTypes, DirTypes DEF Content, Mode
  <2>2. CASE change \in ({"home"} \cup New) \X {"m"} \X
           ({Nothing, Link, File("other", "public")} \cup {Folder(e) : e \in {x \in New : Fresh(x)}})
    BY <2>2, NodeTypes, DirTypes DEF Content, Mode
  <2>3. CASE change \in ({"home"} \cup New) \X {"f"} \X
           ({Nothing, Link, Special} \cup {File(c, m) : c \in {"old", "other"}, m \in Mode}
              \cup {Folder(e) : e \in {x \in New : Fresh(x)}})
    BY <2>3, NodeTypes, DirTypes DEF Content
  <2>4. CASE change \in ({"home", "out"} \cup New) \X {"t"} \X {Nothing}
    BY <2>4, NodeTypes, DirTypes
  <2> QED
    BY <2>1, <2>2, <2>3, <2>4 DEF Others
<1>3. meddled < MaxMeddle /\ meddled' = meddled + 1
  BY DEF Meddle
<1> QED
  BY <1>1, <1>2, <1>3

(* What the rename leaves. *)
LEMMA RenameWhere ==
  ASSUME IInv, Rename
  PROVE  \/ tree' = tree /\ pc' = "discard" /\ due' \in {"failed", "is_directory"} /\ answer' = answer
         \/ /\ At("t") = File("new", FinalMode) /\ At("f").is # "dir"
            /\ pc' = "done" /\ answer' = "ok" /\ due' = due
            /\ tree' \in [Dir -> [Name -> Node]]
            /\ tree'[held.dir]["f"] = At("t") /\ tree'[held.dir]["t"] = Nothing
            /\ \A n \in Name \ {"f", "t"} : tree'[held.dir][n] = tree[held.dir][n]
            /\ \A e \in Dir : e # held.dir => tree'[e] = tree[e]
<1>1. CASE At("t") = Nothing \/ At("f").is = "dir"
  BY <1>1 DEF Rename, DiscardFor, Goto
<1>2. CASE At("t") # Nothing /\ At("f").is # "dir"
  <2>1. /\ tree' = [tree EXCEPT ![held.dir]["f"] = At("t"), ![held.dir]["t"] = Nothing]
        /\ pc' = "done" /\ answer' = "ok" /\ due' = due
    BY <1>2 DEF Rename, Return, workVars
  <2>2. held.dir \in Dir /\ At("t") \in Node /\ tree \in [Dir -> [Name -> Node]]
    BY DirTypes DEF IInv, WholeOrNothing, TypeOK, At
  <2>3. At("t") = File("new", FinalMode)
    BY <1>2 DEF IInv, Temporary, Rename
  <2>4. /\ tree' \in [Dir -> [Name -> Node]]
        /\ tree'[held.dir]["f"] = At("t") /\ tree'[held.dir]["t"] = Nothing
        /\ \A n \in Name \ {"f", "t"} : tree'[held.dir][n] = tree[held.dir][n]
        /\ \A e \in Dir : e # held.dir => tree'[e] = tree[e]
    <3> DEFINE h == held.dir
               x == At("t")
               at == tree[h]
    <3>1. h \in Dir /\ x \in Node /\ at \in [Name -> Node] /\ Nothing \in Node
      BY <2>2, NodeTypes
    <3>2. tree' = [tree EXCEPT ![h] = [[at EXCEPT !["f"] = x] EXCEPT !["t"] = Nothing]]
      BY <2>1, <2>2, DirTypes
    <3> HIDE DEF h, x, at
    <3> DEFINE now == [[at EXCEPT !["f"] = x] EXCEPT !["t"] = Nothing]
    <3>3. /\ now \in [Name -> Node] /\ now["f"] = x /\ now["t"] = Nothing
          /\ \A n \in Name \ {"f", "t"} : now[n] = at[n]
      BY <3>1, DirTypes
    <3> HIDE DEF now
    <3>4. /\ tree' \in [Dir -> [Name -> Node]] /\ tree'[h] = now
          /\ \A e \in Dir : e # h => tree'[e] = tree[e]
      BY <2>2, <3>1, <3>2, <3>3 DEF now
    <3> QED
      BY <3>3, <3>4 DEF h, x, at
  <2> QED
    BY <1>2, <2>1, <2>3, <2>4
<1> QED
  BY <1>1, <1>2

-----------------------------------------------------------------------------
(* The parts of the invariant, step by step. *)

(* The stages of each group, and that a step is taken while the write runs. *)
LEMMA Alive ==
  ASSUME IInv, Next
  PROVE  /\ pc # "done" /\ answer = "none" /\ ~logged
         /\ \A d \in Dir : ~(tree[d]["f"].is = "file" /\ tree[d]["f"].holds = "new")
<1>1. TypeOK
  BY DEF IInv, WholeOrNothing
<1>2. pc # "done"
  BY <1>1, NextSplit, AsksKeep, WorksKeep, PutsKeep, RenameKeeps, OthersKeep
     DEF Before, Anchoring, Working, Preparing, Filling, Landing
<1> QED
  BY <1>2 DEF IInv, Answered, Temporary

(* One entry is changed at most, and to a node; or the rename's two. *)
LEMMA TreeStep ==
  ASSUME IInv, Next
  PROVE  tree' \in [Dir -> [Name -> Node]]
<1>1. TypeOK /\ tree \in [Dir -> [Name -> Node]] /\ held.dir \in Dir
  BY DEF IInv, WholeOrNothing, TypeOK
<1>2. CASE Asks \/ Works \/ Cancel
  BY <1>1, <1>2, AsksKeep, WorksKeep, OthersKeep
<1>3. CASE Puts
  BY <1>1, <1>3, PutsWhere, PutEffect, DirTypes
<1>4. CASE Rename
  BY <1>1, <1>4, RenameWhere
<1>5. CASE Meddle
  BY <1>1, <1>5, MeddleWhere, PutEffect
<1> QED
  BY <1>2, <1>3, <1>4, <1>5, NextSplit

LEMMA NamesStep ==
  ASSUME IInv, Next
  PROVE  Names'
<1>1. TypeOK /\ Names /\ OneNameLeadsOut
  BY DEF IInv, WholeOrNothing
<1>2. request' = request /\ request.parent \in {<<"p">>, <<"p", "m">>}
  BY <1>1, NextSplit, AsksKeep, WorksKeep, PutsKeep, RenameKeeps, OthersKeep DEF TypeOK
<1>3. \A names \in {<<>>, <<"p">>, <<"p", "m">>} :
        pc \in Before /\ Canonicalised(names).err = "none" => Canonicalised(names).real \in Canonical
  BY <1>1, LeadsOutWhere DEF Canonical, TypeOK, TreeOK, Asking
<1>4. Existing \in {<<>>, <<"p">>, <<"p", "m">>}
  BY <1>1, ExistingNames
<1>5. CASE FindAncestor
  <2>1. pc \in Before /\ pc' \in {"open", "walk"} /\ held' = held
    BY <1>5 DEF FindAncestor, Before, Anchoring, Goto
  <2>2. CASE Canonicalised(Existing).err = "none"
    <3>1. path' \in Canonical /\ below' = below
      BY <1>3, <1>4, <1>5, <2>1, <2>2 DEF FindAncestor
    <3> QED
      BY <1>1, <1>2, <2>1, <3>1 DEF Names
  <2>3. CASE Canonicalised(Existing).err # "none"
    <3>1. Existing # <<>>
      BY <2>3, ShortNames DEF Canonicalised, EndsAtFile, Walk, Root
    <3>2. path' = path /\ below' = <<Last(Existing)>> \o below
      BY <1>5, <2>3 DEF FindAncestor
    <3> QED
      BY <1>1, <1>2, <2>1, <3>1, <3>2, ExistingNames DEF Names
  <2> QED
    BY <2>2, <2>3
<1>6. CASE NameAncestor
  <2>1. pc \in Before /\ pc' \in {"verify", "ask"} /\ path' = path /\ below' = below
    BY <1>6 DEF NameAncestor, AncestorGone, Before, Anchoring, Goto
  <2>2. held'.real \in Canonical
    <3>1. CASE Canonicalised(Existing).err = "none"
      BY <1>1, <1>3, <1>4, <1>6, <2>1, <3>1 DEF NameAncestor, TypeOK
    <3>2. CASE Canonicalised(Existing).err # "none"
      BY <1>1, <1>6, <3>2 DEF NameAncestor, AncestorGone, Names
    <3> QED
      BY <3>1, <3>2
  <2> QED
    BY <1>1, <1>2, <2>1, <2>2 DEF Names
<1>7. CASE OpenAncestor
  <2>1. /\ pc' \in {"name", "ask"} /\ path' = path /\ below' = below
        /\ held'.real = held.real
    BY <1>1, <1>7 DEF OpenAncestor, AncestorGone, Goto, TypeOK
  <2> QED
    BY <1>1, <1>2, <2>1 DEF Names
<1>8. CASE VerifyAncestor
  <2>1. /\ pc' \in {"look", "ask", "done"} /\ path' \in {path, held.real}
        /\ below' = below /\ held' = held
    BY <1>8 DEF VerifyAncestor, AncestorGone, Goto, Return
  <2> QED
    BY <1>1, <1>2, <2>1 DEF Names
<1>9. CASE Allow
  <2>1. /\ below' = below /\ path' = path /\ held' = held
        /\ pc' = "done" \/ pc' = Descent(below)
    BY <1>9 DEF Allow, anchorVars, Goto, Return
  <2>2. pc' \in {"mkdir", "enter"} => below' # <<>>
    BY <2>1, DescentGoes
  <2> QED
    BY <1>1, <1>2, <2>1, <2>2 DEF Names
<1>10. CASE EnterDir
  <2>1. below # <<>> /\ pc = "enter" /\ path' = path /\ held'.real = held.real
    BY <1>1, <1>10 DEF EnterDir, Names, TypeOK
  <2>2. CASE pc' = "done" /\ below' = below
    BY <1>1, <1>2, <2>1, <2>2 DEF Names
  <2>3. CASE below' = Tail(below) /\ pc' = Descent(Tail(below))
    <3>1. Tail(<<"p">>) = <<>> /\ Tail(<<"m">>) = <<>> /\ Tail(<<"p", "m">>) = <<"m">>
      OBVIOUS
    <3>2. pc' \in {"mkdir", "enter"} => below' # <<>>
      BY <2>3, DescentGoes
    <3> QED
      BY <1>1, <1>2, <2>1, <2>3, <3>1, <3>2 DEF Names
  <2> QED
    BY <1>10, <2>2, <2>3 DEF EnterDir, Goto, Return
<1>11. CASE Start \/ LookAtDestination \/ NameRefused \/ VouchName \/ CutBeforeWork \/ Deny
  <2>1. below' = below /\ path' = path /\ held' = held
    BY <1>11 DEF Start, LookAtDestination, NameRefused, VouchName, CutBeforeWork, Deny, anchorVars
  <2>2. pc' \notin {"mkdir", "enter"}
    <3>1. Asks
      BY <1>11 DEF Asks
    <3>2. pc' \in {"mkdir", "enter"} => pc = "ask"
      BY <1>1, <3>1, AsksKeep DEF Allow
    <3>3. pc = "ask" => pc' = "done"
      BY <1>11 DEF Start, LookAtDestination, NameRefused, VouchName, CutBeforeWork, Deny, Return
    <3> QED
      BY <3>2, <3>3
  <2> QED
    BY <1>1, <1>2, <2>1, <2>2 DEF Names
<1>12. CASE Works /\ ~EnterDir
  <2>1. below' = below /\ path' = path /\ held' = held
    BY <1>12, WorksKeep
  <2>2. pc' \notin {"mkdir", "enter"}
    BY <1>12 DEF Works, PrepareRefused, Classify, FillFails, FillCut, Filled,
       Compare, LandingRefused, DiscardFor, Goto, Return
  <2> QED
    BY <1>1, <1>2, <2>1, <2>2 DEF Names
<1>13. CASE Puts
  <2>1. below' = below /\ path' = path /\ held' = held
    BY <1>13, PutsKeep
  <2>2. (pc = "mkdir" /\ pc' = "enter") \/ pc' \notin {"mkdir", "enter"}
    BY <1>13 DEF Puts, MakeDir, CreateTemp, WriteSome, WriteRest, SetPermissions, Discard,
       Goto, Return
  <2> QED
    BY <1>1, <1>2, <2>1, <2>2 DEF Names
<1>14. CASE Rename
  BY <1>1, <1>2, <1>14, RenameKeeps DEF Names
<1>15. CASE Cancel \/ Meddle
  BY <1>1, <1>2, <1>15, OthersKeep DEF Names
<1> QED
  BY <1>5, <1>6, <1>7, <1>8, <1>9, <1>10, <1>11, <1>12, <1>13, <1>14, <1>15, NextSplit DEF Asks

(* Where the write and the others leave `out` and the way to it alone. *)
LEMMA OutStep ==
  ASSUME IInv, Next
  PROVE  OneNameLeadsOut'
<1>1. TypeOK /\ OneNameLeadsOut /\ held.dir \in Dir /\ (TypeOK => tree \in [Dir -> [Name -> Node]])
  BY DEF IInv, WholeOrNothing, TypeOK
<1> DEFINE Only(d, n) == tree[d][n].is = "dir" /\ tree[d][n].to = "out" => d = "root" /\ n = "o"
<1>2. \A d \in Dir, n \in Name : Only(d, n)
  BY <1>1 DEF OneNameLeadsOut
<1>3. CASE Asks \/ Works \/ Cancel
  <2>1. tree' = tree /\ (pc' \in Before => pc \in Before)
    BY <1>1, <1>3, AsksKeep, WorksKeep, OthersKeep
       DEF Before, Anchoring, Working, Preparing, Filling, Landing
  <2> QED
    BY <1>1, <2>1 DEF OneNameLeadsOut, Before
<1>4. CASE Puts
  <2>1. pc' \notin Before
    BY <1>4, PutsKeep DEF Before, Anchoring, Working, Preparing, Filling, Landing
  <2>2. CASE tree' = tree
    BY <1>1, <2>1, <2>2 DEF OneNameLeadsOut, Before
  <2>3. CASE tree' # tree
    <3>1. PICK n \in {"p", "m", "t"}, node \in Node :
            /\ Put(held.dir, n, node)
            /\ n = "t" => node = Nothing \/ node.is = "file"
            /\ n # "t" => pc = "mkdir" /\ node.is = "dir" /\ node.to \in New
      BY <1>4, <2>3, PutsWhere
    <3>2. node.is = "dir" => node.to # "out"
      BY <3>1, NodeTypes, DirTypes
    <3>3. /\ tree'[held.dir][n] = node
          /\ \A e \in Dir, k \in Name : e # held.dir \/ k # n => tree'[e][k] = tree[e][k]
      BY <1>1, <3>1, PutEffect, DirTypes
    <3>4. \A e \in Dir, k \in Name : Only(e, k)'
      BY <1>2, <3>2, <3>3
    <3> QED
      BY <2>1, <3>4 DEF OneNameLeadsOut, Before
  <2> QED
    BY <2>2, <2>3
<1>5. CASE Rename
  <2>1. pc' \notin Before
    BY <1>5, RenameKeeps DEF Before, Anchoring
  <2>2. CASE tree' = tree
    BY <1>1, <2>1, <2>2 DEF OneNameLeadsOut, Before
  <2>3. CASE tree' # tree
    <3>1. At("t").is = "file" /\ Nothing.is = "nothing"
      BY <1>5, <2>3, RenameWhere, NodeTypes DEF File
    <3>2. \A e \in Dir, k \in Name :
            tree'[e][k] = tree[e][k] \/ tree'[e][k] = At("t") \/ tree'[e][k] = Nothing
      BY <1>5, <2>3, RenameWhere
    <3>3. \A e \in Dir, k \in Name : Only(e, k)'
      BY <1>2, <3>1, <3>2
    <3> QED
      BY <2>1, <3>3 DEF OneNameLeadsOut, Before
  <2> QED
    BY <2>2, <2>3
<1>6. CASE Meddle
  <2>1. PICK d \in Dir, n \in Name, node \in Node :
          /\ Put(d, n, node) /\ tree[d][n] # node
          /\ d = "root" => n = "p"
          /\ d = "out" => n = "t"
          /\ n = "t" => node = Nothing
          /\ node.is = "dir" => node.to \in New \cup {"home"} /\ (d = "root" => node.to = "home")
    BY <1>1, <1>6, MeddleWhere
  <2>2. node.is = "dir" => node.to # "out"
    BY <2>1, DirTypes
  <2>3. /\ tree'[d][n] = node
        /\ \A e \in Dir, k \in Name : e # d \/ k # n => tree'[e][k] = tree[e][k]
        /\ \A e \in Dir : e # d => tree'[e] = tree[e]
    BY <1>1, <2>1, PutEffect
  <2>4. \A e \in Dir, k \in Name : Only(e, k)'
    BY <1>2, <2>2, <2>3
  <2>5. pc' = pc
    BY <1>6, OthersKeep
  <2>6. ASSUME pc \in Before
        PROVE  /\ tree'["out"] = OutAtStart
               /\ tree'["root"]["p"].is = "dir" => tree'["root"]["p"].to = "home"
    <3>1. /\ tree["out"] = OutAtStart
          /\ tree["root"]["p"].is = "dir" => tree["root"]["p"].to = "home"
      BY <1>1, <2>6 DEF OneNameLeadsOut, Before
    <3>2. d # "out"
      BY <2>1, <3>1, EmptyDirTypes, DirTypes
    <3> QED
      BY <2>1, <2>3, <3>1, <3>2, DirTypes
  <2> QED
    BY <2>4, <2>5, <2>6 DEF OneNameLeadsOut, Before
<1> QED
  BY <1>3, <1>4, <1>5, <1>6, NextSplit

(* What is done to `out` is done through the handle, or undoes it.         *)
LEMMA OutsideStep ==
  ASSUME IInv, Next, HandleIsNamed'
  PROVE  OutsideIsApproved'
<1>1. TypeOK /\ OneNameLeadsOut /\ held.dir \in Dir /\ OutsideIsApproved /\ HandleIsNamed
  BY DEF IInv, WholeOrNothing, TypeOK
<1>2. swaps \in Nat /\ meddled \in Nat
  BY <1>1, DirAssumption DEF TypeOK
<1>3. CASE Asks
  <2>1. tree'["out"] = OutAtStart
    BY <1>1, <1>3, AsksKeep DEF OneNameLeadsOut, Before
  <2> QED
    BY <2>1 DEF OutsideIsApproved
<1>4. CASE Works \/ Cancel
  BY <1>1, <1>4, WorksKeep, OthersKeep DEF OutsideIsApproved
<1>5. CASE Puts \/ Rename
  <2>1. /\ approved' = approved /\ swaps' = swaps /\ pc \in Working
        /\ held.dir # "out" => tree'["out"] = tree["out"]
    <3>1. CASE Puts
      <4>1. CASE tree' = tree
        BY <3>1, <4>1, PutsKeep
      <4>2. CASE tree' # tree
        <5>1. PICK n \in {"p", "m", "t"}, node \in Node : Put(held.dir, n, node)
          BY <3>1, <4>2, PutsWhere
        <5> QED
          BY <1>1, <3>1, <5>1, PutEffect, DirTypes, PutsKeep
      <4> QED
        BY <4>1, <4>2
    <3>2. CASE Rename
      BY <3>2, RenameKeeps, RenameWhere, DirTypes DEF Working, Landing
    <3> QED
      BY <1>5, <3>1, <3>2
  <2>2. CASE held.dir = "out"
    BY <1>1, <2>1, <2>2 DEF HandleIsNamed, OutsideIsApproved
  <2>3. CASE held.dir # "out"
    BY <1>1, <2>1, <2>3 DEF OutsideIsApproved
  <2> QED
    BY <2>2, <2>3
<1>6. CASE Meddle
  <2>1. PICK d \in Dir, n \in Name, node \in Node :
          /\ Put(d, n, node) /\ tree[d][n] # node
          /\ d = "out" => n = "t"
          /\ n = "t" => node = Nothing
          /\ swaps' = IF pc \in {"name", "verify"} /\ <<d, n>> \in OnTheWay THEN swaps + 1 ELSE swaps
    BY <1>1, <1>6, MeddleWhere
  <2>2. tree'["out"] # OutAtStart => tree["out"] # OutAtStart
    <3>1. CASE d = "out"
      <4>1. tree["out"]["t"] # Nothing
        BY <2>1, <3>1
      <4> QED
        BY <4>1, EmptyDirTypes, DirTypes
    <3>2. CASE d # "out"
      BY <1>1, <2>1, <3>2, PutEffect, DirTypes
    <3> QED
      BY <3>1, <3>2
  <2>3. approved' = approved /\ (swaps >= 2 => swaps' >= 2)
    BY <1>2, <1>6, <2>1, OthersKeep
  <2> QED
    BY <1>1, <2>2, <2>3 DEF OutsideIsApproved
<1> QED
  BY <1>3, <1>4, <1>5, <1>6, NextSplit

(* What the handle leads to is what it is called, or it took two changes.  *)
LEMMA HandleStep ==
  ASSUME IInv, Next, OneNameLeadsOut', TreeOK'
  PROVE  HandleIsNamed'
<1>1. TypeOK /\ Names /\ OneNameLeadsOut /\ HandleIsNamed /\ held.dir \in Dir
  BY DEF IInv, WholeOrNothing, TypeOK
<1>2. swaps \in Nat /\ meddled \in Nat /\ swaps <= meddled
  BY <1>1, DirAssumption DEF TypeOK, HandleIsNamed
<1>3. /\ Existing \in {<<>>, <<"p">>, <<"p", "m">>}
      /\ pc \in Before /\ Canonicalised(Existing).err = "none" =>
           Canonicalised(Existing).real = IF LeadsOut(Existing) THEN <<"o">> ELSE Existing
  BY <1>1, ExistingNames, LeadsOutWhere DEF TypeOK, TreeOK, Asking
<1>4. CASE OpenAncestor
  <2>1. swaps' = swaps /\ meddled' = meddled /\ tree' = tree /\ below' = below
        /\ request' = request /\ pc = "open"
    BY <1>4 DEF OpenAncestor, NoWrite, workVars, othersVars
  <2>2. CASE Walk(Existing).err = "none"
    <3>1. held' = [held EXCEPT !.dir = Walk(Existing).at] /\ pc' = "name"
      BY <1>4, <2>2 DEF OpenAncestor, Goto
    <3>2. held'.dir = "out" => LeadsOut(Existing)
      BY <1>1, <2>2, <3>1 DEF LeadsOut, TypeOK
    <3>3. LeadsOut(Existing)' <=> LeadsOut(Existing)
      BY <2>1 DEF LeadsOut, Existing, Walk, Enter
    <3> QED
      BY <1>2, <2>1, <3>1, <3>2, <3>3 DEF HandleIsNamed, Working, Preparing, Filling, Landing
  <2>3. CASE Walk(Existing).err # "none"
    <3>1. pc' = "ask" /\ kept' # "none"
      BY <1>4, <2>3 DEF OpenAncestor, AncestorGone, Goto
    <3> QED
      BY <1>2, <2>1, <3>1 DEF HandleIsNamed, Working, Preparing, Filling, Landing
  <2> QED
    BY <2>2, <2>3
<1>5. CASE NameAncestor
  <2>1. swaps' = swaps /\ meddled' = meddled /\ tree' = tree /\ pc = "name"
    BY <1>5 DEF NameAncestor, NoWrite, workVars, othersVars
  <2>2. CASE Canonicalised(Existing).err = "none"
    <3>1. held' = [held EXCEPT !.real = Canonicalised(Existing).real] /\ pc' = "verify"
      BY <1>5, <2>2 DEF NameAncestor, Goto
    <3>2. held'.real = Canonicalised(Existing).real /\ held'.dir = held.dir
      BY <1>1, <3>1 DEF TypeOK
    <3>3. held.dir = "out" =>
            held'.real = <<"o">> \/ (swaps >= 1 /\ ~LeadsOut(held'.real))
      BY <1>1, <1>3, <2>1, <2>2, <3>2 DEF HandleIsNamed, Before, Anchoring
    <3>4. LeadsOut(held.real)' <=> LeadsOut(held'.real)
      BY <2>1 DEF LeadsOut, Walk, Enter
    <3> QED
      BY <1>2, <2>1, <3>1, <3>2, <3>3, <3>4 DEF HandleIsNamed, Working, Preparing, Filling, Landing
  <2>3. CASE Canonicalised(Existing).err # "none"
    <3>1. pc' = "ask" /\ kept' # "none"
      BY <1>5, <2>3 DEF NameAncestor, AncestorGone, Goto
    <3> QED
      BY <1>2, <2>1, <3>1 DEF HandleIsNamed, Working, Preparing, Filling, Landing
  <2> QED
    BY <2>2, <2>3
<1>6. CASE VerifyAncestor
  <2>1. swaps' = swaps /\ meddled' = meddled /\ held' = held /\ pc = "verify"
    BY <1>6 DEF VerifyAncestor, AncestorGone, NoWrite, workVars, othersVars
  <2>2. \/ pc' = "ask" /\ kept' # "none"
        \/ pc' = "look" /\ path' = held.real /\ Walk(held.real).err = "none"
             /\ Walk(held.real).at = held.dir
        \/ pc' = "done"
    BY <1>6 DEF VerifyAncestor, AncestorGone, Goto, Return
  <2>3. pc' = "look" /\ held.dir = "out" => path' = <<"o">> \/ swaps >= 2
    BY <1>1, <2>1, <2>2 DEF HandleIsNamed, LeadsOut
  <2> QED
    BY <1>2, <2>1, <2>2, <2>3 DEF HandleIsNamed, Working, Preparing, Filling, Landing
<1>7. CASE LookAtDestination \/ VouchName
  <2>1. swaps' = swaps /\ meddled' = meddled /\ held' = held /\ path' = path
    BY <1>7 DEF LookAtDestination, VouchName, NoWrite, workVars, othersVars, anchorVars
  <2>2. pc \in {"look", "vouch"} /\ pc' \in {"vouch", "ask", "done"}
    <3>1. CASE LookAtDestination
      BY <3>1 DEF LookAtDestination, Goto
    <3>2. CASE VouchName
      BY <1>1, <3>2, AsksKeep, ShortNames, WalkTypes
         DEF VouchName, Error, Goto, Return, Walked, TypeOK
    <3> QED
      BY <1>7, <3>1, <3>2
  <2> QED
    BY <1>1, <1>2, <2>1, <2>2 DEF HandleIsNamed, Working, Preparing, Filling, Landing
<1>8. CASE Start \/ FindAncestor \/ NameRefused \/ CutBeforeWork \/ Deny
  <2>1. /\ swaps' = swaps /\ meddled' = meddled
        /\ pc' = "done" \/ (pc \in {"start", "walk"} /\ pc' \in {"walk", "open"})
    BY <1>8 DEF Start, FindAncestor, NameRefused, CutBeforeWork, Deny, NoWrite,
       workVars, othersVars, Goto, Return
  <2> QED
    BY <1>1, <1>2, <2>1 DEF HandleIsNamed, Working, Preparing, Filling, Landing
<1>9. CASE Allow
  <2>1. /\ swaps' = swaps /\ meddled' = meddled /\ held' = held /\ pc = "ask"
        /\ approved' = path \o below \o <<"f">>
        /\ pc' = "done" \/ (kept = "none" /\ pc' \in {"classify", "mkdir", "enter"})
    BY <1>9, DescentGoes DEF Allow, NoWrite, workVars, othersVars, anchorVars, Goto, Return
  <2>2. approved' # <<>> /\ (path = <<"o">> => approved'[1] = "o")
    <3>1. path \in Seq(Name) /\ below \in Seq(Name) /\ <<"f">> \in Seq(Name) /\ Len(<<"f">>) = 1
      BY <1>1, DirTypes DEF TypeOK
    <3>2. Len(approved') = Len(path) + Len(below) + 1 /\ approved' \in Seq(Name)
      BY <2>1, <3>1
    <3>3. approved' # <<>>
      BY <3>1, <3>2, ShortNames
    <3>4. ASSUME path = <<"o">>
          PROVE  approved'[1] = "o"
      <4>1. Len(path) = 1 /\ path[1] = "o"
        BY <3>4
      <4>2. (path \o below) \in Seq(Name) /\ Len(path \o below) >= 1 /\ (path \o below)[1] = "o"
        <5> DEFINE a == path
                   b == below
        <5>1. a \in Seq(Name) /\ b \in Seq(Name) /\ Len(a) = 1 /\ a[1] = "o" /\ Len(b) \in Nat
          BY <3>1, <4>1
        <5> HIDE DEF a, b
        <5>2. /\ (a \o b) \in Seq(Name) /\ Len(a \o b) = Len(a) + Len(b)
              /\ \A k \in 1..(Len(a) + Len(b)) :
                   (a \o b)[k] = IF k <= Len(a) THEN a[k] ELSE b[k - Len(a)]
          BY <5>1, ConcatProperties, Zenon
        <5>3. (a \o b)[1] = a[1]
          BY <5>1, <5>2
        <5> QED
          BY <5>1, <5>2, <5>3 DEF a, b
      <4> QED
        BY <2>1, <3>1, <4>2
    <3> QED
      BY <3>3, <3>4
  <2> QED
    BY <1>1, <1>2, <2>1, <2>2 DEF HandleIsNamed, Working, Preparing, Filling, Landing
<1>10. CASE EnterDir
  <2>1. /\ swaps' = swaps /\ meddled' = meddled /\ approved' = approved
        /\ pc = "enter" /\ pc' \in {"done", "classify", "mkdir", "enter"}
        /\ held' = held \/ (At(Head(below)).is = "dir"
             /\ held' = [held EXCEPT !.dir = At(Head(below)).to])
    BY <1>10, DescentGoes DEF EnterDir, NoWrite, workVars, othersVars, Goto, Return
  <2>2. Head(below) \in {"p", "m"}
    <3>1. below \in {<<"p">>, <<"m">>, <<"p", "m">>}
      BY <1>1, <2>1 DEF Names, TypeOK
    <3> QED
      BY <3>1
  <2>3. held'.dir = "out" => held.dir = "out"
    BY <1>1, <2>1, <2>2, DirTypes DEF OneNameLeadsOut, At, TypeOK
  <2> QED
    BY <1>1, <1>2, <2>1, <2>3 DEF HandleIsNamed, Working, Preparing, Filling, Landing
<1>11. CASE (Works /\ ~EnterDir) \/ Puts \/ Rename
  <2>1. /\ swaps' = swaps /\ meddled' = meddled /\ approved' = approved /\ held' = held
        /\ pc \in Working /\ pc' \in Working \cup {"done"}
    BY <1>11, WorksKeep, PutsKeep, RenameKeeps DEF Working, Landing
  <2> QED
    BY <1>1, <1>2, <2>1 DEF HandleIsNamed, Working, Preparing, Filling, Landing
<1>12. CASE Cancel
  <2>1. /\ swaps' = swaps /\ meddled' = meddled /\ approved' = approved /\ held' = held
        /\ pc' = pc /\ path' = path /\ kept' = kept /\ tree' = tree /\ below' = below
        /\ request' = request
    BY <1>12, OthersKeep
  <2>2. /\ LeadsOut(Existing)' <=> LeadsOut(Existing)
        /\ LeadsOut(held.real)' <=> LeadsOut(held.real)
    BY <2>1 DEF LeadsOut, Existing, Walk, Enter
  <2> QED
    BY <1>1, <2>1, <2>2 DEF HandleIsNamed
<1>13. CASE Meddle
  <2>1. PICK d \in Dir, n \in Name, node \in Node :
          /\ Put(d, n, node)
          /\ swaps' = IF pc \in {"name", "verify"} /\ <<d, n>> \in OnTheWay THEN swaps + 1 ELSE swaps
    BY <1>1, <1>13, MeddleWhere
  <2>2. /\ meddled' = meddled + 1 /\ approved' = approved /\ held' = held
        /\ pc' = pc /\ path' = path /\ kept' = kept /\ below' = below /\ request' = request
    BY <1>1, <1>13, MeddleWhere, OthersKeep
  <2>3. CASE pc \notin {"name", "verify"}
    BY <1>1, <1>2, <2>1, <2>2, <2>3 DEF HandleIsNamed
  <2>4. CASE pc \in {"name", "verify"} /\ <<d, n>> \in OnTheWay
    <3>1. swaps' = swaps + 1
      BY <2>1, <2>4
    <3> QED
      BY <1>1, <1>2, <2>2, <2>4, <3>1 DEF HandleIsNamed, Working, Preparing, Filling, Landing
  <2>5. CASE pc \in {"name", "verify"} /\ <<d, n>> \notin OnTheWay
    <3>1. swaps' = swaps
      BY <2>1, <2>5
    <3>2. tree'["root"]["p"] = tree["root"]["p"] /\ tree'["home"]["m"] = tree["home"]["m"]
      BY <1>1, <2>1, <2>5, PutEffect, DirTypes DEF OnTheWay
    <3>3. TreeOK /\ Asking /\ Asking'
      BY <1>1, <2>2, <2>5 DEF Asking, Before, Anchoring, TypeOK, TreeOK
    <3>4. WaysOut
      BY <1>1, <3>3, LeadsOutWhere
    <3>5. WaysOut'
      BY <3>3, LeadsOutWhere, PTL
    <3>6. /\ LeadsOut(<<>>)' <=> LeadsOut(<<>>)
          /\ LeadsOut(<<"p">>)' <=> LeadsOut(<<"p">>)
          /\ LeadsOut(<<"p", "m">>)' <=> LeadsOut(<<"p", "m">>)
      BY <3>2, <3>4, <3>5 DEF WaysOut
    <3>7. LeadsOut(Existing)' <=> LeadsOut(Existing)
      <4>1. Existing' = Existing
        BY <2>2 DEF Existing
      <4> QED
        BY <1>3, <3>6, <4>1
    <3>8. held.real # <<"o">> => (LeadsOut(held.real)' <=> LeadsOut(held.real))
      BY <1>1, <2>2, <3>6 DEF Names, Canonical
    <3> QED
      BY <1>1, <1>2, <2>2, <2>5, <3>1, <3>7, <3>8
         DEF HandleIsNamed, Working, Preparing, Filling, Landing
  <2> QED
    BY <2>3, <2>4, <2>5
<1> QED
  BY <1>4, <1>5, <1>6, <1>7, <1>8, <1>9, <1>10, <1>11, <1>12, <1>13, NextSplit DEF Asks

LEMMA TypeStep ==
  ASSUME IInv, Next, TreeOK', Names', HandleIsNamed'
  PROVE  TypeOK'
<1>1. TypeOK /\ Names /\ Answered /\ (pc = "discard" => due # "none")
  BY DEF IInv, WholeOrNothing, Answered
<1>2. request' = request
  BY <1>1, NextSplit, AsksKeep, WorksKeep, PutsKeep, RenameKeeps, OthersKeep
<1>3. tree' \in [Dir -> [Name -> Node]]
  BY DEF TreeOK
<1>4. below' \in Seq(Name) /\ IsSuffix(below', request.parent)
  <2>1. CASE request.parent = <<"p">>
    BY <1>2, <2>1, ShortNames, ShortSuffixes DEF Names
  <2>2. CASE request.parent = <<"p", "m">>
    BY <1>2, <2>2, ShortNames, ShortSuffixes DEF Names
  <2> QED
    BY <1>1, <2>1, <2>2 DEF TypeOK
<1>5. path' \in Seq(Name) /\ held'.real \in Seq(Name)
  BY ShortNames DEF Names, Canonical
<1>6. meddled' \in 0..MaxMeddle /\ swaps' \in 0..MaxMeddle /\ late' \in BOOLEAN
  <2>1. swaps \in Nat /\ meddled \in 0..MaxMeddle /\ late \in BOOLEAN /\ swaps' <= meddled' /\ MaxMeddle \in Nat
    BY <1>1, DirAssumption DEF TypeOK, HandleIsNamed
  <2>2. CASE Meddle
    <3>1. /\ meddled < MaxMeddle /\ meddled' = meddled + 1 /\ swaps' \in {swaps, swaps + 1}
          /\ late' \in BOOLEAN
      BY <1>1, <2>1, <2>2, MeddleWhere
    <3> QED
      BY <2>1, <3>1
  <2>3. CASE ~Meddle
    <3>1. meddled' = meddled /\ swaps' = swaps /\ late' = late
      BY <1>1, <2>3, NextSplit, AsksKeep, WorksKeep, PutsKeep, RenameKeeps, OthersKeep
    <3> QED
      BY <2>1, <3>1
  <2> QED
    BY <2>2, <2>3
<1>7. CASE Asks
  <2>1. Walk(Existing) \in Walked /\ Existing \in Seq(Name) /\ Canonicalised(Existing) \in Walked
    BY <1>1, ExistingNames, ShortNames, WalkTypes, CanonicalisedTypes
  <2>2. Canonicalised(held.real) \in Walked
    BY <1>1, CanonicalisedTypes DEF Names, Canonical
  <2>3. At("f") \in Node /\ Nothing \in Node
    BY <1>1, NodeTypes, DirTypes DEF At, TypeOK
  <2>4. pc' \in {"start", "ask", "done"} \cup Anchoring \cup Preparing
    BY <1>1, <1>7, AsksKeep DEF Before, Preparing
  <2>5. cancelled' \in BOOLEAN /\ perms' = perms /\ due' = due /\ logged' = logged
    <3>1. cancelled' = cancelled
      BY <1>7 DEF Asks, Start, FindAncestor, OpenAncestor, NameAncestor, VerifyAncestor,
         LookAtDestination, NameRefused, VouchName, CutBeforeWork, Allow, Deny
    <3> QED
      BY <1>1, <1>7, <3>1, AsksKeep DEF TypeOK
  <2>6. held' \in [dir: Dir, real: Seq(Name)] /\ kept' \in Outcome \cup {"none"}
    <3>1. CASE OpenAncestor
      BY <1>1, <2>1, <3>1 DEF OpenAncestor, AncestorGone, TypeOK, Walked, Outcome
    <3>2. CASE NameAncestor
      BY <1>1, <2>1, <3>2 DEF NameAncestor, AncestorGone, TypeOK, Walked, Outcome
    <3>3. CASE VerifyAncestor
      <4>1. held' = held /\ (kept' = kept \/ (kept' = Canonicalised(held.real).err /\ kept' # "none"))
        BY <3>3 DEF VerifyAncestor, AncestorGone
      <4> QED
        BY <1>1, <2>2, <4>1 DEF TypeOK, Walked, Outcome
    <3>4. CASE LookAtDestination
      BY <1>1, <3>4 DEF LookAtDestination, TypeOK, Outcome
    <3>5. CASE Start \/ FindAncestor \/ NameRefused \/ VouchName \/ CutBeforeWork \/ Allow \/ Deny
      <4>1. held' = held /\ kept' = kept
        BY <3>5 DEF Start, FindAncestor, NameRefused, VouchName, CutBeforeWork, Allow, Deny, anchorVars
      <4> QED
        BY <1>1, <4>1 DEF TypeOK
    <3> QED
      BY <1>7, <3>1, <3>2, <3>3, <3>4, <3>5 DEF Asks
  <2>7. seen' \in Node
    <3>1. CASE LookAtDestination
      BY <2>3, <3>1 DEF LookAtDestination
    <3>2. CASE ~LookAtDestination
      <4>1. seen' = seen
        BY <1>7, <3>2 DEF Asks, Start, FindAncestor, OpenAncestor, NameAncestor, VerifyAncestor,
           NameRefused, VouchName, CutBeforeWork, Allow, Deny, anchorVars
      <4> QED
        BY <1>1, <4>1 DEF TypeOK
    <3> QED
      BY <3>1, <3>2
  <2>8. approved' \in Seq(Name)
    <3>1. path \in Seq(Name) /\ below \in Seq(Name) /\ <<"f">> \in Seq(Name)
      BY <1>1, DirTypes DEF TypeOK
    <3>2. path \o below \o <<"f">> \in Seq(Name)
      BY <3>1
    <3>3. approved' = approved \/ approved' = path \o below \o <<"f">>
      BY <1>1, <1>7, AsksKeep DEF Allow
    <3> QED
      BY <1>1, <3>2, <3>3 DEF TypeOK
  <2>9. answer' \in Answer \cup {"none"}
    <3>1. CASE Allow
      BY <1>1, <3>1 DEF Allow, Goto, Return, TypeOK, Answer
    <3>2. CASE ~Allow
      <4>1. CASE VouchName
        <5>1. Walk(request.parent).err \in Error \cup {"none"}
          BY <1>1, ShortNames, WalkTypes DEF Walked, TypeOK
        <5> QED
          BY <1>1, <4>1, <5>1 DEF VouchName, Error, Goto, Return, TypeOK, Answer
      <4>2. CASE ~VouchName
        BY <1>1, <1>7, <3>2, <4>2 DEF Asks, Start, FindAncestor, OpenAncestor, NameAncestor,
           VerifyAncestor, LookAtDestination, NameRefused, CutBeforeWork, Deny, AncestorGone,
           Goto, Return, TypeOK, Answer
      <4> QED
        BY <4>1, <4>2
    <3> QED
      BY <3>1, <3>2
  <2> QED
    BY <1>1, <1>2, <1>3, <1>4, <1>5, <1>6, <2>4, <2>5, <2>6, <2>7, <2>8, <2>9 DEF TypeOK
<1>8. CASE Works
  <2>2. At("f") \in Node
    BY <1>1, DirTypes DEF At, TypeOK
  <2>3. /\ pc' \in Working \cup {"done"} /\ logged' = logged /\ approved' = approved
        /\ kept' = kept /\ seen' = seen
    BY <1>8, WorksKeep
  <2>4. cancelled' = cancelled
    BY <1>8 DEF Works, PrepareRefused, EnterDir, Classify, FillFails, FillCut, Filled,
       Compare, LandingRefused
  <2>5. answer' \in Answer \cup {"none"} /\ due' \in Answer \cup {"none"}
    BY <1>1, <1>8 DEF Works, PrepareRefused, EnterDir, Classify, FillFails, FillCut, Filled,
       Compare, LandingRefused, DiscardFor, NoWrite, workVars, Goto, Return, TypeOK, Answer,
       Outcome, Error
  <2>6. perms' \in Mode \cup {"none"}
    <3>1. CASE Classify
      <4> DEFINE x == At("f")
      <4>1. /\ x \in Node
            /\ x.is \in {"dir", "link"} => perms' = perms
            /\ x.is \notin {"dir", "link"} =>
                 perms' = CASE x = Nothing -> "none"
                            [] x = Special -> "public"
                            [] x.is = "file" -> x.mode
        BY <2>2, <3>1 DEF Classify
      <4> HIDE DEF x
      <4>2. CASE x.is \in {"dir", "link"}
        BY <1>1, <4>1, <4>2 DEF TypeOK
      <4>3. CASE x = Nothing
        BY <4>1, <4>3, NodeTypes
      <4>4. CASE x = Special
        <5>1. x # Nothing /\ x.is = "special"
          BY <4>4, NodeTypes
        <5> QED
          BY <4>1, <4>4, <5>1 DEF Mode
      <4>5. CASE x.is = "file"
        <5>1. x # Nothing /\ x # Special /\ x.mode \in Mode
          BY <4>1, <4>5, NodeTypes
        <5> QED
          BY <4>1, <4>5, <5>1
      <4> QED
        BY <4>1, <4>2, <4>3, <4>4, <4>5, NodeTypes
    <3>2. CASE ~Classify
      BY <1>1, <1>8, <3>2, WorksKeep DEF TypeOK
    <3> QED
      BY <3>1, <3>2
  <2>7. held' \in [dir: Dir, real: Seq(Name)]
    <3>1. CASE EnterDir
      <4>1. At(Head(below)) \in Node
        <5>1. below \in {<<"p">>, <<"m">>, <<"p", "m">>}
          BY <1>1, <3>1 DEF Names, TypeOK, EnterDir
        <5>2. Head(below) \in Name
          BY <5>1, DirTypes
        <5> QED
          BY <1>1, <5>2 DEF At, TypeOK
      <4>2. held' = held \/ (At(Head(below)).is = "dir"
              /\ held' = [held EXCEPT !.dir = At(Head(below)).to])
        BY <3>1 DEF EnterDir
      <4> DEFINE x == At(Head(below))
      <4>3. x.is = "dir" => x.to \in Dir
        BY <4>1, NodeTypes
      <4> HIDE DEF x
      <4> QED
        BY <1>1, <4>2, <4>3 DEF TypeOK, x
    <3>2. CASE ~EnterDir
      BY <1>1, <1>8, <3>2, WorksKeep DEF TypeOK
    <3> QED
      BY <3>1, <3>2
  <2> QED
    BY <1>1, <1>2, <1>3, <1>4, <1>5, <1>6, <2>3, <2>4, <2>5, <2>6, <2>7 DEF TypeOK, Working
<1>9. CASE Puts
  <2>1. /\ pc' \in Working \cup {"done"} /\ perms' = perms /\ due' = due /\ approved' = approved
        /\ kept' = kept /\ seen' = seen /\ held' = held
    BY <1>9, PutsKeep
  <2>2. /\ cancelled' = cancelled /\ answer' \in {answer, due} /\ logged' \in BOOLEAN
    BY <1>1, <1>9 DEF Puts, MakeDir, CreateTemp, WriteSome, WriteRest, SetPermissions, Discard,
       workVars, Goto, Return, TypeOK
  <2> QED
    BY <1>1, <1>2, <1>3, <1>4, <1>5, <1>6, <2>1, <2>2 DEF TypeOK, Working
<1>10. CASE Rename
  <2>1. /\ pc' \in {"discard", "done"} /\ perms' = perms /\ logged' = logged
        /\ approved' = approved /\ kept' = kept /\ seen' = seen /\ held' = held
    BY <1>10, RenameKeeps
  <2>2. answer' \in {answer, "ok"} /\ due' \in {due, "failed", "is_directory"}
    BY <1>10, RenameWhere
  <2>3. cancelled' = cancelled
    BY <1>10 DEF Rename
  <2> QED
    BY <1>1, <1>2, <1>3, <1>4, <1>5, <1>6, <2>1, <2>2, <2>3 DEF TypeOK, Landing, Answer, Outcome
<1>11. CASE Cancel \/ Meddle
  <2>1. cancelled' \in BOOLEAN
    BY <1>1, <1>11 DEF Cancel, Meddle, TypeOK
  <2> QED
    BY <1>1, <1>2, <1>3, <1>4, <1>5, <1>6, <1>11, <2>1, OthersKeep DEF TypeOK
<1> QED
  BY <1>7, <1>8, <1>9, <1>10, <1>11, NextSplit

LEMMA WrittenEffect ==
  ASSUME TypeOK, NEW c \in Content, NEW m \in Mode, Written(c, m)
  PROVE  /\ tree'[held.dir]["t"] \in {Nothing, File(c, m)}
         /\ \A e \in Dir, k \in Name : e # held.dir \/ k # "t" => tree'[e][k] = tree[e][k]
<1>1. held.dir \in Dir /\ File(c, m) \in Node /\ "t" \in Name
  BY NodeTypes, DirTypes DEF TypeOK
<1>2. CASE At("t") = Nothing
  BY <1>2 DEF Written, At
<1>3. CASE At("t") # Nothing
  <2>1. Put(held.dir, "t", File(c, m))
    BY <1>3 DEF Written
  <2> QED
    BY <1>1, <2>1, PutEffect
<1> QED
  BY <1>2, <1>3

LEMMA TemporaryStep ==
  ASSUME IInv, Next
  PROVE  Temporary'
<1>1. TypeOK /\ Temporary /\ held.dir \in Dir /\ ~logged
  BY Alive DEF IInv, WholeOrNothing, TypeOK
<1>2. pc \notin Filling \cup Landing => \A d \in Dir : tree[d]["t"] = Nothing
  BY <1>1 DEF Temporary
<1>3. \A d \in Dir : tree[d]["t"] # Nothing =>
        tree[d]["t"].is = "file" /\ d = held.dir /\ pc \in Filling \cup Landing
  BY <1>1 DEF Temporary
<1>4. CASE Asks
  <2>1. /\ pc \notin Filling \cup Landing /\ tree' = tree /\ logged' = logged
        /\ pc' \notin {"filled", "compare", "rename", "chmod"}
    BY <1>1, <1>4, AsksKeep DEF Before, Anchoring, Filling, Landing
  <2> QED
    BY <1>1, <1>2, <2>1 DEF Temporary
<1>5. CASE PrepareRefused \/ EnterDir \/ Classify
  <2>1. pc \notin Filling \cup Landing /\ tree' = tree /\ logged' = logged
    BY <1>5 DEF PrepareRefused, EnterDir, Classify, NoWrite, workVars, Preparing, Filling, Landing
  <2>2. pc' \notin {"filled", "compare", "rename", "chmod"}
    BY <1>5, DescentGoes DEF PrepareRefused, EnterDir, Classify, Goto, Return
  <2> QED
    BY <1>1, <1>2, <2>1, <2>2 DEF Temporary
<1>6. CASE FillFails \/ FillCut \/ Filled \/ Compare \/ LandingRefused
  <2>1. /\ tree' = tree /\ logged' = logged /\ held' = held /\ perms' = perms
        /\ pc' \in Landing /\ pc \in Filling \cup Landing
    BY <1>6 DEF FillFails, FillCut, Filled, Compare, LandingRefused, DiscardFor, NoWrite,
       workVars, anchorVars, Goto, Filling, Landing
  <2>2. pc' \in {"filled", "compare", "rename"} => pc \in {"filled", "compare"}
    BY <1>6 DEF FillFails, FillCut, Filled, Compare, LandingRefused, DiscardFor, Goto
  <2> QED
    BY <1>1, <1>3, <2>1, <2>2 DEF Temporary, FinalMode, At, Landing
<1>7. CASE MakeDir
  <2>1. pc = "mkdir" /\ pc' = "enter" /\ logged' = logged
    BY <1>7 DEF MakeDir, Goto, workVars
  <2>2. \A d \in Dir : tree[d]["t"] = Nothing
    BY <1>2, <2>1 DEF Filling, Landing
  <2>3. \A d \in Dir : tree'[d]["t"] = Nothing
    <3>1. CASE tree' = tree
      BY <2>2, <3>1
    <3>2. CASE tree' # tree
      <4>1. PICK x \in New : Put(held.dir, Head(below), Folder(x))
        BY <1>7, <3>2 DEF MakeDir
      <4>2. Head(below) \in {"p", "m"}
        <5>1. below \in {<<"p">>, <<"m">>, <<"p", "m">>}
          BY <2>1 DEF IInv, WholeOrNothing, Names, TypeOK
        <5> QED
          BY <5>1
      <4>3. \A e \in Dir : tree'[e]["t"] = tree[e]["t"]
        BY <1>1, <4>1, <4>2, PutEffect, DirTypes, NodeTypes
      <4> QED
        BY <2>2, <4>3
    <3> QED
      BY <3>1, <3>2
  <2> QED
    BY <1>1, <2>1, <2>3 DEF Temporary
<1>8. CASE CreateTemp
  <2> DEFINE mode == IF perms = "none" THEN "public" ELSE "private"
             new == File("empty", mode)
  <2>1. pc = "create" /\ pc' = "fill" /\ logged' = logged /\ held' = held
    BY <1>8 DEF CreateTemp, Goto, workVars, anchorVars
  <2>2. \A d \in Dir : tree[d]["t"] = Nothing
    BY <1>2, <2>1 DEF Filling, Landing
  <2>3. new \in Node /\ new.is = "file" /\ Put(held.dir, "t", new)
    BY <1>8, NodeTypes DEF CreateTemp, Content, Mode
  <2> HIDE DEF new
  <2>4. tree'[held.dir]["t"] = new /\ \A e \in Dir : e # held.dir => tree'[e]["t"] = tree[e]["t"]
    BY <1>1, <2>3, PutEffect, DirTypes
  <2> QED
    BY <1>1, <2>1, <2>2, <2>3, <2>4 DEF Temporary, Filling
<1>9. ASSUME NEW c \in Content, NEW m \in Mode, Written(c, m), pc \in Filling, pc' \in Filling \cup {"filled"},
             logged' = logged, held' = held,
             pc' = "filled" => c = "new" /\ m = FinalMode',
             pc' = "chmod" => perms' # "none"
      PROVE  Temporary'
  <2>1. /\ tree'[held.dir]["t"] \in {Nothing, File(c, m)}
        /\ \A e \in Dir : e # held.dir => tree'[e]["t"] = tree[e]["t"]
    BY <1>1, <1>9, WrittenEffect, DirTypes
  <2>2. File(c, m).is = "file"
    BY DEF File
  <2>3. pc' \in Filling \cup Landing /\ pc' \notin {"compare", "rename"}
    BY <1>9 DEF Filling, Landing
  <2>4. \A d \in Dir : tree'[d]["t"] # Nothing =>
          tree'[d]["t"].is = "file" /\ d = held.dir
    BY <1>3, <2>1, <2>2
  <2> QED
    BY <1>1, <1>9, <2>1, <2>3, <2>4 DEF Temporary, At
<1>10. TempMode \in Mode /\ "part" \in Content /\ "new" \in Content
  BY DEF TempMode, Mode, Content
<1>11. CASE WriteSome
  <2>1. /\ Written("part", TempMode) /\ pc \in Filling /\ pc' = "filling"
        /\ logged' = logged /\ held' = held
    BY <1>11 DEF WriteSome, Goto, workVars, anchorVars, Filling
  <2> QED
    BY <1>9, <1>10, <2>1 DEF Filling
<1>12. CASE WriteRest
  <2>1. /\ Written("new", TempMode) /\ pc \in Filling /\ perms' = perms
        /\ pc' = IF perms = "none" THEN "filled" ELSE "chmod"
        /\ logged' = logged /\ held' = held
    BY <1>12 DEF WriteRest, Goto, workVars, anchorVars, Filling
  <2>2. pc' = "filled" => TempMode = FinalMode'
    BY <2>1 DEF TempMode, FinalMode
  <2> QED
    BY <1>9, <1>10, <2>1, <2>2 DEF Filling
<1>13. CASE SetPermissions
  <2>1. /\ Written("new", perms) /\ pc = "chmod" /\ perms' = perms /\ pc' = "filled"
        /\ logged' = logged /\ held' = held
    BY <1>13 DEF SetPermissions, Goto, workVars, anchorVars
  <2>2. perms # "none" /\ perms \in Mode
    BY <1>1, <2>1 DEF Temporary, TypeOK
  <2>3. perms = FinalMode'
    BY <2>1, <2>2 DEF FinalMode
  <2> QED
    BY <1>9, <1>10, <2>1, <2>2, <2>3 DEF Filling
<1>14. CASE Discard
  <2>1. pc' = "done" /\ held' = held
    BY <1>14 DEF Discard, Return, anchorVars
  <2>2. CASE Put(held.dir, "t", Nothing) /\ logged' = logged
    <3>1. \A d \in Dir : tree'[d]["t"] = Nothing
      BY <1>1, <1>3, <2>2, PutEffect, NodeTypes, DirTypes
    <3> QED
      BY <1>1, <2>1, <2>2, <3>1 DEF Temporary
  <2>3. CASE logged' = TRUE /\ tree' = tree
    BY <1>3, <2>1, <2>3 DEF Temporary
  <2> QED
    BY <1>14, <2>2, <2>3 DEF Discard
<1>15. CASE Rename
  <2>1. pc = "rename" /\ logged' = logged /\ held' = held
    BY <1>15, RenameKeeps
  <2>2. CASE tree' = tree /\ pc' = "discard"
    BY <1>1, <1>3, <2>1, <2>2 DEF Temporary, Landing
  <2>3. CASE ~(tree' = tree /\ pc' = "discard")
    <3>1. /\ pc' = "done" /\ tree'[held.dir]["t"] = Nothing
          /\ \A e \in Dir : e # held.dir => tree'[e] = tree[e]
      BY <1>15, <2>3, RenameWhere
    <3>2. \A d \in Dir : tree'[d]["t"] = Nothing
      BY <1>3, <3>1
    <3> QED
      BY <1>1, <2>1, <3>1, <3>2 DEF Temporary
  <2> QED
    BY <2>2, <2>3
<1>16. CASE Cancel
  BY <1>1, <1>16, OthersKeep DEF Temporary, At, FinalMode
<1>17. CASE Meddle
  <2>1. pc' = pc /\ held' = held /\ perms' = perms /\ logged' = logged
    BY <1>17, OthersKeep
  <2>2. \A e \in Dir : tree'[e]["t"] = tree[e]["t"] \/ tree'[e]["t"] = Nothing
    <3>1. PICK d \in Dir, n \in Name, node \in Node :
            Put(d, n, node) /\ (n = "t" => node = Nothing)
      BY <1>1, <1>17, MeddleWhere
    <3> QED
      BY <1>1, <3>1, PutEffect, DirTypes
  <2> QED
    BY <1>1, <2>1, <2>2 DEF Temporary, At, FinalMode
<1> QED
  BY <1>4, <1>5, <1>6, <1>7, <1>8, <1>11, <1>12, <1>13, <1>14, <1>15, <1>16, <1>17, NextSplit
     DEF Works, Puts

(* Who changes what stands at the destination's name, and to what. *)
LEMMA DestinationStep ==
  ASSUME IInv, Next, NEW d \in Dir
  PROVE  \/ tree'[d]["f"] = tree[d]["f"]
         \/ /\ Rename /\ tree'[d]["f"] = File("new", FinalMode)
            /\ pc' = "done" /\ answer' = "ok"
         \/ /\ Meddle
            /\ tree'[d]["f"].is = "file" => tree'[d]["f"].holds \in {"old", "other"}
            /\ pc = "rename" /\ d = held.dir => late'
<1>1. TypeOK /\ held.dir \in Dir
  BY DEF IInv, WholeOrNothing, TypeOK
<1>2. CASE Asks \/ Works \/ Cancel
  BY <1>1, <1>2, AsksKeep, WorksKeep, OthersKeep
<1>3. CASE Puts
  <2>1. CASE tree' = tree
    BY <2>1
  <2>2. CASE tree' # tree
    <3>1. PICK n \in {"p", "m", "t"}, node \in Node : Put(held.dir, n, node)
      BY <1>3, <2>2, PutsWhere
    <3> QED
      BY <1>1, <3>1, PutEffect, DirTypes
  <2> QED
    BY <2>1, <2>2
<1>4. CASE Rename
  <2>1. CASE tree' = tree
    BY <2>1
  <2>2. CASE tree' # tree
    BY <1>4, <2>2, RenameWhere
  <2> QED
    BY <2>1, <2>2
<1>5. CASE Meddle
  <2>1. PICK e \in Dir, n \in Name, node \in Node :
          /\ Put(e, n, node)
          /\ late' = (late \/ (pc = "rename" /\ e = held.dir /\ n = "f"))
          /\ n = "f" /\ node.is = "file" => node.holds \in {"old", "other"}
    BY <1>1, <1>5, MeddleWhere
  <2>2. CASE e = d /\ n = "f"
    <3>1. tree'[d]["f"] = node
      BY <1>1, <2>1, <2>2, PutEffect
    <3>2. pc = "rename" /\ d = held.dir => late'
      BY <2>1, <2>2, Zenon
    <3> QED
      BY <1>5, <2>1, <2>2, <3>1, <3>2
  <2>3. CASE ~(e = d /\ n = "f")
    BY <1>1, <2>1, <2>3, PutEffect, DirTypes
  <2> QED
    BY <2>2, <2>3
<1> QED
  BY <1>2, <1>3, <1>4, <1>5, NextSplit

LEMMA AnsweredStep ==
  ASSUME IInv, Next
  PROVE  Answered'
<1>1. TypeOK /\ Answered /\ pc # "done" /\ answer = "none"
  BY Alive DEF IInv, WholeOrNothing
<1>2. pc' = "done" <=> answer' # "none"
  <2>1. CASE Asks
    <3>1. CASE VouchName
      <4>1. Walk(request.parent).err \in Error \cup {"none"}
        BY <1>1, ShortNames, WalkTypes DEF Walked, TypeOK
      <4> QED
        BY <1>1, <3>1, <4>1 DEF VouchName, Error, Goto, Return
    <3>2. CASE ~VouchName
      BY <1>1, <2>1, <3>2, DescentGoes DEF Asks, Start, FindAncestor, OpenAncestor, NameAncestor,
         VerifyAncestor, LookAtDestination, NameRefused, CutBeforeWork, Allow, Deny,
         AncestorGone, Goto, Return
    <3> QED
      BY <3>1, <3>2
  <2>2. CASE Works
    BY <1>1, <2>2, DescentGoes DEF Works, PrepareRefused, EnterDir, Classify, FillFails, FillCut,
       Filled, Compare, LandingRefused, DiscardFor, Goto, Return
  <2>3. CASE Puts
    BY <1>1, <2>3 DEF Puts, MakeDir, CreateTemp, WriteSome, WriteRest, SetPermissions, Discard,
       Answered, Goto, Return
  <2>4. CASE Rename
    BY <1>1, <2>4, RenameWhere
  <2>5. CASE Cancel \/ Meddle
    BY <1>1, <2>5, OthersKeep
  <2> QED
    BY <2>1, <2>2, <2>3, <2>4, <2>5, NextSplit
<1>3. kept' \in Error \cup {"is_symlink", "none"}
  <2>1. CASE Asks
    <3>1. Walk(Existing) \in Walked /\ Canonicalised(Existing) \in Walked
      BY <1>1, ExistingNames, ShortNames, WalkTypes, CanonicalisedTypes DEF IInv
    <3>2. Canonicalised(held.real) \in Walked
      BY <1>1, CanonicalisedTypes DEF IInv, Names, Canonical
    <3>3. \/ kept' \in {kept, "is_symlink"}
          \/ kept' \in {Walk(Existing).err, Canonicalised(Existing).err}
          \/ kept' = Canonicalised(held.real).err
      BY <2>1 DEF Asks, Start, FindAncestor, OpenAncestor, NameAncestor,
         VerifyAncestor, LookAtDestination, NameRefused, VouchName, CutBeforeWork, Allow, Deny,
         AncestorGone, anchorVars
    <3> QED
      BY <1>1, <3>1, <3>2, <3>3 DEF Answered, Walked
  <2>2. CASE ~Asks
    BY <1>1, <2>2, NextSplit, WorksKeep, PutsKeep, RenameKeeps, OthersKeep DEF Answered
  <2> QED
    BY <2>1, <2>2
<1>4. due' # "ok" /\ (pc' = "discard" => due' # "none")
  <2>1. CASE Asks
    BY <1>1, <2>1, AsksKeep DEF Answered, Before, Anchoring
  <2>2. CASE Works
    BY <1>1, <2>2, DescentGoes DEF Works, PrepareRefused, EnterDir, Classify, FillFails, FillCut,
       Filled, Compare, LandingRefused, DiscardFor, NoWrite, workVars, Answered, Goto, Return,
       Preparing, Filling
  <2>3. CASE Puts
    BY <1>1, <2>3, PutsKeep DEF Puts, MakeDir, CreateTemp, WriteSome, WriteRest, SetPermissions,
       Discard, Answered, Goto, Return
  <2>4. CASE Rename
    BY <1>1, <2>4, RenameWhere DEF Answered
  <2>5. CASE Cancel \/ Meddle
    BY <1>1, <2>5, OthersKeep DEF Answered
  <2> QED
    BY <2>1, <2>2, <2>3, <2>4, <2>5, NextSplit
<1>5. \A d \in Dir : tree'[d]["f"].is = "file" /\ tree'[d]["f"].holds = "new" => answer' = "ok"
  BY Alive, DestinationStep
<1> QED
  BY <1>2, <1>3, <1>4, <1>5 DEF Answered

LEMMA ExpectedStep ==
  ASSUME IInv, Next
  PROVE  Expected'
<1>1. TypeOK /\ Expected /\ held.dir \in Dir
  BY DEF IInv, WholeOrNothing, TypeOK
<1>2. SUFFICES ASSUME pc' = "rename", request'.expect
               PROVE  late' \/ (tree'[held'.dir]["f"].is = "file" /\ tree'[held'.dir]["f"].holds = "old")
  BY DEF Expected, At
<1>3. request' = request
  BY <1>1, NextSplit, AsksKeep, WorksKeep, PutsKeep, RenameKeeps, OthersKeep
<1>4. CASE Asks
  BY <1>1, <1>2, <1>4, AsksKeep DEF Before, Anchoring
<1>5. CASE Works
  <2>1. CASE Filled
    BY <1>2, <1>3, <2>1 DEF Filled, DiscardFor, Goto
  <2>2. CASE Compare
    <3>1. At("f").is = "file" /\ At("f").holds = "old"
      BY <1>2, <2>2 DEF Compare, DiscardFor, Goto
    <3>2. tree' = tree /\ held' = held
      BY <2>2 DEF Compare, DiscardFor, NoWrite, anchorVars
    <3> QED
      BY <3>1, <3>2 DEF At
  <2>3. CASE PrepareRefused \/ EnterDir \/ Classify \/ FillFails \/ FillCut \/ LandingRefused
    BY <1>2, <2>3, DescentGoes DEF PrepareRefused, EnterDir, Classify, FillFails, FillCut,
       LandingRefused, DiscardFor, Goto, Return
  <2> QED
    BY <1>5, <2>1, <2>2, <2>3 DEF Works
<1>6. CASE Puts
  BY <1>2, <1>6 DEF Puts, MakeDir, CreateTemp, WriteSome, WriteRest, SetPermissions, Discard,
     Goto, Return
<1>7. CASE Rename
  BY <1>2, <1>7, RenameKeeps
<1>8. CASE Cancel
  BY <1>1, <1>2, <1>8, OthersKeep DEF Expected, At
<1>9. CASE Meddle
  <2>1. pc' = pc /\ held' = held /\ (late => late')
    BY <1>1, <1>9, OthersKeep, MeddleWhere
  <2>2. \/ tree'[held.dir]["f"] = tree[held.dir]["f"]
        \/ late'
    <3>1. ~Rename \/ tree'[held.dir]["f"] = tree[held.dir]["f"]
      BY <1>2, RenameKeeps
    <3> QED
      BY <1>1, <1>2, <2>1, <3>1, DestinationStep
  <2> QED
    BY <1>1, <1>2, <1>3, <2>1, <2>2 DEF Expected, At
<1> QED
  BY <1>4, <1>5, <1>6, <1>7, <1>8, <1>9, NextSplit

LEMMA WholeStep ==
  ASSUME IInv, Next, TypeOK', Temporary', Answered'
  PROVE  WholeOrNothing'
<1>1. WholeOrNothing /\ TypeOK /\ held.dir \in Dir /\ Temporary
  BY DEF IInv, WholeOrNothing, TypeOK
<1>2. \A d \in Dir : tree'[d]["f"].is = "file" => tree'[d]["f"].holds \notin {"empty", "part"}
  <2>1. \A m : File("new", m).holds = "new"
    BY DEF File
  <2> QED
    BY <1>1, <2>1, DestinationStep DEF WholeOrNothing
<1>3. pc' = "done" =>
        \A d \in Dir :
          /\ tree'[d]["t"] = Nothing \/ logged'
          /\ tree'[d]["f"].is = "file" /\ tree'[d]["f"].holds = "new" => answer' = "ok"
  BY DEF Temporary, Answered, Filling, Landing
<1>4. \A d \in Dir : tree'[d]["f"].is = "file" /\ tree'[d]["f"].holds = "new" =>
        tree'[d]["f"].mode = FinalMode'
  <2> SUFFICES ASSUME NEW d \in Dir, tree'[d]["f"].is = "file", tree'[d]["f"].holds = "new"
               PROVE  tree'[d]["f"].mode = FinalMode'
    OBVIOUS
  <2>1. Rename /\ tree'[d]["f"] = File("new", FinalMode)
    BY Alive, DestinationStep
  <2>2. perms' = perms
    BY <2>1, RenameKeeps
  <2> QED
    BY <2>1, <2>2 DEF FinalMode, File
<1> DEFINE Narrow(d) == tree[d]["t"].is = "file" /\ tree[d]["t"].mode = "public" => perms # "private"
<1>5. \A d \in Dir : Narrow(d)'
  <2>1. \A d \in Dir : Narrow(d)
    BY <1>1 DEF WholeOrNothing
  <2>2. \A d \in Dir : tree[d]["t"] = Nothing \/ (d = held.dir /\ pc \in Filling \cup Landing)
    BY <1>1, Alive DEF Temporary
  <2>3. Nothing.is # "file"
    BY NodeTypes
  <2>4. CASE Asks \/ (Works /\ ~Classify) \/ Cancel
    <3>1. tree' = tree /\ perms' = perms
      BY <1>1, <2>4, AsksKeep, WorksKeep, OthersKeep
    <3> QED
      BY <2>1, <3>1
  <2>5. CASE Classify
    <3>1. tree' = tree /\ pc \notin Filling \cup Landing
      BY <2>5 DEF Classify, Filling, Landing
    <3> QED
      BY <2>2, <2>3, <3>1
  <2>6. ASSUME NEW c \in Content, NEW m \in Mode, Written(c, m), perms' = perms,
               m = "public" => perms # "private"
        PROVE  \A d \in Dir : Narrow(d)'
    <3>1. /\ tree'[held.dir]["t"] \in {Nothing, File(c, m)}
          /\ \A e \in Dir : e # held.dir => tree'[e]["t"] = tree[e]["t"]
      BY <1>1, <2>6, WrittenEffect, DirTypes
    <3>2. File(c, m).mode = m
      BY DEF File
    <3> QED
      BY <2>1, <2>3, <2>6, <3>1, <3>2
  <2>7. CASE Puts
    <3>1. perms' = perms
      BY <2>7, PutsKeep
    <3>2. CASE MakeDir
      <4>1. pc \notin Filling \cup Landing /\ pc' \notin Filling \cup Landing /\ ~logged'
        BY <3>2, Alive DEF MakeDir, Goto, workVars, Filling, Landing
      <4>2. \A d \in Dir : tree'[d]["t"] = Nothing
        BY <4>1 DEF Temporary
      <4> QED
        BY <2>3, <4>2
    <3>3. CASE CreateTemp
      <4> DEFINE mode == IF perms = "none" THEN "public" ELSE "private"
      <4>1. Put(held.dir, "t", File("empty", mode)) /\ File("empty", mode) \in Node
            /\ File("empty", mode).mode = mode
        BY <3>3, NodeTypes DEF CreateTemp, Content, Mode
      <4>2. /\ tree'[held.dir]["t"].mode = mode
            /\ \A e \in Dir : e # held.dir => tree'[e]["t"] = tree[e]["t"]
        BY <1>1, <4>1, PutEffect, DirTypes
      <4>3. mode = "public" => perms # "private"
        OBVIOUS
      <4> QED
        BY <2>1, <3>1, <4>2, <4>3
    <3>4. TempMode \in Mode /\ "part" \in Content /\ "new" \in Content
          /\ (TempMode = "public" => perms # "private")
      BY DEF TempMode, Mode, Content
    <3>5. CASE WriteSome
      BY <2>6, <3>1, <3>4, <3>5 DEF WriteSome
    <3>6. CASE WriteRest
      BY <2>6, <3>1, <3>4, <3>6 DEF WriteRest
    <3>7. CASE SetPermissions
      <4>1. Written("new", perms) /\ perms \in Mode
        BY <1>1, <3>7 DEF SetPermissions, Temporary, TypeOK
      <4> QED
        BY <2>6, <3>1, <3>4, <4>1
    <3>8. CASE Discard
      <4>1. \A d \in Dir : tree'[d]["t"] = tree[d]["t"] \/ tree'[d]["t"] = Nothing
        BY <1>1, <3>8, PutEffect, NodeTypes, DirTypes DEF Discard
      <4> QED
        BY <2>1, <2>3, <3>1, <4>1
    <3> QED
      BY <2>7, <3>2, <3>3, <3>5, <3>6, <3>7, <3>8 DEF Puts
  <2>8. CASE Rename
    <3>1. perms' = perms /\ \A d \in Dir : tree'[d]["t"] = tree[d]["t"] \/ tree'[d]["t"] = Nothing
      BY <2>8, RenameKeeps, RenameWhere
    <3> QED
      BY <2>1, <2>3, <3>1
  <2>9. CASE Meddle
    <3>1. PICK d \in Dir, n \in Name, node \in Node :
            Put(d, n, node) /\ (n = "t" => node = Nothing)
      BY <1>1, <2>9, MeddleWhere
    <3>2. \A e \in Dir : tree'[e]["t"] = tree[e]["t"] \/ tree'[e]["t"] = Nothing
      BY <1>1, <3>1, PutEffect, DirTypes
    <3> QED
      BY <2>1, <2>3, <2>9, <3>2, OthersKeep
  <2> QED
    BY <2>4, <2>5, <2>7, <2>8, <2>9, NextSplit
<1> QED
  BY <1>2, <1>3, <1>4, <1>5 DEF WholeOrNothing, FinalMode

-----------------------------------------------------------------------------
(* The start, and the theorems. *)

LEMMA InitialTree ==
  ASSUME Init
  PROVE  /\ tree \in [Dir -> [Name -> Node]]
         /\ tree["out"] = OutAtStart
         /\ tree["root"]["p"] \in {Nothing, Link, Folder("home")}
         /\ \A d \in Dir : tree[d]["t"] = Nothing
         /\ \A d \in Dir : tree[d]["f"].is = "file" => tree[d]["f"].holds \in {"old", "other"}
         /\ \A d \in Dir, n \in Name :
              tree[d][n].is = "dir" /\ tree[d][n].to = "out" => d = "root" /\ n = "o"
<1>1. PICK p \in {Nothing, Link, Folder("home")},
           m \in {Nothing, Link} \cup {Folder(d) : d \in New},
           f \in {Nothing, Link, File("old", "private")} :
        tree = TreeWith(p, m, f)
  BY DEF Init, Trees
<1>2. /\ p \in Node /\ m \in Node /\ f \in Node /\ Folder("out") \in Node
      /\ (p.is = "dir" => p.to = "home") /\ (m.is = "dir" => m.to \in New)
      /\ f.is # "dir" /\ p.is # "file" /\ m.is # "file" /\ (f.is = "file" => f.holds = "old")
      /\ Folder("out").is = "dir" /\ Nothing.is = "nothing"
  BY NodeTypes, DirTypes DEF Content, Mode
<1> DEFINE top == [EmptyDir EXCEPT !["p"] = p, !["o"] = Folder("out")]
           home == [EmptyDir EXCEPT !["m"] = m, !["f"] = f]
<1>3. /\ top \in [Name -> Node] /\ top["p"] = p /\ top["o"] = Folder("out")
      /\ \A n \in Name \ {"p", "o"} : top[n] = Nothing
  BY <1>2, EmptyDirTypes, DirTypes
<1>4. /\ home \in [Name -> Node] /\ home["m"] = m /\ home["f"] = f
      /\ \A n \in Name \ {"m", "f"} : home[n] = Nothing
  BY <1>2, EmptyDirTypes, DirTypes
<1> HIDE DEF top, home
<1>5. /\ tree["root"] = top /\ tree["out"] = OutAtStart /\ tree["home"] = home
      /\ \A d \in Dir \ {"root", "out", "home"} : tree[d] = EmptyDir
  BY <1>1, DirTypes DEF TreeWith, top, home
<1>6. tree \in [Dir -> [Name -> Node]]
  <2>1. tree = [d \in Dir |-> tree[d]]
    BY <1>1 DEF TreeWith
  <2>2. \A d \in Dir : tree[d] \in [Name -> Node]
    BY <1>3, <1>4, <1>5, EmptyDirTypes
  <2> QED
    BY <2>1, <2>2
<1>7. OutAtStart["f"].is = "file" /\ OutAtStart["f"].holds = "other"
  BY EmptyDirTypes, NodeTypes DEF Content, Mode
<1>8. \A d \in Dir : tree[d]["t"] = Nothing
  BY <1>3, <1>4, <1>5, EmptyDirTypes, DirTypes
<1>9. \A d \in Dir : tree[d]["f"].is = "file" => tree[d]["f"].holds \in {"old", "other"}
  BY <1>2, <1>3, <1>4, <1>5, <1>7, EmptyDirTypes, DirTypes
<1>10. \A d \in Dir, n \in Name :
         tree[d][n].is = "dir" /\ tree[d][n].to = "out" => d = "root" /\ n = "o"
  <2> SUFFICES ASSUME NEW d \in Dir, NEW n \in Name, tree[d][n].is = "dir", tree[d][n].to = "out"
               PROVE  d = "root" /\ n = "o"
    OBVIOUS
  <2>1. d \notin {"out"}
    BY <1>2, <1>5, <1>7, EmptyDirTypes
  <2>2. d # "home"
    BY <1>2, <1>4, <1>5, DirTypes
  <2>3. d = "root"
    BY <1>2, <1>5, <2>1, <2>2, EmptyDirTypes
  <2> QED
    BY <1>2, <1>3, <1>5, <2>3
<1> QED
  BY <1>1, <1>3, <1>5, <1>6, <1>8, <1>9, <1>10

LEMMA InitInv == Init => IInv
<1> SUFFICES ASSUME Init
             PROVE  IInv
  OBVIOUS
<1>1. TypeOK
  <2>1. IsSuffix(below, request.parent) /\ below \in Seq(Name)
    BY ShortNames, ShortSuffixes DEF Init
  <2>2. 0 \in 0..MaxMeddle
    BY DirAssumption
  <2> QED
    BY <2>1, <2>2, InitialTree, NodeTypes, DirTypes, ShortNames DEF Init, TypeOK
<1>2. WholeOrNothing
  BY <1>1, InitialTree, NodeTypes DEF WholeOrNothing, Init
<1>3. OutsideIsApproved
  BY InitialTree DEF OutsideIsApproved
<1>4. Names
  BY DEF Names, Init, Canonical
<1>5. OneNameLeadsOut
  BY InitialTree, NodeTypes, DirTypes DEF OneNameLeadsOut
<1>6. HandleIsNamed
  BY DEF HandleIsNamed, Init
<1>7. Temporary
  BY InitialTree DEF Temporary, Init
<1>8. Answered
  BY InitialTree DEF Answered, Init
<1>9. Expected
  BY DEF Expected, Init
<1> QED
  BY <1>2, <1>3, <1>4, <1>5, <1>6, <1>7, <1>8, <1>9 DEF IInv

LEMMA NextInv == IInv /\ [Next]_vars => IInv'
<1> SUFFICES ASSUME IInv, [Next]_vars
             PROVE  IInv'
  OBVIOUS
<1>1. CASE Next
  <2>1. TreeOK'
    BY <1>1, TreeStep DEF TreeOK
  <2>2. Names'
    BY <1>1, NamesStep
  <2>3. OneNameLeadsOut'
    BY <1>1, OutStep
  <2>4. HandleIsNamed'
    BY <1>1, <2>1, <2>3, HandleStep
  <2>5. TypeOK'
    BY <1>1, <2>1, <2>2, <2>4, TypeStep
  <2>6. Temporary' /\ Answered' /\ Expected'
    BY <1>1, TemporaryStep, AnsweredStep, ExpectedStep
  <2>7. OutsideIsApproved' /\ WholeOrNothing'
    BY <1>1, <2>4, <2>5, <2>6, OutsideStep, WholeStep
  <2> QED
    BY <2>2, <2>3, <2>4, <2>6, <2>7 DEF IInv
<1>2. CASE UNCHANGED vars
  <2>1. /\ tree' = tree /\ request' = request /\ cancelled' = cancelled /\ pc' = pc
        /\ below' = below /\ path' = path /\ held' = held /\ seen' = seen /\ kept' = kept
        /\ approved' = approved /\ perms' = perms /\ due' = due /\ answer' = answer
        /\ logged' = logged /\ meddled' = meddled /\ late' = late /\ swaps' = swaps
    BY <1>2 DEF vars, anchorVars, workVars, othersVars
  <2>2. WholeOrNothing'
    BY <2>1 DEF IInv, WholeOrNothing, TypeOK
  <2>3. Names' /\ OneNameLeadsOut' /\ OutsideIsApproved'
    BY <2>1 DEF IInv, Names, OneNameLeadsOut, OutsideIsApproved
  <2>4. HandleIsNamed'
    <3>1. /\ LeadsOut(Existing)' <=> LeadsOut(Existing)
          /\ LeadsOut(held.real)' <=> LeadsOut(held.real)
      BY <2>1 DEF LeadsOut, Existing, Walk, Enter
    <3> QED
      BY <2>1, <3>1 DEF IInv, HandleIsNamed
  <2>5. Temporary' /\ Answered' /\ Expected'
    BY <2>1 DEF IInv, Temporary, Answered, Expected, At, FinalMode
  <2> QED
    BY <2>2, <2>3, <2>4, <2>5 DEF IInv
<1> QED
  BY <1>1, <1>2

LEMMA Invariant == Spec => []IInv
BY InitInv, NextInv, PTL DEF Spec

(***************************************************************************)
(* A directory that only links lead to is touched under an approval that   *)
(* names it, or two changes were made on the way to it while it was opened *)
(* and named.                                                              *)
(***************************************************************************)
THEOREM OnlyWhatWasApproved == Spec => []OutsideIsApproved
<1>1. IInv => OutsideIsApproved
  BY DEF IInv
<1> QED
  BY <1>1, Invariant, PTL

(* The destination is replaced whole or not at all, with the permissions   *)
(* it had, and no temporary stays unlogged.                                *)
THEOREM ReplacedWhole == Spec => []WholeOrNothing
<1>1. IInv => WholeOrNothing
  BY DEF IInv
<1> QED
  BY <1>1, Invariant, PTL

(* With expect_content, what the rename replaces holds the expected bytes, *)
(* unless it changed after the last look.                                  *)
THEOREM ExpectedIsReplaced == Spec => ExpectHonoured
<1>1. IInv /\ [Next]_vars =>
        (request.expect /\ answer # "ok" /\ answer' = "ok" =>
           late \/ (At("f").is = "file" /\ At("f").holds = "old"))
  <2> SUFFICES ASSUME IInv, [Next]_vars, request.expect, answer # "ok", answer' = "ok"
               PROVE  late \/ (At("f").is = "file" /\ At("f").holds = "old")
    OBVIOUS
  <2>1. Next
    BY DEF vars
  <2>2. TypeOK /\ Answered /\ Expected
    BY DEF IInv, WholeOrNothing
  <2>3. Rename
    <3>1. CASE Asks /\ ~VouchName
      BY <2>2, <3>1 DEF Asks, Start, FindAncestor, OpenAncestor, NameAncestor, VerifyAncestor,
         LookAtDestination, NameRefused, CutBeforeWork, Allow, Deny,
         AncestorGone, Goto, Return, Answered, Error
    <3>2. CASE Works
      BY <3>2 DEF Works, PrepareRefused, EnterDir, Classify, FillFails, FillCut,
         Filled, Compare, LandingRefused, DiscardFor, Goto, Return
    <3>3. CASE Puts
      BY <2>2, <3>3 DEF Puts, MakeDir, CreateTemp, WriteSome, WriteRest, SetPermissions,
         Discard, Goto, Return, Answered
    <3>4. CASE Cancel \/ Meddle
      BY <3>4, OthersKeep
    <3>5. CASE VouchName
      <4>1. Walk(request.parent).err \in Error \cup {"none"}
        BY <2>2, ShortNames, WalkTypes DEF Walked, TypeOK
      <4> QED
        BY <3>5, <4>1 DEF VouchName, Error, Goto, Return
    <3> QED
      BY <2>1, <3>1, <3>2, <3>3, <3>4, <3>5, NextSplit
  <2>4. pc = "rename"
    BY <2>3, RenameKeeps
  <2> QED
    BY <2>2, <2>4 DEF Expected
<1> QED
  BY <1>1, Invariant, PTL DEF Spec, ExpectHonoured
=============================================================================
