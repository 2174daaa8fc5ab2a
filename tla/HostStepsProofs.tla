-------------------------- MODULE HostStepsProofs --------------------------
(***************************************************************************)
(* Two host steps a plugin reaches the outside by, and a tool made of two.  *)
(*                                                                         *)
(* What a request keeps for any servers and grants, any limit on redirects *)
(* and any budget: its types, that every hop that went out was allowed,    *)
(* that a chain only loses authority, and that one budget bounds it.       *)
(* ChainOnlyNarrows is about what was sent.  The reason it holds is that   *)
(* the hop to be sent next is no wider than any request before it (Chain): *)
(* a redirect narrows the hop, and being no wider is transitive.           *)
(*                                                                         *)
(* And what a read keeps for any file, range, cap and scan ceiling: that   *)
(* what is read is what was shown, and that the answer says what it left   *)
(* out.  The reason is in Going: while the loop of read_lines goes on, its *)
(* locals are a function of how many bytes it consumed, and what it has    *)
(* kept is the lines asked for of those.  Each way out of the loop is then *)
(* a fact about the lines of a prefix of the file.                         *)
(*                                                                         *)
(* And that an edit keeps the rest of a file, for any file and arguments.  *)
(* The scan for `old` and the replacement are recursive functions; what    *)
(* they amount to is told by how far they have come (FoundBefore, Clear),  *)
(* place by place.  EditInv then needs only that what a write asks for was *)
(* decided of what was read, and that its look saw that.                   *)
(***************************************************************************)
EXTENDS HttpRequest, FsRead, EditTool, SequenceFacts

(* a may follow b in a chain. *)
Narrower(a, b) ==
  /\ a.headers => b.headers /\ b.url = a.url
  /\ b.url.scheme = "https" => a.url.scheme = "https"
  /\ a.body => b.body
  /\ a.method = "POST" => b.method = "POST"

Asking == {"hop", "ask", "send"}
Answering == {"wait", "body", "served", "seek"}

Counts ==
  /\ pc \in Asking => Len(sent) = hops
  /\ pc \in Answering => Len(sent) = hops + 1
  /\ pc \in Asking \cup {"wait", "body"} => bytes <= MaxBytes

(* The question of the hop about to be sent was the last one allowed. *)
Allowed ==
  /\ HopsAreGated
  /\ pc \in {"ask", "send"} => hop.url.server \in Granted
  /\ pc \in {"hop", "ask", "wait"} => Len(approved) = Len(sent)
  /\ pc = "send" => /\ Len(approved) = Len(sent) + 1
                    /\ approved[Len(sent) + 1] = Asked

Chain ==
  /\ ChainOnlyNarrows
  /\ \A i \in 1..Len(sent) : Narrower(hop, sent[i])

Budget == spent + deadline.left <= Timeout

HttpInv == TypeOK /\ Counts /\ Allowed /\ Chain /\ Budget

-----------------------------------------------------------------------------
(* What appending one element to a history does. *)
LEMMA AppendFacts ==
  ASSUME NEW S, NEW s \in Seq(S), NEW x \in S
  PROVE  /\ Append(s, x) \in Seq(S)
         /\ Len(s) \in Nat
         /\ Len(Append(s, x)) = Len(s) + 1
         /\ \A i \in 1..Len(s) : Append(s, x)[i] = s[i]
         /\ Append(s, x)[Len(s) + 1] = x
OBVIOUS

(* Being narrower is transitive. *)
LEMMA NarrowerTransitive ==
  ASSUME NEW a \in Request, NEW b \in Request, NEW c \in Request,
         Narrower(a, b), Narrower(b, c)
  PROVE  Narrower(a, c)
BY DEF Narrower, Request

(* What is left alone by every step but the gates, the send and the hop. *)
Quiet == UNCHANGED <<hop, hops, approved, sent>>

(* A plugin's request has been nowhere and has been allowed nothing. *)
LEMMA Initially == Init => HttpInv
<1> SUFFICES ASSUME Init PROVE HttpInv
  OBVIOUS
<1>1. TypeOK
  <2>1. /\ approved = <<>> /\ approved \in Seq(Question)
        /\ sent = <<>> /\ sent \in Seq(Request) /\ Len(sent) = 0
    BY DEF Init
  <2>2. hop \in Request
    BY DEF Init
  <2>3. deadline \in [set: BOOLEAN, left: 0..Timeout]
    BY HttpAssumption DEF Init
  <2>4. idle \in 0..Idle /\ hops \in 0..MaxRedirects /\ bytes \in 0..(MaxBytes + MaxChunk)
        /\ Len(sent) <= hops + 1 /\ spent \in Nat
    BY <2>1, HttpAssumption DEF Init
  <2>5. stream \in BOOLEAN /\ pc = "hop" /\ cancelled \in BOOLEAN /\ answer = "none"
        /\ empties \in BOOLEAN
    BY DEF Init
  <2> QED
    BY <2>1, <2>2, <2>3, <2>4, <2>5 DEF TypeOK
<1>2. Counts /\ Allowed /\ Chain
  BY HttpAssumption DEF Init, Counts, Allowed, Chain, HopsAreGated, ChainOnlyNarrows, Asking, Answering
<1>3. Budget
  BY HttpAssumption DEF Init, Budget
<1> QED
  BY <1>1, <1>2, <1>3 DEF HttpInv

(* A step that only moves on, or ends, keeps the chain and its gates. *)
LEMMA QuietStep ==
  ASSUME HttpInv, Quiet, deadline' \in [set: BOOLEAN, left: 0..Timeout], spent' \in Nat,
         spent' + deadline'.left <= Timeout,
         pc' \in {"served", "seek", "done", "body"} \/ pc' = pc,
         pc' \in Answering => pc \in Answering
  PROVE  /\ Len(sent') <= hops' + 1 /\ hop' \in Request /\ hops' \in 0..MaxRedirects
         /\ approved' \in Seq(Question) /\ sent' \in Seq(Request)
         /\ pc' \in Asking => Len(sent') = hops'
         /\ pc' \in Answering => Len(sent') = hops' + 1
         /\ Allowed' /\ Chain' /\ Budget'
<1> USE DEF HttpInv, Quiet
<1>1. Len(sent') <= hops' + 1 /\ hop' \in Request /\ hops' \in 0..MaxRedirects
      /\ approved' \in Seq(Question) /\ sent' \in Seq(Request)
  BY DEF TypeOK
<1>2. /\ pc' \in Asking => Len(sent') = hops'
      /\ pc' \in Answering => Len(sent') = hops' + 1
  BY DEF Counts, Asking, Answering
<1>3. Allowed'
  BY DEF Allowed, HopsAreGated, Asked
<1>4. Chain'
  BY DEF Chain, ChainOnlyNarrows, Narrower
<1>5. Budget'
  BY DEF Budget
<1> QED
  BY <1>1, <1>2, <1>3, <1>4, <1>5

(* The gates: an answer is recorded for the hop it was given for, and starts no new budget. *)
LEMMA GatesKeep == HttpInv /\ Gates => HttpInv'
<1> SUFFICES ASSUME HttpInv, Gates PROVE HttpInv'
  OBVIOUS
<1> USE DEF HttpInv
<1>1. CASE Deny \/ Withdraw \/ (CheckEgress /\ hop.url.server \notin Granted)
  <2>1. pc' = "done" /\ answer' \in Answer /\ Quiet
        /\ UNCHANGED <<stream, timeVars, bodyVars, cancelled>>
    BY <1>1 DEF Deny, Withdraw, CheckEgress, Return, Answer, Quiet, hopVars
  <2>2. TypeOK' /\ Counts' /\ Allowed' /\ Chain' /\ Budget'
    BY <2>1, QuietStep DEF TypeOK, Counts, timeVars, bodyVars, Budget, Asking, Answering
  <2> QED
    BY <2>2
<1>2. CASE CheckEgress /\ hop.url.server \in Granted
  <2>1. pc = "hop" /\ pc' = "ask" /\ UNCHANGED <<answer, stream, timeVars, bodyVars, cancelled>> /\ Quiet
    BY <1>2 DEF CheckEgress, Goto, Quiet, hopVars
  <2>2. TypeOK' /\ Counts' /\ Budget'
    BY <2>1 DEF TypeOK, Counts, timeVars, bodyVars, Budget, Asking, Answering, Quiet
  <2>3. Allowed' /\ Chain'
    BY <1>2, <2>1 DEF Allowed, HopsAreGated, Asked, Chain, ChainOnlyNarrows, Narrower, Quiet
  <2> QED
    BY <2>2, <2>3
<1>3. CASE Allow
  <2>1. /\ pc = "ask" /\ pc' = "send" /\ approved' = Append(approved, Asked)
        /\ deadline' = [deadline EXCEPT !.set = TRUE]
        /\ UNCHANGED <<hop, hops, sent, answer, stream, idle, spent, bodyVars, cancelled>>
    BY <1>3 DEF Allow, Goto, hopVars
  <2>2. Asked \in Question /\ approved \in Seq(Question) /\ Len(sent) \in Nat
    BY DEF TypeOK, Asked, Question, Request
  <2>3. /\ approved' \in Seq(Question)
        /\ Len(approved') = Len(approved) + 1
        /\ \A i \in 1..Len(approved) : approved'[i] = approved[i]
        /\ approved'[Len(approved) + 1] = Asked
    BY <2>1, <2>2, AppendFacts
  <2>4. TypeOK' /\ Counts' /\ Budget'
    BY <2>1, <2>3 DEF TypeOK, Counts, bodyVars, Budget, Asking, Answering, OnTheNetwork
  <2>5. Len(approved) = Len(sent) /\ hop.url.server \in Granted
    BY <2>1 DEF Allowed
  <2>6. HopsAreGated'
    BY <2>1, <2>2, <2>3, <2>5 DEF Allowed, HopsAreGated
  <2>7. Allowed'
    BY <2>1, <2>3, <2>5, <2>6 DEF Allowed, Asked
  <2>8. Chain'
    BY <2>1 DEF Chain, ChainOnlyNarrows, Narrower
  <2> QED
    BY <2>4, <2>7, <2>8
<1> QED
  BY <1>1, <1>2, <1>3 DEF Gates

(* The request goes out: it is what was just allowed, and no wider than    *)
(* those before it.                                                        *)
LEMMA SendKeeps == HttpInv /\ Send => HttpInv'
<1> SUFFICES ASSUME HttpInv, Send PROVE HttpInv'
  OBVIOUS
<1> USE DEF HttpInv
<1>1. /\ pc = "send" /\ pc' = "wait" /\ sent' = Append(sent, hop)
      /\ UNCHANGED <<hop, hops, approved, answer, stream, timeVars, bodyVars, cancelled>>
  BY DEF Send, Goto, hopVars
<1>2. hop \in Request /\ sent \in Seq(Request) /\ Len(sent) \in Nat /\ Len(approved) \in Nat
  BY DEF TypeOK
<1>3. /\ sent' \in Seq(Request)
      /\ Len(sent') = Len(sent) + 1
      /\ \A i \in 1..Len(sent) : sent'[i] = sent[i]
      /\ sent'[Len(sent) + 1] = hop
  BY <1>1, <1>2, AppendFacts
<1>4. TypeOK' /\ Counts' /\ Budget'
  BY <1>1, <1>3 DEF TypeOK, Counts, Budget, timeVars, bodyVars, Asking, Answering, OnTheNetwork
<1>5. Allowed'
  <2>1. Len(approved) = Len(sent')
    BY <1>1, <1>3 DEF Allowed
  <2>2. ASSUME NEW i \in 1..Len(sent')
        PROVE  /\ approved[i] = [url |-> sent'[i].url, method |-> sent'[i].method]
               /\ sent'[i].url.server \in Granted
    <3>1. CASE i = Len(sent) + 1
      BY <1>1, <1>2, <1>3, <3>1 DEF Allowed, Asked
    <3>2. CASE i # Len(sent) + 1
      <4>1. i \in 1..Len(sent) /\ sent'[i] = sent[i]
        BY <1>2, <1>3, <3>2
      <4> QED
        BY <4>1 DEF Allowed, HopsAreGated
    <3> QED
      BY <3>1, <3>2
  <2>3. HopsAreGated'
    BY <1>1, <1>2, <2>1, <2>2 DEF HopsAreGated
  <2> QED
    BY <1>1, <2>1, <2>3 DEF Allowed
<1>6. ASSUME NEW i \in 1..Len(sent')
      PROVE  Narrower(hop, sent'[i])
  BY <1>2, <1>3 DEF Chain, Narrower
<1>7. ChainOnlyNarrows'
  <2>1. SUFFICES ASSUME NEW j \in 1..Len(sent'), NEW i \in 1..(j - 1)
                 PROVE  Narrower(sent'[j], sent'[i])
    BY DEF ChainOnlyNarrows, Narrower
  <2>2. CASE j = Len(sent) + 1
    BY <1>2, <1>3, <1>6, <2>2
  <2>3. CASE j # Len(sent) + 1
    <3>1. j \in 1..Len(sent) /\ i \in 1..Len(sent) /\ sent'[j] = sent[j] /\ sent'[i] = sent[i]
      BY <1>2, <1>3, <2>3
    <3> QED
      BY <3>1 DEF Chain, ChainOnlyNarrows, Narrower
  <2> QED
    BY <2>2, <2>3
<1>8. Chain'
  BY <1>1, <1>6, <1>7 DEF Chain, Narrower
<1> QED
  BY <1>4, <1>5, <1>8

(* A redirect narrows the hop. *)
LEMMA RedirectedKeeps == HttpInv /\ Redirected => HttpInv'
<1> SUFFICES ASSUME HttpInv, Redirected PROVE HttpInv'
  OBVIOUS
<1> USE DEF HttpInv
<1>1. /\ pc = "wait" /\ pc' = "hop" /\ hops < MaxRedirects /\ hops' = hops + 1
      /\ UNCHANGED <<sent, approved, answer, stream, timeVars, bodyVars, cancelled>>
  BY DEF Redirected, Goto
<1>2. PICK status \in Status, location \in Url :
        ~Refused(location) /\ hop' = NextHop(status, location)
  BY DEF Redirected
<1>3. hop \in Request /\ Len(sent) \in Nat /\ hops \in Nat /\ sent \in Seq(Request)
  BY DEF TypeOK
<1>4. hop' \in Request /\ Narrower(hop', hop)
  BY <1>2, <1>3 DEF NextHop, Refused, Rewritten, Narrower, Request, Url, Scheme, Method
<1>5. TypeOK' /\ Counts' /\ Budget'
  BY <1>1, <1>3, <1>4, HttpAssumption DEF TypeOK, Counts, Budget, timeVars, bodyVars, Asking, Answering
<1>6. Allowed'
  <2>1. HopsAreGated'
    BY <1>1 DEF Allowed, HopsAreGated
  <2>2. Len(approved) = Len(sent)
    BY <1>1 DEF Allowed
  <2> QED
    BY <1>1, <2>1, <2>2 DEF Allowed
<1>7. ASSUME NEW i \in 1..Len(sent)
      PROVE  Narrower(hop', sent[i])
  BY <1>3, <1>4, NarrowerTransitive DEF Chain
<1>8. Chain'
  BY <1>1, <1>7 DEF Chain, ChainOnlyNarrows, Narrower
<1> QED
  BY <1>5, <1>6, <1>8

(* The network ends the request, its answer becomes a body, or the body is read. *)
LEMMA OtherNetworkKeeps ==
  HttpInv /\ (\/ Over \/ Cut \/ NetworkFails \/ Responds \/ RedirectRefused
              \/ BodyChunk \/ EmptyBodyChunk \/ BodyEnds)
    => HttpInv'
<1> SUFFICES ASSUME HttpInv,
                    \/ Over \/ Cut \/ NetworkFails \/ Responds \/ RedirectRefused
                    \/ BodyChunk \/ EmptyBodyChunk \/ BodyEnds
             PROVE  HttpInv'
  OBVIOUS
<1> USE DEF HttpInv
<1>1. /\ Quiet /\ UNCHANGED <<stream, timeVars, cancelled>>
      /\ pc' \in {"served", "body", "done"}
      /\ pc' \in Answering => pc \in Answering
      /\ answer' \in Answer \cup {"none"}
  BY DEF TypeOK, Over, Cut, NetworkFails, Responds, RedirectRefused, BodyChunk, EmptyBodyChunk,
         BodyEnds, Return, Goto, Answer, Answering, Quiet, hopVars
<1>2. empties' \in BOOLEAN
  BY DEF TypeOK, Over, Cut, NetworkFails, Responds, RedirectRefused, BodyChunk, EmptyBodyChunk,
         BodyEnds, bodyVars, NextReadyOrNot
<1>3. /\ bytes' \in 0..(MaxBytes + MaxChunk)
      /\ pc' = "body" => bytes' <= MaxBytes
  <2>1. CASE BodyChunk
    <3>1. PICK n \in 1..MaxChunk : bytes' = bytes + n
      BY <2>1 DEF BodyChunk
    <3>2. bytes \in Nat /\ bytes <= MaxBytes
      BY <2>1 DEF BodyChunk, TypeOK, Counts, Asking
    <3>3. bytes' > MaxBytes => pc' = "done"
      BY <2>1 DEF BodyChunk, Return
    <3> QED
      BY <3>1, <3>2, <3>3, HttpAssumption
  <2>2. CASE ~BodyChunk
    <3>1. UNCHANGED bytes
      BY <2>2 DEF Over, Cut, NetworkFails, Responds, RedirectRefused, EmptyBodyChunk, BodyEnds, bodyVars
    <3>2. pc' = "body" => pc \in {"wait", "body"}
      BY <2>2 DEF Over, Cut, NetworkFails, Responds, RedirectRefused, EmptyBodyChunk, BodyEnds,
                  Return, Goto
    <3> QED
      BY <3>1, <3>2 DEF TypeOK, Counts, Asking
  <2> QED
    BY <2>1, <2>2
<1>4. deadline' \in [set: BOOLEAN, left: 0..Timeout] /\ spent' \in Nat
      /\ spent' + deadline'.left <= Timeout
  BY <1>1 DEF TypeOK, Budget, timeVars
<1>5. /\ Len(sent') <= hops' + 1 /\ hop' \in Request /\ hops' \in 0..MaxRedirects
      /\ approved' \in Seq(Question) /\ sent' \in Seq(Request)
      /\ pc' \in Asking => Len(sent') = hops'
      /\ pc' \in Answering => Len(sent') = hops' + 1
      /\ Allowed' /\ Chain' /\ Budget'
  BY <1>1, <1>4, QuietStep
<1>6. TypeOK'
  BY <1>1, <1>2, <1>3, <1>4, <1>5 DEF TypeOK, OnTheNetwork, timeVars
<1>7. Counts'
  BY <1>1, <1>3, <1>5 DEF Counts, Asking
<1> QED
  BY <1>5, <1>6, <1>7

(* Reading a streamed body asks for nothing. *)
LEMMA StreamKeeps == HttpInv /\ Stream => HttpInv'
<1> SUFFICES ASSUME HttpInv, Stream PROVE HttpInv'
  OBVIOUS
<1> USE DEF HttpInv
<1>1. /\ Quiet /\ UNCHANGED <<stream, deadline, spent, bytes, cancelled, answer>>
      /\ pc \in {"served", "seek"} /\ pc' \in {"served", "seek", "done"}
      /\ idle' \in {idle, Idle}
  BY DEF Stream, Seek, Closes, Chunk, EmptyChunk, StreamEnds, IdleOver, ReadReleased,
         StreamUnchanged, Quiet, hopVars
<1>2. empties' \in BOOLEAN
  BY DEF TypeOK, Stream, Seek, Closes, Chunk, EmptyChunk, StreamEnds, IdleOver, ReadReleased,
         NextReadyOrNot
<1>3. deadline' \in [set: BOOLEAN, left: 0..Timeout] /\ spent' \in Nat
      /\ spent' + deadline'.left <= Timeout
  BY <1>1 DEF TypeOK, Budget
<1>4. /\ Len(sent') <= hops' + 1 /\ hop' \in Request /\ hops' \in 0..MaxRedirects
      /\ approved' \in Seq(Question) /\ sent' \in Seq(Request)
      /\ pc' \in Asking => Len(sent') = hops'
      /\ pc' \in Answering => Len(sent') = hops' + 1
      /\ Allowed' /\ Chain' /\ Budget'
  BY <1>1, <1>3, QuietStep DEF Answering
<1>5. TypeOK'
  BY <1>1, <1>2, <1>3, <1>4, HttpAssumption DEF TypeOK, OnTheNetwork
<1>6. Counts'
  BY <1>1, <1>4 DEF Counts, Asking
<1> QED
  BY <1>4, <1>5, <1>6

(* The token, a chunk that comes and the clocks: what is billed has left the budget. *)
LEMMA ClocksKeep == HttpInv /\ (Cancel \/ EmptyArrives \/ Tick \/ UNCHANGED vars) => HttpInv'
<1> SUFFICES ASSUME HttpInv, Cancel \/ EmptyArrives \/ Tick \/ UNCHANGED vars PROVE HttpInv'
  OBVIOUS
<1> USE DEF HttpInv
<1>1. Quiet /\ UNCHANGED <<stream, pc, bytes, answer>>
      /\ cancelled' \in BOOLEAN /\ empties' \in BOOLEAN
  BY DEF Cancel, EmptyArrives, Tick, Quiet, vars, hopVars, bodyVars, TypeOK
<1>2. /\ deadline' \in [set: BOOLEAN, left: 0..Timeout] /\ spent' \in Nat
      /\ spent' + deadline'.left <= Timeout /\ idle' \in 0..Idle
  <2>1. CASE Tick /\ DeadlineTick
    <3>1. /\ deadline.left > 0 /\ UNCHANGED idle
          /\ deadline' = [deadline EXCEPT !.left = deadline.left - 1]
          /\ spent' = spent \/ spent' = spent + 1
      BY <2>1 DEF DeadlineTick
    <3>2. /\ deadline \in [set: BOOLEAN, left: 0..Timeout] /\ deadline.left \in Nat
          /\ spent \in Nat /\ spent + deadline.left <= Timeout /\ idle \in 0..Idle
      BY HttpAssumption DEF TypeOK, Budget
    <3>3. deadline'.left = deadline.left - 1 /\ deadline' \in [set: BOOLEAN, left: 0..Timeout]
      BY <3>1, <3>2, HttpAssumption
    <3> QED
      BY <3>1, <3>2, <3>3, HttpAssumption
  <2>2. CASE Tick /\ IdleTick
    BY <2>2, HttpAssumption DEF IdleTick, TypeOK, Budget
  <2>3. CASE Cancel \/ EmptyArrives \/ UNCHANGED vars
    BY <2>3 DEF Cancel, EmptyArrives, vars, timeVars, TypeOK, Budget
  <2> QED
    BY <2>1, <2>2, <2>3 DEF Tick
<1>3. /\ Len(sent') <= hops' + 1 /\ hop' \in Request /\ hops' \in 0..MaxRedirects
      /\ approved' \in Seq(Question) /\ sent' \in Seq(Request)
      /\ pc' \in Asking => Len(sent') = hops'
      /\ pc' \in Answering => Len(sent') = hops' + 1
      /\ Allowed' /\ Chain' /\ Budget'
  BY <1>1, <1>2, QuietStep
<1>4. TypeOK' /\ Counts'
  BY <1>1, <1>2, <1>3 DEF TypeOK, Counts
<1> QED
  BY <1>3, <1>4

(* Every step of http_get and http_post keeps the invariant. *)
LEMMA Invariance == HttpInv /\ [Next]_vars => HttpInv'
BY GatesKeep, SendKeeps, RedirectedKeeps, OtherNetworkKeeps, StreamKeeps, ClocksKeep
   DEF Next, Network

(* The inductive invariant holds of every request. *)
THEOREM HttpInvariant == Spec => []HttpInv
BY Initially, Invariance, PTL DEF Spec

(* A request, its redirects and its body keep their types. *)
THEOREM TypeCorrect == Spec => []TypeOK
BY HttpInvariant, PTL DEF HttpInv

(***************************************************************************)
(* Whatever the far end answers, and however often it redirects, what goes *)
(* out is what the operator allowed, one answer for one request, to a host *)
(* of the manifest (http_post).                                            *)
(***************************************************************************)
THEOREM EveryHopIsGated == Spec => []HopsAreGated
<1>1. HttpInv => HopsAreGated
  BY DEF HttpInv, Allowed
<1> QED
  BY <1>1, HttpInvariant, PTL

(* A chain of redirects only loses authority (redirect_target, request). *)
THEOREM NothingIsRegained == Spec => []ChainOnlyNarrows
<1>1. HttpInv => ChainOnlyNarrows
  BY DEF HttpInv, Chain
<1> QED
  BY <1>1, HttpInvariant, PTL

(* One budget bounds every hop and the buffered body together (http_post). *)
THEOREM OneBudget == Spec => []BudgetBoundsTheChain
<1>1. HttpInv => BudgetBoundsTheChain
  <2>1. HttpInv => spent \in Nat /\ deadline.left \in 0..Timeout
    BY DEF HttpInv, TypeOK
  <2> QED
    BY <2>1, HttpAssumption DEF HttpInv, Budget, BudgetBoundsTheChain
<1> QED
  BY <1>1, HttpInvariant, PTL

-----------------------------------------------------------------------------
(* The bytes of an answer, and the params validation lets through. *)
Out == Byte \cup {"#"}

Params == [offset: Nat \ {0}, limit: Nat, number: BOOLEAN, max: 0..Ceiling]

(* The number of the line a byte is in. *)
LEMMA LineOfFirst ==
  ASSUME NEW b PROVE LineOf(b, 1) = 1
<1>1. {j \in 1..(1 - 1) : b[j] = "n"} = {}
  OBVIOUS
<1> QED BY <1>1, FS_EmptySet DEF LineOf

LEMMA LineOfNext ==
  ASSUME NEW b, NEW i \in Nat \ {0}
  PROVE  /\ LineOf(b, i) \in Nat \ {0}
         /\ LineOf(b, i + 1) = IF b[i] = "n" THEN LineOf(b, i) + 1 ELSE LineOf(b, i)
<1> DEFINE A == {j \in 1..(i - 1) : b[j] = "n"}
           B == {j \in 1..(i + 1 - 1) : b[j] = "n"}
<1>1. IsFiniteSet(1..(i - 1)) /\ A \subseteq 1..(i - 1)
  BY FS_Interval
<1>2. IsFiniteSet(A) /\ Cardinality(A) \in Nat
  BY <1>1, FS_Subset, FS_CardinalityType
<1>3. B = IF b[i] = "n" THEN A \cup {i} ELSE A
  OBVIOUS
<1>4. i \notin A
  OBVIOUS
<1> HIDE DEF A, B
<1>5. Cardinality(B) = IF b[i] = "n" THEN Cardinality(A) + 1 ELSE Cardinality(A)
  BY <1>2, <1>3, <1>4, FS_AddElement
<1>6. LineOf(b, i) = 1 + Cardinality(A) /\ LineOf(b, i + 1) = 1 + Cardinality(B)
  BY DEF LineOf, A, B
<1> QED
  BY <1>2, <1>5, <1>6

LEMMA LineOfMonotone ==
  ASSUME NEW b, NEW i \in Nat \ {0}, NEW d \in Nat
  PROVE  LineOf(b, i) <= LineOf(b, i + d)
<1> DEFINE Good == {e \in 0..d : LineOf(b, i) <= LineOf(b, i + e)}
<1>1. 0 \in Good
  BY LineOfNext
<1>2. ASSUME NEW e \in 0..(d - 1), e \in Good
      PROVE  e + 1 \in Good
  <2>1. i + e \in Nat \ {0} /\ i + (e + 1) = (i + e) + 1
    OBVIOUS
  <2>2. LineOf(b, i + e) <= LineOf(b, (i + e) + 1)
    BY <2>1, LineOfNext
  <2>3. LineOf(b, i) \in Nat /\ LineOf(b, i + e) \in Nat /\ LineOf(b, (i + e) + 1) \in Nat
    BY <2>1, LineOfNext
  <2> QED BY <2>1, <2>2, <2>3, <1>2
<1>3. 0..d \subseteq Good
  <2> HIDE DEF Good
  <2> QED BY <1>1, <1>2, BySteps
<1> QED BY <1>3

(* No line ends in between: the line is the same. *)
LEMMA SameLine ==
  ASSUME NEW b, NEW i \in Nat \ {0}, NEW d \in Nat, \A e \in 0..(d - 1) : b[i + e] # "n"
  PROVE  \A e \in 0..d : LineOf(b, i + e) = LineOf(b, i)
<1> DEFINE Good == {e \in 0..d : LineOf(b, i + e) = LineOf(b, i)}
<1>1. 0 \in Good
  OBVIOUS
<1>2. ASSUME NEW e \in 0..(d - 1), e \in Good
      PROVE  e + 1 \in Good
  <2>1. i + e \in Nat \ {0} /\ i + (e + 1) = (i + e) + 1
    OBVIOUS
  <2>2. LineOf(b, (i + e) + 1) = LineOf(b, i + e)
    BY <2>1, LineOfNext
  <2> QED BY <2>1, <2>2, <1>2
<1>3. 0..d \subseteq Good
  <2> HIDE DEF Good
  <2> QED BY <1>1, <1>2, BySteps
<1> QED BY <1>3

(* Lines: its type, and one byte more. *)
LEMMA PieceType ==
  ASSUME NEW b \in Seq(Byte), NEW r \in Params, NEW i \in 1..Len(b)
  PROVE  Piece(b, r, i) \in Seq(Out)
<1>1. b[i] \in Out /\ "#" \in Out
  BY DEF Out
<1> QED BY <1>1 DEF Piece

LEMMA PiecesType ==
  ASSUME NEW b \in Seq(Byte), NEW r \in Params, NEW k \in 0..Len(b)
  PROVE  /\ [i \in 1..k |-> Piece(b, r, i)] \in Seq(Seq(Out))
         /\ Len([i \in 1..k |-> Piece(b, r, i)]) = k
         /\ Lines(b, r, k) \in Seq(Out)
<1>1. \A i \in 1..k : Piece(b, r, i) \in Seq(Out)
  <2>1. \A i \in 1..k : i \in 1..Len(b)
    OBVIOUS
  <2> QED BY <2>1, PieceType
<1>2. k \in Nat
  OBVIOUS
<1>3. [i \in 1..k |-> Piece(b, r, i)] \in [1..k -> Seq(Out)]
  BY <1>1
<1>4. /\ [i \in 1..k |-> Piece(b, r, i)] \in Seq(Seq(Out))
      /\ Len([i \in 1..k |-> Piece(b, r, i)]) = k
  BY <1>2, <1>3
<1> QED BY <1>4, FlattenType DEF Lines

LEMMA LinesNone ==
  ASSUME NEW b, NEW r PROVE Lines(b, r, 0) = <<>>
<1>1. [i \in 1..0 |-> Piece(b, r, i)] = <<>>
  OBVIOUS
<1> QED BY <1>1, FlattenEmpty DEF Lines

LEMMA LinesNext ==
  ASSUME NEW b \in Seq(Byte), NEW r \in Params, NEW k \in Nat, k < Len(b)
  PROVE  Lines(b, r, k + 1) = Lines(b, r, k) \o Piece(b, r, k + 1)
<1> DEFINE s == [i \in 1..k |-> Piece(b, r, i)]
           t == [i \in 1..(k + 1) |-> Piece(b, r, i)]
<1>1. k \in 0..Len(b) /\ k + 1 \in 0..Len(b)
  OBVIOUS
<1>2. s \in Seq(Seq(Out)) /\ t \in Seq(Seq(Out)) /\ Len(s) = k /\ Len(t) = k + 1
  BY <1>1, PiecesType
<1>3. (\A i \in 1..k : s[i] = t[i]) /\ t[k + 1] = Piece(b, r, k + 1)
  OBVIOUS
<1>4. FlattenSeq(t) = FlattenSeq(s) \o t[k + 1]
  <2> HIDE DEF s, t
  <2> QED BY <1>2, <1>3, FlattenExtended
<1> QED BY <1>3, <1>4 DEF Lines

(* More bytes only add to the lines asked for. *)
LEMMA LinesGrow ==
  ASSUME NEW b \in Seq(Byte), NEW r \in Params, NEW k \in 0..Len(b), NEW d \in Nat, k + d <= Len(b)
  PROVE  \E t \in Seq(Out) : Lines(b, r, k + d) = Lines(b, r, k) \o t
<1> DEFINE Good == {e \in 0..d : \E t \in Seq(Out) : Lines(b, r, k + e) = Lines(b, r, k) \o t}
<1>1. 0 \in Good
  <2>1. Lines(b, r, k) \in Seq(Out) /\ k + 0 = k /\ 0 \in 0..d
    BY PiecesType
  <2>2. Lines(b, r, k) = Lines(b, r, k) \o <<>> /\ <<>> \in Seq(Out)
    BY <2>1
  <2> QED BY <2>1, <2>2
<1>2. ASSUME NEW e \in 0..(d - 1), e \in Good
      PROVE  e + 1 \in Good
  <2>1. /\ k + e \in Nat /\ k + e < Len(b) /\ k + (e + 1) = (k + e) + 1
        /\ (k + e) + 1 \in 1..Len(b) /\ e + 1 \in 0..d
    OBVIOUS
  <2>2. PICK t \in Seq(Out) : Lines(b, r, k + e) = Lines(b, r, k) \o t
    BY <1>2
  <2>3. Lines(b, r, (k + e) + 1) = Lines(b, r, k + e) \o Piece(b, r, (k + e) + 1)
    BY <2>1, LinesNext
  <2>4. Lines(b, r, k) \in Seq(Out) /\ Piece(b, r, (k + e) + 1) \in Seq(Out)
    BY <2>1, PiecesType, PieceType
  <2>5. Lines(b, r, k + (e + 1)) = Lines(b, r, k) \o (t \o Piece(b, r, (k + e) + 1))
    <3> DEFINE L == Lines(b, r, k)
               P == Piece(b, r, (k + e) + 1)
    <3>1. Lines(b, r, k + (e + 1)) = (L \o t) \o P
      BY <2>1, <2>2, <2>3
    <3>2. L \in Seq(Out) /\ P \in Seq(Out)
      BY <2>4
    <3> HIDE DEF L, P
    <3>3. (L \o t) \o P = L \o (t \o P)
      BY <3>2, SMTT(30)
    <3> QED BY <3>1, <3>3 DEF L, P
  <2>6. t \o Piece(b, r, (k + e) + 1) \in Seq(Out)
    BY <2>4
  <2> QED BY <2>1, <2>5, <2>6
<1>3. 0..d \subseteq Good
  <2> HIDE DEF Good
  <2> QED BY <1>1, <1>2, BySteps
<1>4. d \in Good
  <2>1. d \in 0..d
    OBVIOUS
  <2> HIDE DEF Good
  <2> QED BY <1>3, <2>1
<1> QED BY <1>4

LEMMA LinesPrefix ==
  ASSUME NEW b \in Seq(Byte), NEW r \in Params, NEW k \in 0..Len(b), NEW m \in k..Len(b)
  PROVE  IsPrefix(Lines(b, r, k), Lines(b, r, m))
<1>1. m - k \in Nat /\ k + (m - k) = m /\ k + (m - k) <= Len(b)
  OBVIOUS
<1>2. PICK t \in Seq(Out) : Lines(b, r, m) = Lines(b, r, k) \o t
  <2>1. \E t \in Seq(Out) : Lines(b, r, k + (m - k)) = Lines(b, r, k) \o t
    BY <1>1, LinesGrow
  <2> QED BY <1>1, <2>1
<1>3. Lines(b, r, k) \in Seq(Out)
  BY PiecesType
<1>4. Len(Lines(b, r, k)) <= Len(Lines(b, r, m)) /\ Len(Lines(b, r, k)) \in 0..Len(Lines(b, r, k))
  BY <1>2, <1>3
<1>5. SubSeq(Lines(b, r, k) \o t, 1, Len(Lines(b, r, k))) = SubSeq(Lines(b, r, k), 1, Len(Lines(b, r, k)))
  BY <1>3, <1>4, ConcatPrefix
<1> QED BY <1>2, <1>4, <1>5 DEF IsPrefix

(* What is not wanted adds nothing. *)
LEMMA LinesSkip ==
  ASSUME NEW b \in Seq(Byte), NEW r \in Params, NEW k \in 0..Len(b), NEW m \in k..Len(b),
         \A i \in (k + 1)..m : ~Wanted(b, r, i)
  PROVE  Lines(b, r, m) = Lines(b, r, k)
<1> DEFINE d == m - k
           Good == {e \in 0..d : Lines(b, r, k + e) = Lines(b, r, k)}
<1>0. d \in Nat /\ k + d = m
  OBVIOUS
<1>1. 0 \in Good
  BY <1>0
<1>2. ASSUME NEW e \in 0..(d - 1), e \in Good
      PROVE  e + 1 \in Good
  <2>1. /\ k + e \in Nat /\ k + e < Len(b) /\ k + (e + 1) = (k + e) + 1
        /\ (k + e) + 1 \in (k + 1)..m /\ e + 1 \in 0..d
    OBVIOUS
  <2>2. Lines(b, r, (k + e) + 1) = Lines(b, r, k + e) \o Piece(b, r, (k + e) + 1)
    BY <2>1, LinesNext
  <2>3. Piece(b, r, (k + e) + 1) = <<>>
    BY <2>1 DEF Piece
  <2>4. Lines(b, r, k) \in Seq(Out) /\ Lines(b, r, k + e) = Lines(b, r, k)
    BY <1>2, PiecesType
  <2>5. Lines(b, r, k + (e + 1)) = Lines(b, r, k)
    BY <2>1, <2>2, <2>3, <2>4
  <2> QED BY <2>1, <2>5
<1>3. 0..d \subseteq Good
  <2> HIDE DEF Good, d
  <2> QED BY <1>0, <1>1, <1>2, BySteps
<1>4. d \in Good
  <2>1. d \in 0..d
    BY <1>0
  <2> HIDE DEF Good, d
  <2> QED BY <1>3, <2>1
<1> QED BY <1>0, <1>4

(* The number printed before a byte. *)
Number(b, r, i) == IF r.number /\ (i = 1 \/ b[i - 1] = "n") THEN <<"#">> ELSE <<>>

(* A stretch of one line, at once. *)
LEMMA LinesChunk ==
  ASSUME NEW b \in Seq(Byte), NEW r \in Params, NEW c \in Nat, NEW k \in Nat \ {0}, c + k <= Len(b),
         \A i \in 1..(k - 1) : b[c + i] # "n"
  PROVE  Lines(b, r, c + k) =
           IF Wanted(b, r, c + 1)
           THEN Lines(b, r, c) \o (Number(b, r, c + 1) \o SubSeq(b, c + 1, c + k))
           ELSE Lines(b, r, c)
<1>0. /\ c \in 0..Len(b) /\ c + 1 \in Nat \ {0} /\ k - 1 \in Nat
      /\ \A e \in 0..((k - 1) - 1) : b[(c + 1) + e] # "n"
  <2>1. ASSUME NEW e \in 0..((k - 1) - 1) PROVE b[(c + 1) + e] # "n"
    <3>1. e + 1 \in 1..(k - 1) /\ c + (e + 1) = (c + 1) + e
      OBVIOUS
    <3> QED BY <3>1
  <2> QED BY <2>1
<1>1. \A e \in 0..(k - 1) : LineOf(b, (c + 1) + e) = LineOf(b, c + 1)
  BY <1>0, SameLine
<1>2. \A e \in 0..(k - 1) : Wanted(b, r, (c + 1) + e) <=> Wanted(b, r, c + 1)
  BY <1>1 DEF Wanted
<1>3. CASE ~Wanted(b, r, c + 1)
  <2>1. ASSUME NEW i \in (c + 1)..(c + k) PROVE ~Wanted(b, r, i)
    <3>1. i - (c + 1) \in 0..(k - 1) /\ (c + 1) + (i - (c + 1)) = i
      OBVIOUS
    <3> QED BY <3>1, <1>2, <1>3
  <2>2. c + k \in c..Len(b)
    OBVIOUS
  <2> QED BY <1>0, <1>3, <2>1, <2>2, LinesSkip
<1>4. CASE Wanted(b, r, c + 1)
  <2> DEFINE N == Number(b, r, c + 1)
     Good == {e \in 0..(k - 1) : Lines(b, r, c + (e + 1)) = Lines(b, r, c) \o (N \o SubSeq(b, c + 1, c + (e + 1)))}
  <2>1. Lines(b, r, c) \in Seq(Out) /\ N \in Seq(Out)
    <3>1. Lines(b, r, c) \in Seq(Out)
      BY <1>0, PiecesType
    <3>2. N \in Seq(Out)
      <4>1. "#" \in Out
        BY DEF Out
      <4>2. N = <<"#">> \/ N = <<>>
        BY DEF Number
      <4>3. <<"#">> \in Seq(Out) /\ <<>> \in Seq(Out)
        BY <4>1
      <4> HIDE DEF N
      <4> QED BY <4>2, <4>3
    <3> QED BY <3>1, <3>2
  <2>2. 0 \in Good
    <3>1. Lines(b, r, c + 1) = Lines(b, r, c) \o Piece(b, r, c + 1)
      <4>1. c < Len(b)
        OBVIOUS
      <4> QED BY <4>1, LinesNext
    <3>2. SubSeq(b, c + 1, c + 1) = <<b[c + 1]>> /\ 0 + 1 = 1 /\ 0 \in 0..(k - 1)
      BY JustOne
    <3>3. Piece(b, r, c + 1) = N \o <<b[c + 1]>>
      <4>1. CASE r.number /\ (c + 1 = 1 \/ b[c + 1 - 1] = "n")
        <5>1. N = <<"#">> /\ Piece(b, r, c + 1) = <<"#", b[c + 1]>>
          BY <1>4, <4>1 DEF Piece, Number
        <5>2. <<"#">> \o <<b[c + 1]>> = <<"#", b[c + 1]>>
          <6>1. "#" \in Out /\ b[c + 1] \in Out
            BY DEF Out
          <6> QED BY <6>1, OneAndOne
        <5> HIDE DEF N
        <5> QED BY <5>1, <5>2
      <4>2. CASE ~(r.number /\ (c + 1 = 1 \/ b[c + 1 - 1] = "n"))
        <5>1. N = <<>> /\ Piece(b, r, c + 1) = <<b[c + 1]>>
          BY <1>4, <4>2 DEF Piece, Number
        <5>2. <<>> \o <<b[c + 1]>> = <<b[c + 1]>>
          <6>1. b[c + 1] \in Out
            BY DEF Out
          <6> QED BY <6>1, OneAndOne
        <5> HIDE DEF N
        <5> QED BY <5>1, <5>2
      <4> QED BY <4>1, <4>2
    <3> HIDE DEF N
    <3> QED BY <3>1, <3>2, <3>3
  <2>3. ASSUME NEW e \in 0..((k - 1) - 1), e \in Good
        PROVE  e + 1 \in Good
    <3>1. /\ e + 1 \in 0..(k - 1) /\ e + 1 \in Nat /\ e + 1 \in 1..(k - 1)
          /\ c + (e + 1) \in Nat /\ c + (e + 1) < Len(b)
          /\ c + ((e + 1) + 1) = (c + (e + 1)) + 1 /\ (c + 1) + (e + 1) = (c + (e + 1)) + 1
      OBVIOUS
    <3>2. Wanted(b, r, (c + (e + 1)) + 1)
      BY <3>1, <1>2, <1>4
    <3>3. b[c + (e + 1)] # "n" /\ c + (e + 1) + 1 # 1 /\ (c + (e + 1) + 1) - 1 = c + (e + 1)
      BY <3>1
    <3>4. Piece(b, r, (c + (e + 1)) + 1) = <<b[(c + (e + 1)) + 1]>>
      BY <3>2, <3>3 DEF Piece
    <3>5. Lines(b, r, (c + (e + 1)) + 1) = Lines(b, r, c + (e + 1)) \o <<b[(c + (e + 1)) + 1]>>
      BY <3>1, <3>4, LinesNext
    <3>6. SubSeq(b, c + 1, c + ((e + 1) + 1)) = SubSeq(b, c + 1, c + (e + 1)) \o <<b[(c + (e + 1)) + 1]>>
      BY <3>1, OneMore
    <3>7. /\ SubSeq(b, c + 1, c + (e + 1)) \in Seq(Out) /\ <<b[(c + (e + 1)) + 1]>> \in Seq(Out)
      <4>1. SubSeq(b, c + 1, c + (e + 1)) \in Seq(Byte)
        BY <3>1, SubSeqType
      <4>2. b[(c + (e + 1)) + 1] \in Byte
        BY <3>1
      <4> QED BY <4>1, <4>2 DEF Out
    <3>8. Lines(b, r, c + (e + 1)) = Lines(b, r, c) \o (N \o SubSeq(b, c + 1, c + (e + 1)))
      BY <2>3
    <3> HIDE DEF N
    <3>9. Lines(b, r, c + ((e + 1) + 1)) = Lines(b, r, c) \o (N \o SubSeq(b, c + 1, c + ((e + 1) + 1)))
      <4>1. Lines(b, r, c + ((e + 1) + 1)) = (Lines(b, r, c) \o (N \o SubSeq(b, c + 1, c + (e + 1)))) \o <<b[(c + (e + 1)) + 1]>>
        BY <3>1, <3>5, <3>8
      <4>2. @ = Lines(b, r, c) \o (N \o (SubSeq(b, c + 1, c + (e + 1)) \o <<b[(c + (e + 1)) + 1]>>))
        <5> DEFINE L == Lines(b, r, c)
                   S == SubSeq(b, c + 1, c + (e + 1))
                   X == <<b[(c + (e + 1)) + 1]>>
        <5>1. L \in Seq(Out) /\ N \in Seq(Out) /\ S \in Seq(Out) /\ X \in Seq(Out)
          BY <2>1, <3>7
        <5> HIDE DEF L, S, X, N
        <5>2. (L \o (N \o S)) \o X = L \o (N \o (S \o X))
          BY ONLY <5>1, ConcatAssoc, SMTT(60)
        <5> QED BY <5>2 DEF L, S, X
      <4> QED BY <4>1, <4>2, <3>6
    <3> QED BY <3>1, <3>9
  <2>4. 0..(k - 1) \subseteq Good
    <3> HIDE DEF Good
    <3> QED BY <1>0, <2>2, <2>3, BySteps
  <2>5. k - 1 \in Good /\ (k - 1) + 1 = k
    <3>1. k - 1 \in 0..(k - 1) /\ (k - 1) + 1 = k
      OBVIOUS
    <3> HIDE DEF Good
    <3> QED BY <2>4, <3>1
  <2>6. Lines(b, r, c + ((k - 1) + 1)) = Lines(b, r, c) \o (N \o SubSeq(b, c + 1, c + ((k - 1) + 1)))
    BY <2>5
  <2> HIDE DEF N
  <2>7. Lines(b, r, c + k) = Lines(b, r, c) \o (N \o SubSeq(b, c + 1, c + k))
    BY <2>5, <2>6
  <2> QED BY <2>7, <1>4 DEF N
<1> QED BY <1>3, <1>4

(* Where an answer over its cap is cut. *)
LEMMA KeptCut ==
  ASSUME NEW T, NEW s \in Seq(T), NEW max \in Nat, Len(s) > max
  PROVE  \E n \in 0..max : /\ Kept(s, max) = SubSeq(s, 1, n)
                           /\ n = 0 \/ s[n + 1] # "t"
<1> DEFINE Cuts == {i \in 0..max : i = 0 \/ Boundary(s, i)}
           n == Max(Cuts)
<1>1. Cuts \in SUBSET (0..max) /\ Cuts # {}
  <2>1. 0 \in Cuts
    OBVIOUS
  <2> QED BY <2>1
<1>2. \E x \in Cuts : \A y \in Cuts : x >= y
  <2> HIDE DEF Cuts
  <2>1. PICK x \in Cuts : \A y \in Cuts : y <= x
    BY <1>1, GreatestElement
  <2>2. \A y \in Cuts : x >= y
    BY <2>1, <1>1
  <2> QED BY <2>2
<1>3. n \in Cuts
  <2> HIDE DEF Cuts
  <2> QED BY <1>2 DEF Max
<1>4. Kept(s, max) = SubSeq(s, 1, n)
  <2>1. ~(Len(s) <= max)
    OBVIOUS
  <2> QED BY <2>1, Zenon DEF Kept
<1>5. n # 0 => s[n + 1] # "t"
  <2> HIDE DEF n
  <2>1. n \in 0..max /\ n # Len(s) /\ (n = 0 \/ Boundary(s, n))
    BY <1>3
  <2> QED BY <2>1 DEF Boundary
<1> HIDE DEF n
<1> QED BY <1>3, <1>4, <1>5

LEMMA KeptPrefix ==
  ASSUME NEW T, NEW s \in Seq(T), NEW max \in Nat
  PROVE  Kept(s, max) \in Seq(T) /\ IsPrefix(Kept(s, max), s) /\ Len(Kept(s, max)) <= max
<1>1. CASE Len(s) <= max
  <2>1. Kept(s, max) = s
    BY <1>1 DEF Kept
  <2> QED BY <1>1, <2>1 DEF IsPrefix
<1>2. CASE Len(s) > max
  <2>1. PICK n \in 0..max : Kept(s, max) = SubSeq(s, 1, n)
    BY <1>2, KeptCut
  <2>2. n \in 0..Len(s) /\ n <= max
    BY <1>2
  <2> QED BY <2>1, <2>2, CutIsPrefix
<1> QED BY <1>1, <1>2

(* A text some of whose characters may be missing, but for the end in one piece. *)
Tidy(s) ==
  \A p \in 1..Len(s) :
    /\ s[p] = "h" /\ p < Len(s) => s[p + 1] = "t"
    /\ s[p] = "t" => p > 1 /\ s[p - 1] = "h"

(* ... and whether its last byte is the head of a character. *)
EndsOpen(s) == Len(s) > 0 /\ s[Len(s)] = "h"

LEMMA TidyIsWellFormed ==
  ASSUME NEW T, NEW s \in Seq(T), Tidy(s), ~EndsOpen(s)
  PROVE  WellFormed(s)
BY DEF Tidy, EndsOpen, WellFormed

(* The cap cuts no character in two. *)
LEMMA KeptTidy ==
  ASSUME NEW T, NEW s \in Seq(T), Tidy(s), NEW max \in Nat, Len(s) > max
  PROVE  WellFormed(Kept(s, max))
<1>1. PICK n \in 0..max : /\ Kept(s, max) = SubSeq(s, 1, n)
                          /\ n = 0 \/ s[n + 1] # "t"
  BY KeptCut
<1>2. n \in 0..Len(s) /\ n < Len(s) /\ n \in Nat
  OBVIOUS
<1> DEFINE c == SubSeq(s, 1, n)
<1>3. c \in Seq(T) /\ Len(c) = n /\ \A i \in 1..n : c[i] = s[i]
  BY <1>2, CutIsPrefix
<1> HIDE DEF c
<1>4. Tidy(c)
  <2> SUFFICES ASSUME NEW p \in 1..Len(c)
               PROVE  /\ c[p] = "h" /\ p < Len(c) => c[p + 1] = "t"
                      /\ c[p] = "t" => p > 1 /\ c[p - 1] = "h"
    BY DEF Tidy
  <2>1. /\ p \in 1..Len(s) /\ c[p] = s[p] /\ (p < Len(c) => c[p + 1] = s[p + 1] /\ p < Len(s))
        /\ (p > 1 => c[p - 1] = s[p - 1])
    BY <1>2, <1>3
  <2> QED BY <2>1 DEF Tidy
<1>5. ~EndsOpen(c)
  <2>1. CASE n = 0
    BY <2>1, <1>3 DEF EndsOpen
  <2>2. CASE n # 0
    <3>1. n \in 1..Len(s) /\ s[n + 1] # "t" /\ c[n] = s[n]
      BY <2>2, <1>1, <1>2, <1>3
    <3>2. s[n] # "h"
      BY <3>1, <1>2 DEF Tidy
    <3> QED BY <3>1, <3>2, <1>3 DEF EndsOpen
  <2> QED BY <2>1, <2>2
<1> QED BY <1>1, <1>3, <1>4, <1>5, TidyIsWellFormed DEF c

LEMMA TidyMore ==
  ASSUME NEW T, NEW s \in Seq(T), Tidy(s), NEW c \in T, EndsOpen(s) <=> c = "t"
  PROVE  Tidy(Append(s, c))
<1> DEFINE u == Append(s, c)
<1>1. Len(u) = Len(s) + 1 /\ Len(s) \in Nat /\ u[Len(s) + 1] = c /\ \A p \in 1..Len(s) : u[p] = s[p]
  OBVIOUS
<1> HIDE DEF u
<1>2. ASSUME NEW p \in 1..Len(s)
      PROVE  /\ u[p] = "h" /\ p < Len(u) => u[p + 1] = "t"
             /\ u[p] = "t" => p > 1 /\ u[p - 1] = "h"
  <2>1. CASE p < Len(s)
    <3>1. u[p] = s[p] /\ u[p + 1] = s[p + 1] /\ (p > 1 => u[p - 1] = s[p - 1])
      BY <2>1, <1>1
    <3> QED BY <3>1, <2>1 DEF Tidy
  <2>2. CASE p = Len(s)
    <3>1. u[p] = s[p] /\ u[p + 1] = c /\ (p > 1 => u[p - 1] = s[p - 1])
      BY <2>2, <1>1
    <3>2. s[p] = "t" => p > 1 /\ s[p - 1] = "h"
      BY DEF Tidy
    <3>3. s[p] = "h" => c = "t"
      BY <2>2, <1>1 DEF EndsOpen
    <3> QED BY <3>1, <3>2, <3>3
  <2> QED BY <2>1, <2>2, <1>1
<1>3. u[Len(s) + 1] = "t" => Len(s) + 1 > 1 /\ u[Len(s) + 1 - 1] = "h"
  <2> SUFFICES ASSUME c = "t" PROVE Len(s) + 1 > 1 /\ u[Len(s) + 1 - 1] = "h"
    BY <1>1
  <2>1. Len(s) > 0 /\ s[Len(s)] = "h"
    BY DEF EndsOpen
  <2> QED BY <2>1, <1>1
<1>4. Tidy(u)
  <2> SUFFICES ASSUME NEW p \in 1..Len(u)
               PROVE  /\ u[p] = "h" /\ p < Len(u) => u[p + 1] = "t"
                      /\ u[p] = "t" => p > 1 /\ u[p - 1] = "h"
    BY DEF Tidy
  <2>1. CASE p \in 1..Len(s)
    BY <2>1, <1>2
  <2>2. CASE p = Len(s) + 1
    BY <2>2, <1>1, <1>3
  <2> QED BY <2>1, <2>2, <1>1
<1> QED BY <1>4 DEF u

(* Of a file that is text the lines are tidy, and end open only where its bytes do. *)
LEMMA LinesTidy ==
  ASSUME NEW b \in Seq(Byte), WellFormed(b), NEW r \in Params, NEW k \in 0..Len(b)
  PROVE  /\ Tidy(Lines(b, r, k))
         /\ EndsOpen(Lines(b, r, k)) => k > 0 /\ Wanted(b, r, k) /\ b[k] = "h"
<1> DEFINE L(j) == Lines(b, r, j)
      Fine(j) == /\ Tidy(L(j))
                 /\ EndsOpen(L(j)) => j > 0 /\ Wanted(b, r, j) /\ b[j] = "h"
                 /\ j > 0 /\ Wanted(b, r, j) /\ b[j] = "h" => EndsOpen(L(j))
      Good == {j \in 0..k : Fine(j)}
<1>1. 0 \in Good
  <2>1. L(0) = <<>>
    BY LinesNone
  <2>2. Fine(0)
    BY <2>1 DEF Tidy, EndsOpen
  <2> HIDE DEF Fine
  <2> QED BY <2>2
<1>2. ASSUME NEW j \in 0..(k - 1), j \in Good
      PROVE  j + 1 \in Good
  <2>1. Fine(j) /\ j \in Nat /\ j < Len(b) /\ j + 1 \in 0..k /\ j + 1 \in 1..Len(b) /\ j \in 0..Len(b)
    <3> HIDE DEF Fine
    <3> QED BY <1>2
  <2>2. L(j + 1) = L(j) \o Piece(b, r, j + 1) /\ L(j) \in Seq(Out)
    BY <2>1, LinesNext, PiecesType
  <2> DEFINE c == b[j + 1]
  <2>3. c \in Out /\ c # "#" /\ c \in Byte
    <3>1. c \in Byte
      BY <2>1
    <3> QED BY <3>1 DEF Out, Byte
  <2>4. c = "t" => j > 0 /\ b[j] = "h"
    <3>1. c = "t" => j + 1 > 1 /\ b[j + 1 - 1] = "h"
      BY <2>1 DEF WellFormed
    <3>2. j + 1 - 1 = j
      BY <2>1
    <3> QED BY <3>1, <3>2, <2>1
  <2>5. j > 0 /\ b[j] = "h" => c = "t" /\ (Wanted(b, r, j + 1) <=> Wanted(b, r, j))
    <3>1. j > 0 /\ b[j] = "h" => c = "t"
      BY <2>1 DEF WellFormed
    <3>2. j > 0 /\ b[j] = "h" => LineOf(b, j + 1) = LineOf(b, j)
      <4> SUFFICES ASSUME j > 0, b[j] = "h" PROVE LineOf(b, j + 1) = LineOf(b, j)
        OBVIOUS
      <4>1. j \in Nat \ {0} /\ b[j] # "n"
        BY <2>1
      <4> QED BY <4>1, LineOfNext
    <3> QED BY <3>1, <3>2 DEF Wanted
  <2>6. CASE ~Wanted(b, r, j + 1)
    <3>1. L(j + 1) = L(j)
      <4>1. Piece(b, r, j + 1) = <<>>
        BY <2>6 DEF Piece
      <4> HIDE DEF L
      <4> QED BY <4>1, <2>2
    <3>2. ~EndsOpen(L(j))
      BY <2>1, <2>5, <2>6
    <3>3. Fine(j + 1)
      BY <3>1, <3>2, <2>1, <2>6
    <3> HIDE DEF Fine
    <3> QED BY <3>3, <2>1
  <2>7. CASE Wanted(b, r, j + 1)
    <3>1. EndsOpen(L(j)) <=> c = "t"
      BY <2>1, <2>4, <2>5, <2>7
    <3>2. L(j + 1) = Append(L(j), c) \/ (L(j + 1) = Append(Append(L(j), "#"), c) /\ c # "t")
      <4>1. CASE r.number /\ (j + 1 = 1 \/ b[j + 1 - 1] = "n")
        <5>1. Piece(b, r, j + 1) = <<"#", c>>
          BY <4>1, <2>7 DEF Piece
        <5>2. L(j + 1) = Append(Append(L(j), "#"), c)
          <6> HIDE DEF L, c
          <6>1. "#" \in Out
            BY DEF Out
          <6>2. L(j) \o <<"#", c>> = Append(Append(L(j), "#"), c)
            BY <6>1, <2>2, <2>3, AddOneOrTwo
          <6> QED BY <5>1, <6>2, <2>2
        <5>3. c # "t"
          <6>1. j + 1 - 1 = j
            BY <2>1
          <6> QED BY <6>1, <4>1, <2>1, <2>4
        <5> QED BY <5>2, <5>3
      <4>2. CASE ~(r.number /\ (j + 1 = 1 \/ b[j + 1 - 1] = "n"))
        <5>1. Piece(b, r, j + 1) = <<c>>
          BY <4>2, <2>7 DEF Piece
        <5>2. L(j + 1) = Append(L(j), c)
          <6> HIDE DEF L, c
          <6>2. L(j) \o <<c>> = Append(L(j), c)
            BY <2>2, <2>3, AddOneOrTwo
          <6> QED BY <5>1, <6>2, <2>2
        <5> QED BY <5>2
      <4> QED BY <4>1, <4>2
    <3>3. Tidy(L(j + 1))
      <4>1. CASE L(j + 1) = Append(L(j), c)
        <5>1. Tidy(Append(L(j), c))
          <6>1. Tidy(L(j))
            BY <2>1
          <6> HIDE DEF L, c
          <6> QED BY <6>1, <2>2, <2>3, <3>1, TidyMore
        <5> QED BY <4>1, <5>1
      <4>2. CASE L(j + 1) = Append(Append(L(j), "#"), c) /\ c # "t"
        <5>1. Tidy(L(j)) /\ "#" \in Out /\ ~EndsOpen(L(j))
          BY <2>1, <4>2, <3>1 DEF Out
        <5> DEFINE m == Append(L(j), "#")
        <5>2. Tidy(m)
          <6> HIDE DEF L
          <6> QED BY <5>1, <2>2, TidyMore
        <5>3. m \in Seq(Out) /\ ~EndsOpen(m)
          <6> HIDE DEF L
          <6>1. m \in Seq(Out) /\ Len(m) = Len(L(j)) + 1 /\ m[Len(L(j)) + 1] = "#" /\ Len(L(j)) \in Nat
            BY <5>1, <2>2
          <6> QED BY <6>1 DEF EndsOpen
        <5> HIDE DEF m, c, L
        <5>4. Tidy(Append(m, c))
          BY <5>2, <5>3, <2>3, <4>2, TidyMore
        <5> QED BY <5>4, <4>2 DEF m
      <4> QED BY <3>2, <4>1, <4>2
    <3>4. EndsOpen(L(j + 1)) <=> c = "h"
      <4> HIDE DEF L, c
      <4>1. L(j + 1) \in Seq(Out) /\ Len(L(j + 1)) > 0 /\ L(j + 1)[Len(L(j + 1))] = c
        <5>1. "#" \in Out
          BY DEF Out
        <5>2. PICK u \in Seq(Out) : L(j + 1) = Append(u, c)
          <6>1. Append(L(j), "#") \in Seq(Out)
            BY <2>2, <5>1, AddOneOrTwo
          <6> QED BY <3>2, <2>2, <6>1
        <5>3. /\ Append(u, c) \in Seq(Out) /\ Len(Append(u, c)) = Len(u) + 1
              /\ Append(u, c)[Len(u) + 1] = c /\ Len(u) + 1 > 0
          BY ONLY <2>3, u \in Seq(Out)
        <5> QED BY ONLY <5>2, <5>3
      <4> QED BY <4>1 DEF EndsOpen
    <3>5. Fine(j + 1)
      BY <3>3, <3>4, <2>1, <2>7
    <3> HIDE DEF Fine
    <3> QED BY <3>5, <2>1
  <2> QED BY <2>6, <2>7
<1>3. k \in Good
  <2>1. k \in Nat /\ k \in 0..k
    OBVIOUS
  <2> HIDE DEF Good
  <2>2. 0..k \subseteq Good
    BY <1>1, <1>2, <2>1, BySteps
  <2> QED BY <2>1, <2>2
<1> QED BY <1>3

-----------------------------------------------------------------------------
(* How far a scan of b may go, whether the range was over by then, and what may be answered. *)
Scan(b) == Min({Ceiling + 1, Len(b)})

Ended(b, r) == r.limit # 0 /\ LineOf(b, Scan(b) + 1) >= r.offset + r.limit

Honest(b, r, a) ==
  LET overCap == Len(Lines(b, r, Scan(b))) > r.max
      split == Len(b) > Ceiling /\ ~WellFormed(SubSeq(b, 1, Scan(b)))
  IN  /\ IsPrefix(a.content, Lines(b, r, Scan(b)))
      /\ Len(a.content) <= r.max
      /\ ~a.truncated => a.content = Lines(b, r, Len(b))
      /\ a.truncated => overCap \/ (Len(b) > Ceiling /\ ~Ended(b, r))
      /\ (WellFormed(b) /\ a.lossy) => split /\ ~overCap

Given(o, r, cut) ==
  [outcome |-> "ok", content |-> Kept(o, r.max), lossy |-> ~WellFormed(Kept(o, r.max)),
   truncated |-> Len(o) > r.max \/ cut]

LEMMA ScanRange ==
  ASSUME ReadAssumption, NEW b \in Seq(Byte)
  PROVE  /\ Scan(b) \in 0..Len(b) /\ Scan(b) \in Nat
         /\ Scan(b) = IF Ceiling + 1 <= Len(b) THEN Ceiling + 1 ELSE Len(b)
<1>1. Ceiling + 1 \in Nat /\ Len(b) \in Nat
  BY DEF ReadAssumption
<1> QED BY <1>1, MinOfTwo DEF Scan

(* What makes an answer honest, whichever way the loop ended. *)
LEMMA HonestEnd ==
  ASSUME ReadAssumption, NEW b \in Seq(Byte), NEW r \in Params, NEW c \in 0..Scan(b), NEW cut \in BOOLEAN,
         ~cut /\ Len(Lines(b, r, c)) <= r.max => Lines(b, r, c) = Lines(b, r, Len(b)),
         cut => Len(b) > Ceiling /\ ~Ended(b, r),
         WellFormed(b) /\ Len(Lines(b, r, c)) <= r.max /\ EndsOpen(Lines(b, r, c))
           => Len(b) > Ceiling /\ c = Scan(b)
  PROVE  Honest(b, r, Given(Lines(b, r, c), r, cut))
<1> DEFINE o == Lines(b, r, c)
           kept == Kept(o, r.max)
           all == Lines(b, r, Scan(b))
<1>1. Scan(b) \in 0..Len(b) /\ c \in 0..Len(b) /\ Scan(b) \in c..Len(b) /\ r.max \in Nat
  BY ScanRange DEF Params
<1>2. o \in Seq(Out) /\ all \in Seq(Out) /\ IsPrefix(o, all)
  BY <1>1, PiecesType, LinesPrefix
<1>3. kept \in Seq(Out) /\ IsPrefix(kept, o) /\ Len(kept) <= r.max
  <2> HIDE DEF o
  <2> QED BY <1>1, <1>2, KeptPrefix
<1>4. IsPrefix(kept, all)
  <2> HIDE DEF o, kept, all
  <2> QED BY <1>2, <1>3, PrefixTransitive
<1>5. Len(o) <= r.max => kept = o
  BY DEF Kept
<1>6. Len(o) > r.max => Len(all) > r.max
  <2> HIDE DEF o, kept, all
  <2>1. Len(o) <= Len(all) /\ Len(o) \in Nat /\ Len(all) \in Nat
    BY <1>2 DEF IsPrefix
  <2> QED BY <2>1, <1>1
<1>7. ASSUME WellFormed(b), ~WellFormed(kept)
      PROVE  Len(b) > Ceiling /\ ~WellFormed(SubSeq(b, 1, Scan(b))) /\ ~(Len(all) > r.max)
  <2>1. Tidy(o) /\ (EndsOpen(o) => c > 0 /\ b[c] = "h")
    BY <1>1, <1>7, LinesTidy
  <2>2. Len(o) <= r.max
    <3> SUFFICES ASSUME Len(o) > r.max PROVE FALSE
      <4> HIDE DEF o
      <4>1. Len(o) \in Nat
        BY <1>2
      <4> QED BY <4>1, <1>1
    <3> HIDE DEF o
    <3> QED BY <1>1, <1>2, <1>7, <2>1, KeptTidy
  <2>3. EndsOpen(o)
    <3>1. ~WellFormed(o)
      BY <1>5, <1>7, <2>2
    <3> HIDE DEF o
    <3> QED BY <3>1, <2>1, <1>2, TidyIsWellFormed
  <2>4. Len(b) > Ceiling /\ c = Scan(b)
    BY <1>7, <2>2, <2>3
  <2>5. ~WellFormed(SubSeq(b, 1, Scan(b)))
    <3> DEFINE w == SubSeq(b, 1, Scan(b))
    <3>1. Len(w) = c /\ c \in Nat /\ c \in 1..c /\ w[c] = "h"
      <4>1. c \in Nat /\ c > 0
        BY <2>1, <2>3
      <4>2. Len(w) = Scan(b) /\ \A i \in 1..Scan(b) : w[i] = b[i]
        <5> HIDE DEF w
        <5> QED BY <1>1, CutIsPrefix DEF w
      <4>3. c \in 1..Scan(b)
        BY <4>1, <2>4
      <4>4. w[c] = "h"
        BY <4>2, <4>3, <2>1, <2>3
      <4> HIDE DEF w
      <4> QED BY <4>1, <4>2, <4>4, <2>4
    <3> HIDE DEF w
    <3>2. ~WellFormed(w)
      BY <3>1 DEF WellFormed
    <3> QED BY <3>2 DEF w
  <2>6. all = o
    BY <2>4
  <2>7. Len(o) \in Nat
    <3> HIDE DEF o
    <3> QED BY <1>2
  <2> HIDE DEF o, all
  <2> QED BY <2>2, <2>4, <2>5, <2>6, <2>7, <1>1
<1>8. ~(Len(o) > r.max \/ cut) => kept = Lines(b, r, Len(b))
  <2>1. Len(o) \in Nat
    <3> HIDE DEF o
    <3> QED BY <1>2
  <2>2. ~(Len(o) > r.max) => Len(o) <= r.max
    <3> HIDE DEF o
    <3> QED BY <2>1, <1>1
  <2> QED BY <2>2, <1>5
<1>9. (Len(o) > r.max \/ cut) => Len(all) > r.max \/ (Len(b) > Ceiling /\ ~Ended(b, r))
  BY <1>6
<1> DEFINE a == Given(o, r, cut)
<1>10. a.content = kept /\ (a.truncated <=> Len(o) > r.max \/ cut) /\ (a.lossy <=> ~WellFormed(kept))
  BY DEF Given
<1> HIDE DEF kept, o, a, all
<1>11. Honest(b, r, a)
  BY <1>3, <1>4, <1>7, <1>8, <1>9, <1>10 DEF Honest, all
<1> QED BY <1>11 DEF a, o

(* A plain read asks for every byte. *)
LEMMA PlainLines ==
  ASSUME NEW b \in Seq(Byte), NEW r \in Params, r.offset = 1, r.limit = 0, ~r.number, NEW k \in 0..Len(b)
  PROVE  Lines(b, r, k) = SubSeq(b, 1, k)
<1> DEFINE Good == {j \in 0..k : Lines(b, r, j) = SubSeq(b, 1, j)}
<1>1. 0 \in Good
  <2>1. SubSeq(b, 1, 0) = <<>>
    BY SubSeqEmpty
  <2>2. Lines(b, r, 0) = <<>> /\ 0 \in 0..k
    BY LinesNone
  <2> QED BY <2>1, <2>2
<1>2. ASSUME NEW j \in 0..(k - 1), j \in Good
      PROVE  j + 1 \in Good
  <2>1. /\ j \in Nat /\ j < Len(b) /\ j + 1 \in 0..k /\ j + 1 \in Nat \ {0}
        /\ 0 + 1 = 1 /\ 0 + j = j /\ 0 + (j + 1) = j + 1 /\ 0 \in Nat
    OBVIOUS
  <2>2. Piece(b, r, j + 1) = <<b[j + 1]>>
    <3>1. LineOf(b, j + 1) \in Nat \ {0}
      BY <2>1, LineOfNext
    <3>2. Wanted(b, r, j + 1)
      BY <3>1 DEF Wanted
    <3> QED BY <3>2 DEF Piece
  <2>3. Lines(b, r, j + 1) = Lines(b, r, j) \o <<b[j + 1]>>
    BY <2>1, <2>2, LinesNext
  <2>4. SubSeq(b, 1, j + 1) = SubSeq(b, 1, j) \o <<b[j + 1]>>
    <3>1. SubSeq(b, 0 + 1, 0 + (j + 1)) = SubSeq(b, 0 + 1, 0 + j) \o <<b[0 + j + 1]>>
      BY <2>1, OneMore
    <3> QED BY <3>1, <2>1
  <2> QED BY <2>1, <2>3, <2>4, <1>2
<1>3. k \in Good
  <2>1. k \in Nat /\ k \in 0..k
    OBVIOUS
  <2> HIDE DEF Good
  <2>2. 0..k \subseteq Good
    BY <1>1, <1>2, <2>1, BySteps
  <2> QED BY <2>1, <2>2
<1> QED BY <1>3

-----------------------------------------------------------------------------
(* The locals of the loop tell how far it is and what it has kept. *)
Locals(b, r, s) ==
  /\ s \in [out: Seq(Out), line: Nat \ {0}, kept: Nat, consumed: 0..Len(b), fresh: BOOLEAN]
  /\ s.out = Lines(b, r, s.consumed)
  /\ s.line = LineOf(b, s.consumed + 1)
  /\ s.kept = IF s.line < r.offset THEN 0 ELSE s.line - r.offset

Within(r, s) == s.line >= r.offset /\ (r.limit = 0 \/ s.kept < r.limit)

Fresh(b, r, s) == Within(r, s) => (s.fresh <=> s.consumed = 0 \/ b[s.consumed] = "n")

(* What holds of them while it goes on. *)
Going(b, r, s) ==
  /\ Locals(b, r, s)
  /\ s.consumed <= Ceiling
  /\ ~(s.line >= r.offset /\ r.limit # 0 /\ s.kept >= r.limit)
  /\ Len(s.out) <= r.max
  /\ Fresh(b, r, s)

(* The loop's test is the range's. *)
LEMMA InRangeIsWanted ==
  ASSUME text \in Seq(Byte), range \in Params, Going(text, range, scan)
  PROVE  /\ InRange <=> Wanted(text, range, scan.consumed + 1)
         /\ InRange <=> scan.line >= range.offset
  BY DEF Going, Locals, InRange, Wanted, Params

(* The number is printed where a line begins. *)
LEMMA NumberOf ==
  ASSUME NEW b, NEW r, NEW c \in Nat, NEW fresh, fresh <=> c = 0 \/ b[c] = "n"
  PROVE  Number(b, r, c + 1) = IF fresh /\ r.number THEN <<"#">> ELSE <<>>
<1>1. c + 1 - 1 = c /\ (c + 1 = 1 <=> c = 0)
  OBVIOUS
<1>2. r.number /\ (c + 1 = 1 \/ b[c + 1 - 1] = "n") <=> fresh /\ r.number
  BY <1>1
<1>3. CASE fresh /\ r.number
  <2>1. r.number /\ (c + 1 = 1 \/ b[c + 1 - 1] = "n")
    BY <1>2, <1>3
  <2>2. Number(b, r, c + 1) = <<"#">>
    BY <2>1 DEF Number
  <2> QED BY <1>3, <2>2
<1>4. CASE ~(fresh /\ r.number)
  <2>1. ~(r.number /\ (c + 1 = 1 \/ b[c + 1 - 1] = "n"))
    BY <1>2, <1>4
  <2>2. Number(b, r, c + 1) = <<>>
    BY <2>1 DEF Number
  <2> QED BY <1>4, <2>2
<1> QED BY <1>3, <1>4

(* One turn of the loop keeps what its locals tell. *)
LEMMA ChunkRead ==
  ASSUME ReadAssumption, text \in Seq(Byte), range \in Params, Going(text, range, scan),
         NEW k \in 1..(Scanned - scan.consumed),
         \A i \in 1..(k - 1) : text[scan.consumed + i] # "n"
  PROVE  /\ Locals(text, range, Consumed(k)) /\ Consumed(k).consumed = scan.consumed + k
         /\ scan.consumed + k \in 0..Scanned
         /\ ~InRange => Consumed(k).out = scan.out
         /\ Fresh(text, range, Consumed(k))
<1> DEFINE c == scan.consumed
           chunk == SubSeq(text, c + 1, c + k)
           s == Consumed(k)
           feed == Last(chunk) = "n"
<1>0. Scanned = Scan(text) /\ Scanned \in 0..Len(text)
  BY ScanRange DEF Scanned, Scan
<1>1. c \in 0..Len(text) /\ c \in Nat /\ k \in Nat \ {0} /\ c + k <= Len(text) /\ c + k \in 0..Scanned
      /\ c + k \in 1..Len(text) /\ c + 1 \in Nat \ {0} /\ k - 1 \in Nat
  BY <1>0 DEF Going, Locals
<1>2. /\ s.out = IF InRange
                 THEN scan.out \o (IF scan.fresh /\ range.number THEN <<"#">> ELSE <<>>) \o chunk
                 ELSE scan.out
      /\ s.line = IF feed THEN scan.line + 1 ELSE scan.line
      /\ s.kept = IF feed /\ InRange THEN scan.kept + 1 ELSE scan.kept
      /\ s.consumed = c + k
      /\ s.fresh = IF feed THEN TRUE ELSE IF InRange THEN FALSE ELSE scan.fresh
  BY DEF Consumed
<1>3. feed <=> text[c + k] = "n"
  <2>1. Len(chunk) = k /\ chunk[k] = text[c + k]
    <3>1. k \in 1..k /\ k \in Nat /\ c \in Nat /\ c + k <= Len(text)
      BY ONLY <1>1
    <3> HIDE DEF c
    <3>2. Len(chunk) = k /\ \A i \in 1..k : chunk[i] = text[c + i]
      BY ONLY <3>1, text \in Seq(Byte), SubSeqAt
    <3> HIDE DEF chunk
    <3> QED BY <3>1, <3>2
  <2> HIDE DEF chunk
  <2> QED BY <2>1 DEF Last
<1>4. LineOf(text, c + k + 1) = IF text[c + k] = "n" THEN LineOf(text, c + 1) + 1 ELSE LineOf(text, c + 1)
  <2>1. \A e \in 0..((k - 1) - 1) : text[(c + 1) + e] # "n"
    <3> TAKE e \in 0..((k - 1) - 1)
    <3>1. e + 1 \in 1..(k - 1) /\ c + (e + 1) = (c + 1) + e
      BY ONLY <1>1, e \in 0..((k - 1) - 1), SMTT(30)
    <3> QED BY <3>1
  <2>2. \A e \in 0..(k - 1) : LineOf(text, (c + 1) + e) = LineOf(text, c + 1)
    BY <2>1, <1>1, SameLine
  <2>3. LineOf(text, c + k) = LineOf(text, c + 1)
    <3>1. k - 1 \in 0..(k - 1) /\ (c + 1) + (k - 1) = c + k
      BY <1>1
    <3> QED BY <3>1, <2>2
  <2>4. c + k \in Nat \ {0}
    BY ONLY <1>1
  <2> QED BY ONLY <2>3, <2>4, LineOfNext
<1>5. InRange <=> Wanted(text, range, c + 1)
  BY InRangeIsWanted
<1>6. InRange => (IF scan.fresh /\ range.number THEN <<"#">> ELSE <<>>) = Number(text, range, c + 1)
  <2>1. InRange => (scan.fresh <=> c = 0 \/ text[c] = "n")
    BY DEF Going, Fresh, Within, InRange
  <2> HIDE DEF c
  <2> QED BY <2>1, <1>1, NumberOf
<1>7. s.out = Lines(text, range, c + k)
  <2>1. scan.out = Lines(text, range, c) /\ scan.out \in Seq(Out)
    BY DEF Going, Locals
  <2>2. Lines(text, range, c + k) =
          IF Wanted(text, range, c + 1)
          THEN scan.out \o (Number(text, range, c + 1) \o chunk)
          ELSE scan.out
    BY <1>1, <2>1, LinesChunk, ZenonT(40)
  <2>3. CASE InRange
    <3>1. chunk \in Seq(Out) /\ Number(text, range, c + 1) \in Seq(Out)
      <4>1. chunk \in Seq(Byte)
        BY <1>1, SubSeqType
      <4>2. "#" \in Out
        BY DEF Out
      <4>3. <<"#">> \in Seq(Out) /\ <<>> \in Seq(Out)
        BY <4>2
      <4>4. chunk \in Seq(Out)
        <5> HIDE DEF chunk
        <5> QED BY <4>1 DEF Out
      <4> QED BY <4>3, <4>4 DEF Number
    <3>2. s.out = scan.out \o Number(text, range, c + 1) \o chunk
      BY <1>2, <1>6, <2>3
    <3> HIDE DEF chunk, s
    <3>3. scan.out \o Number(text, range, c + 1) \o chunk = scan.out \o (Number(text, range, c + 1) \o chunk)
      BY ONLY <3>1, <2>1, SMTT(30)
    <3> QED BY <3>2, <3>3, <2>2, <2>3, <1>5
  <2>4. CASE ~InRange
    BY <1>2, <1>5, <2>1, <2>2, <2>4
  <2> QED BY <2>3, <2>4
<1>8. s.line = LineOf(text, c + k + 1) /\ s.line \in Nat \ {0}
  <2>1. scan.line = LineOf(text, c + 1) /\ scan.line \in Nat \ {0}
    BY DEF Going, Locals
  <2> HIDE DEF s, feed
  <2> QED BY <2>1, <1>2, <1>3, <1>4
<1>9. s.kept = (IF s.line < range.offset THEN 0 ELSE s.line - range.offset) /\ s.kept \in Nat
  <2>1. /\ scan.kept = IF scan.line < range.offset THEN 0 ELSE scan.line - range.offset
        /\ scan.kept \in Nat /\ scan.line \in Nat /\ range.offset \in Nat \ {0}
    BY DEF Going, Locals, Params
  <2>2. InRange <=> scan.line >= range.offset
    BY InRangeIsWanted
  <2> HIDE DEF s, feed
  <2> QED BY <2>1, <2>2, <1>2
<1>10. s.fresh \in BOOLEAN
  <2>1. scan.fresh \in BOOLEAN
    BY DEF Going, Locals
  <2> HIDE DEF s, feed
  <2> QED BY <1>2, <2>1
<1>11. s.out \in Seq(Out)
  <2>1. c + k \in 0..Len(text)
    BY <1>1
  <2> HIDE DEF s
  <2> QED BY <1>7, <2>1, PiecesType
<1>12. s = [out |-> s.out, line |-> s.line, kept |-> s.kept, consumed |-> s.consumed, fresh |-> s.fresh]
  BY DEF Consumed
<1>13. Locals(text, range, s)
  <2>1. c + k \in 0..Len(text)
    BY <1>1
  <2> HIDE DEF s
  <2> QED BY <1>2, <1>7, <1>8, <1>9, <1>10, <1>11, <1>12, <2>1 DEF Locals
<1>14. Fresh(text, range, s)
  <2> SUFFICES ASSUME s.line >= range.offset
               PROVE  s.fresh <=> s.consumed = 0 \/ text[s.consumed] = "n"
    BY DEF Fresh, Within
  <2>1. s.consumed # 0
    BY <1>1, <1>2
  <2>2. feed => s.fresh /\ text[s.consumed] = "n"
    BY <1>2, <1>3
  <2>3. ~feed => ~s.fresh /\ text[s.consumed] # "n"
    <3>1. InRange <=> scan.line >= range.offset
      BY InRangeIsWanted
    <3> HIDE DEF s, feed
    <3> QED BY <3>1, <1>2, <1>3
  <2> QED BY <2>1, <2>2, <2>3
<1> QED BY <1>1, <1>2, <1>13, <1>14

-----------------------------------------------------------------------------
(* Where a step may be, and what its state holds. *)
Places == {"start", "open", "name", "verify", "probe", "ask", "entries", "plain", "lines", "done"}

Misses == {"none", "not_found", "permission_denied", "not_a_directory"}

Reads == {"entries", "plain", "lines"}

ReadTypes ==
  /\ rpc \in Places /\ miss \in Misses
  /\ named \in [Entry -> Inode \cup {Gone}]
  /\ been \in [Entry -> SUBSET (Inode \cup {Gone})]
  /\ allowed \in BOOLEAN
  /\ text \in Seq(Byte) /\ range \in Params

(* What is held is what the path shown once named, from the check on. *)
Faithful ==
  /\ \A e \in Entry : named[e] \in been[e]
  /\ rpc = "verify" => shown \in Entry
  /\ rpc = "probe" => miss # "none"
  /\ rpc = "ask" /\ miss = "none" => shown \in Entry /\ rheld \in been[shown]
  /\ rpc \in Reads => shown \in Entry /\ rheld \in been[shown] /\ allowed
  /\ rpc = "done" => ReadsWhatWasShown

(* How far a read has come, and that its answer is honest. *)
Answers ==
  /\ rpc # "done" => reply = NotAsked
  /\ rpc \notin {"lines", "done"} => scan = NoScan
  /\ rpc = "plain" => range.offset = 1 /\ range.limit = 0 /\ ~range.number
  /\ rpc = "lines" => Going(text, range, scan)
  /\ rpc = "done" => HonestAnswer
  /\ rpc = "entries" => rop = "list"
  /\ rpc \in {"plain", "lines"} => rop = "read"

(* The inductive invariant. *)
ReadInv == ReadTypes /\ Faithful /\ Answers

(* What AllowRead takes is typed. *)
LEMMA TypedInput ==
  ASSUME ReadAssumption
  PROVE  /\ Held \subseteq Seq(Byte)
         /\ Range1 \subseteq Params
<1>1. Held \subseteq Seq(Byte)
  <2>1. \A j \in 0..LongestFile : [1..j -> Byte] \subseteq Seq(Byte)
    BY DEF ReadAssumption
  <2>2. Files \subseteq Seq(Byte)
    BY <2>1 DEF Files
  <2>3. <<>> \in Seq(Byte)
    OBVIOUS
  <2> QED BY <2>2, <2>3 DEF Held
<1>2. \A m \in Caps : capped(m) \in 0..Ceiling
  <2> TAKE m \in Caps
  <2>1. m \in Nat /\ Ceiling \in Nat
    BY DEF ReadAssumption
  <2>2. capped(m) = IF m <= Ceiling THEN m ELSE Ceiling
    BY <2>1, MinOfTwo DEF capped
  <2> QED BY <2>1, <2>2
<1>3. Range1 \subseteq Params
  <2>1. 1..MaxLine \subseteq Nat \ {0} /\ 0..MaxLine \subseteq Nat /\ {capped(m) : m \in Caps} \subseteq 0..Ceiling
    BY <1>2 DEF ReadAssumption
  <2> HIDE DEF capped
  <2> QED BY <2>1 DEF Range1, Params
<1> QED BY <1>1, <1>3

-----------------------------------------------------------------------------
LEMMA ReadStarts == ReadAssumption /\ ReadInit => ReadInv
<1> SUFFICES ASSUME ReadAssumption, ReadInit PROVE ReadInv
  OBVIOUS
<1> USE DEF ReadInit
<1>1. ReadTypes
  <2>1. range \in Params
    BY DEF Params, ReadAssumption
  <2>2. text \in Seq(Byte)
    OBVIOUS
  <2> QED BY <2>1, <2>2 DEF ReadTypes, Places, Misses
<1>2. Faithful
  BY DEF Faithful, Reads
<1>3. Answers
  BY DEF Answers
<1> QED BY <1>1, <1>2, <1>3 DEF ReadInv

(* Before a scan begins, it may. *)
LEMMA ScanStarts ==
  ASSUME ReadAssumption, NEW b \in Seq(Byte), NEW r \in Params
  PROVE  Going(b, r, NoScan)
<1> DEFINE s == NoScan
<1>1. /\ s.out = <<>> /\ s.line = 1 /\ s.kept = 0 /\ s.consumed = 0 /\ s.fresh = TRUE
      /\ s \in [out: Seq(Out), line: Nat \ {0}, kept: Nat, consumed: 0..Len(b), fresh: BOOLEAN]
  <2>1. <<>> \in Seq(Out) /\ 0 \in 0..Len(b)
    OBVIOUS
  <2> QED BY <2>1 DEF NoScan
<1>2. r.offset \in Nat \ {0} /\ r.limit \in Nat /\ r.max \in Nat /\ Ceiling \in Nat
  BY DEF Params, ReadAssumption
<1>3. Lines(b, r, 0) = <<>> /\ LineOf(b, 0 + 1) = 1 /\ Len(<<>>) = 0
  BY LinesNone, LineOfFirst
<1> HIDE DEF s
<1>4. Locals(b, r, s)
  BY <1>1, <1>2, <1>3 DEF Locals
<1>5. Going(b, r, s)
  BY <1>1, <1>2, <1>3, <1>4 DEF Going, Fresh
<1> QED BY <1>5 DEF s

(* An answer without content. *)
LEMMA OtherAnswer ==
  ASSUME NEW what, Answered(what)
  PROVE  rpc' = "done" /\ reply'.outcome = what
BY DEF Answered, NotAsked

(* One lemma for the actions before the answer, one for the decision, one for each read. *)
LEMMA AskingKeeps ==
  ASSUME ReadAssumption, ReadInv,
         Start \/ Open \/ Canonicalize \/ Verify \/ Probe \/ Move \/ Fire
  PROVE  ReadInv'
<1> USE DEF ReadInv
<1>1. ReadTypes'
  <2>1. CASE Start \/ Open \/ Canonicalize \/ Verify \/ Probe \/ Fire
    BY <2>1 DEF ReadTypes, Start, Open, Canonicalize, Verify, Probe, Fire, Missed, Answered,
                Places, Misses, worldVars, fileVars
  <2>2. CASE Move
    BY <2>2 DEF ReadTypes, Move, worldVars, fileVars
  <2> QED BY <2>1, <2>2
<1>2. Faithful'
  <2> USE DEF Faithful, ReadTypes, Reads, ReadsWhatWasShown, worldVars, fileVars
  <2>1. CASE Start
    BY <2>1, OtherAnswer DEF Start, Answered, Answers, Places
  <2>2. CASE Open
    BY <2>2, OtherAnswer DEF Open, Missed, Answered, Answers, Places
  <2>3. CASE Canonicalize
    BY <2>3, OtherAnswer DEF Canonicalize, Target, Missed, Answered, Answers, Places
  <2>4. CASE Verify
    BY <2>4, OtherAnswer DEF Verify, Missed, Answered, Answers, Places
  <2>5. CASE Probe
    BY <2>5, OtherAnswer DEF Probe, Missed, Answered, Answers, Places
  <2>6. CASE Fire
    BY <2>6 DEF Fire
  <2>7. CASE Move
    BY <2>7 DEF Move
  <2> QED BY <2>1, <2>2, <2>3, <2>4, <2>5, <2>6, <2>7
<1>3. Answers'
  <2>1. rpc # "done" /\ (rpc \in {"plain", "lines"} => rpc' = rpc) /\ UNCHANGED fileVars
        /\ (rpc' = "done" => reply'.outcome # "ok") /\ (rpc' # "done" => reply' = reply)
        /\ (rpc' \in {"entries", "plain", "lines"} => rpc' = rpc) /\ rop' = rop
    BY DEF Start, Open, Canonicalize, Verify, Probe, Fire, Move, Missed, Answered, NotAsked, Places
  <2>2. rpc' = "done" => HonestAnswer'
    BY <2>1 DEF HonestAnswer
  <2>3. rpc' = "lines" => Going(text, range, scan)'
    BY <2>1 DEF Answers, fileVars
  <2> QED BY <2>1, <2>2, <2>3 DEF Answers, fileVars
<1> QED BY <1>1, <1>2, <1>3

LEMMA DecidingKeeps ==
  ASSUME ReadAssumption, ReadInv, CutRead \/ WithdrawRead \/ DenyRead \/ AllowRead \/ ListEntries
  PROVE  ReadInv'
<1> USE DEF ReadInv, worldVars
<1>1. CASE CutRead \/ WithdrawRead \/ DenyRead
  <2>1. /\ rpc' = "done" /\ reply'.outcome \in {"cancelled", "withdrawn", "denied"}
        /\ UNCHANGED <<rop, named, been, miss, allowed, rheld, shown>> /\ UNCHANGED fileVars
    BY <1>1, OtherAnswer DEF CutRead, WithdrawRead, DenyRead
  <2>2. ReadTypes' /\ Faithful'
    BY <2>1 DEF ReadTypes, Places, fileVars, Faithful, ReadsWhatWasShown, Reads
  <2>3. Answers'
    BY <2>1 DEF Answers, HonestAnswer
  <2> QED BY <2>2, <2>3
<1>2. CASE ListEntries
  <2>1. /\ rpc = "entries" /\ rpc' = "done" /\ reply'.outcome = "ok"
        /\ UNCHANGED <<rop, named, been, miss, allowed, rheld, shown>> /\ UNCHANGED fileVars
    BY <1>2 DEF ListEntries, NotAsked
  <2>2. ReadTypes' /\ Faithful'
    BY <2>1 DEF ReadTypes, Places, fileVars, Faithful, ReadsWhatWasShown, Reads
  <2>3. rop = "list"
    BY <2>1 DEF Answers
  <2>4. Answers'
    BY <2>1, <2>3 DEF Answers, HonestAnswer
  <2> QED BY <2>2, <2>4
<1>3. CASE AllowRead
  <2> USE <1>3
  <2>1. CASE miss # "none" /\ Answered(miss) /\ UNCHANGED fileVars
    <3>1. /\ rpc' = "done" /\ reply'.outcome = miss /\ miss \in Misses \ {"none"} /\ allowed' = TRUE
          /\ UNCHANGED <<rop, named, been, miss, rheld, shown>> /\ UNCHANGED fileVars
      BY <2>1, OtherAnswer DEF AllowRead, ReadTypes
    <3>2. ReadTypes' /\ Faithful'
      BY <3>1 DEF ReadTypes, Places, Misses, fileVars, Faithful, ReadsWhatWasShown, Reads
    <3>3. Answers'
      BY <3>1 DEF Answers, HonestAnswer, Misses
    <3> QED BY <3>2, <3>3
  <2>2. CASE miss = "none" /\ rop = "list" /\ rpc' = "entries" /\ UNCHANGED <<reply, fileVars>>
    <3>1. rpc = "ask" /\ allowed' = TRUE /\ UNCHANGED <<rop, named, been, miss, rheld, shown>>
      BY DEF AllowRead
    <3>2. ReadTypes' /\ Faithful'
      BY <2>2, <3>1 DEF ReadTypes, Places, Misses, fileVars, Faithful, ReadsWhatWasShown, Reads
    <3>3. Answers'
      BY <2>2, <3>1 DEF Answers, fileVars
    <3> QED BY <3>2, <3>3
  <2>3. CASE miss = "none" /\ rop = "read" /\ Answered("is_directory") /\ UNCHANGED fileVars
    <3>1. /\ rpc = "ask" /\ rpc' = "done" /\ reply'.outcome = "is_directory" /\ allowed' = TRUE
          /\ UNCHANGED <<rop, named, been, miss, rheld, shown>>
      BY <2>3, OtherAnswer DEF AllowRead
    <3>2. ReadTypes' /\ Faithful'
      BY <2>3, <3>1 DEF ReadTypes, Places, Misses, fileVars, Faithful, ReadsWhatWasShown, Reads
    <3>3. Answers'
      BY <2>3, <3>1 DEF Answers, HonestAnswer
    <3> QED BY <3>2, <3>3
  <2>4. CASE /\ miss = "none" /\ rop = "read"
             /\ text' \in Held /\ range' \in Range1
             /\ rpc' = IF range'.number \/ range'.offset # 1 \/ range'.limit # 0
                       THEN "lines" ELSE "plain"
             /\ UNCHANGED <<scan, reply>>
    <3>1. rpc = "ask" /\ allowed' = TRUE /\ UNCHANGED <<rop, named, been, miss, rheld, shown>>
      BY DEF AllowRead
    <3>2. text' \in Seq(Byte) /\ range' \in Params
      BY <2>4, TypedInput
    <3>3. ReadTypes' /\ Faithful'
      BY <2>4, <3>1, <3>2 DEF ReadTypes, Places, Misses, Faithful, ReadsWhatWasShown, Reads
    <3>4. scan' = NoScan /\ reply' = NotAsked
      BY <2>4, <3>1 DEF Answers
    <3>5. Going(text', range', scan')
      BY <3>2, <3>4, ScanStarts
    <3>6. Answers'
      BY <2>4, <3>1, <3>4, <3>5 DEF Answers
    <3> QED BY <3>3, <3>6
  <2> QED BY <2>1, <2>2, <2>3, <2>4 DEF AllowRead
<1> QED BY <1>1, <1>2, <1>3

(* The answer returned, as Honest reads it. *)
LEMMA AnswerGiven ==
  ASSUME NEW o, NEW cut, ReturnBytes(o, cut), UNCHANGED <<rop, text, range>>,
         Honest(text, range, Given(o, range, cut))
  PROVE  rpc' = "done" /\ reply'.outcome = "ok" /\ HonestAnswer'
<1>1. rpc' = "done" /\ reply' = Given(o, range, cut)
  BY DEF ReturnBytes, Given
<1>2. reply'.outcome = "ok"
  BY <1>1 DEF Given
<1>3. Honest(text', range', reply')
  BY <1>1
<1>4. HonestAnswer'
  BY <1>2, <1>3 DEF HonestAnswer, Honest, Ended, Scan, Scanned
<1> QED BY <1>1, <1>2, <1>4

(* An honest answer of a file ends the step as it should. *)
LEMMA DoneKeeps ==
  ASSUME ReadAssumption, ReadInv, rpc \in Reads, rpc' = "done", HonestAnswer',
         UNCHANGED <<rop, link, named, been, moves, rheld, shown, miss, allowed, fired, text, range>>
  PROVE  ReadInv'
<1>1. ReadTypes' /\ Faithful'
  BY DEF ReadInv, ReadTypes, Places, Faithful, Reads, ReadsWhatWasShown
<1>2. Answers'
  BY DEF Answers
<1> QED BY <1>1, <1>2 DEF ReadInv

LEMMA ReadPlainKeeps == ReadAssumption /\ ReadInv /\ ReadPlain => ReadInv'
<1> SUFFICES ASSUME ReadAssumption, ReadInv, ReadPlain PROVE ReadInv'
  OBVIOUS
<1> DEFINE c == Min({range.max + 1, Len(text)})
           o == SubSeq(text, 1, c)
<1>1. /\ text \in Seq(Byte) /\ range \in Params /\ rpc = "plain"
      /\ range.offset = 1 /\ range.limit = 0 /\ ~range.number
  BY DEF ReadInv, ReadTypes, Answers, ReadPlain
<1>2. /\ c = IF range.max + 1 <= Len(text) THEN range.max + 1 ELSE Len(text)
      /\ Len(text) \in Nat /\ range.max \in 0..Ceiling /\ Ceiling \in Nat
  <2>1. range.max + 1 \in Nat /\ Len(text) \in Nat /\ range.max \in 0..Ceiling /\ Ceiling \in Nat
    BY <1>1 DEF Params, ReadAssumption
  <2> QED BY <2>1, MinOfTwo
<1>3. c \in 0..Scan(text) /\ c \in 0..Len(text) /\ Len(text) \in 0..Len(text)
  <2> HIDE DEF c
  <2> QED BY <1>1, <1>2, ScanRange
<1>4. o = Lines(text, range, c) /\ Len(o) = c /\ Lines(text, range, Len(text)) = text
  <2>1. Lines(text, range, Len(text)) = SubSeq(text, 1, Len(text))
    BY <1>1, <1>3, PlainLines
  <2> HIDE DEF c
  <2> QED BY <2>1, <1>1, <1>3, PlainLines, CutIsPrefix, SubSeqFull
<1>5. Len(o) <= range.max => c = Len(text)
  <2> HIDE DEF c, o
  <2> QED BY <1>2, <1>4
<1>6. ~FALSE /\ Len(Lines(text, range, c)) <= range.max => Lines(text, range, c) = Lines(text, range, Len(text))
  <2> HIDE DEF c, o
  <2> QED BY <1>4, <1>5
<1>7. WellFormed(text) /\ Len(Lines(text, range, c)) <= range.max => ~EndsOpen(Lines(text, range, c))
  <2> HIDE DEF c
  <2> SUFFICES ASSUME WellFormed(text), Len(o) <= range.max PROVE ~EndsOpen(text)
    BY <1>4, <1>5
  <2>1. Len(text) > 0 => Len(text) \in 1..Len(text)
    BY <1>2
  <2> QED BY <2>1, <1>2 DEF WellFormed, EndsOpen
<1>8. Honest(text, range, Given(Lines(text, range, c), range, FALSE))
  <2> HIDE DEF c, o
  <2> QED BY <1>1, <1>3, <1>6, <1>7, HonestEnd
<1>9. ReturnBytes(o, FALSE) /\ UNCHANGED <<rop, text, range>>
      /\ UNCHANGED <<link, named, been, moves, rheld, shown, miss, allowed, fired>>
  BY DEF ReadPlain, worldVars, fileVars
<1>10. HonestAnswer' /\ rpc' = "done"
  <2> HIDE DEF o, c
  <2> QED BY <1>4, <1>8, <1>9, AnswerGiven
<1>11. rpc \in Reads
  BY <1>1 DEF Reads
<1> QED BY <1>9, <1>10, <1>11, DoneKeeps

(* A line past the range: so are all after it. *)
LEMMA PastTheRange ==
  ASSUME NEW b \in Seq(Byte), NEW r \in Params, NEW c \in 0..Len(b), r.limit # 0,
         LineOf(b, c + 1) >= r.offset + r.limit
  PROVE  Lines(b, r, Len(b)) = Lines(b, r, c)
<1>1. ASSUME NEW i \in (c + 1)..Len(b) PROVE ~Wanted(b, r, i)
  <2>1. c + 1 \in Nat \ {0} /\ i - (c + 1) \in Nat /\ (c + 1) + (i - (c + 1)) = i /\ i \in Nat \ {0}
    OBVIOUS
  <2>2. LineOf(b, c + 1) <= LineOf(b, i)
    BY <2>1, LineOfMonotone
  <2>3. LineOf(b, i) \in Nat \ {0} /\ LineOf(b, c + 1) \in Nat \ {0}
    BY <2>1, LineOfNext
  <2>4. r.offset \in Nat /\ r.limit \in Nat
    BY DEF Params
  <2>5. ~(LineOf(b, i) < r.offset + r.limit)
    BY <2>2, <2>3, <2>4
  <2> QED BY <2>5 DEF Wanted
<1>2. Len(b) \in c..Len(b)
  OBVIOUS
<1> QED BY <1>1, <1>2, LinesSkip

(* The whole file read: nothing is left open. *)
LEMMA AtTheEnd ==
  ASSUME ReadAssumption, NEW b \in Seq(Byte), NEW r \in Params, Scan(b) = Len(b)
  PROVE  Honest(b, r, Given(Lines(b, r, Len(b)), r, FALSE))
<1>1. Len(b) \in Nat /\ Len(b) \in 0..Len(b) /\ Len(b) \in 0..Scan(b)
  OBVIOUS
<1>2. WellFormed(b) => ~EndsOpen(Lines(b, r, Len(b)))
  <2> SUFFICES ASSUME WellFormed(b), EndsOpen(Lines(b, r, Len(b))) PROVE FALSE
    OBVIOUS
  <2>1. Len(b) > 0 /\ b[Len(b)] = "h"
    BY <1>1, LinesTidy
  <2>2. Len(b) \in 1..Len(b)
    BY <1>1, <2>1
  <2> QED BY <1>1, <2>1, <2>2 DEF WellFormed
<1> QED BY <1>1, <1>2, HonestEnd

(* The range complete: nothing after it is asked for, and it ends with a line feed. *)
LEMMA AfterTheRange ==
  ASSUME ReadAssumption, NEW b \in Seq(Byte), NEW r \in Params, NEW c \in 0..Scan(b), r.limit # 0,
         LineOf(b, c + 1) >= r.offset + r.limit
  PROVE  Honest(b, r, Given(Lines(b, r, c), r, FALSE))
<1>1. c \in 0..Len(b) /\ c \in Nat
  BY ScanRange
<1>2. Lines(b, r, Len(b)) = Lines(b, r, c)
  BY <1>1, PastTheRange
<1>3. WellFormed(b) => ~EndsOpen(Lines(b, r, c))
  <2> SUFFICES ASSUME WellFormed(b), EndsOpen(Lines(b, r, c)) PROVE FALSE
    OBVIOUS
  <2>1. c > 0 /\ Wanted(b, r, c) /\ b[c] = "h"
    BY <1>1, LinesTidy
  <2>2. c \in Nat \ {0}
    BY <1>1, <2>1
  <2>3. LineOf(b, c + 1) = LineOf(b, c) /\ LineOf(b, c) \in Nat
    BY <2>1, <2>2, LineOfNext
  <2>4. LineOf(b, c) < r.offset + r.limit
    BY <2>1 DEF Wanted
  <2>5. r.offset \in Nat /\ r.limit \in Nat
    BY DEF Params
  <2> QED BY <2>3, <2>4, <2>5
<1> QED BY <1>2, <1>3, HonestEnd

(* The cap reached. *)
LEMMA OverTheCap ==
  ASSUME ReadAssumption, NEW b \in Seq(Byte), NEW r \in Params, NEW c \in 0..Scan(b),
         Len(Lines(b, r, c)) > r.max
  PROVE  Honest(b, r, Given(Lines(b, r, c), r, FALSE))
<1>1. c \in 0..Len(b)
  BY ScanRange
<1>2. Lines(b, r, c) \in Seq(Out)
  BY <1>1, PiecesType
<1>3. ~(Len(Lines(b, r, c)) <= r.max)
  <2> DEFINE o == Lines(b, r, c)
  <2>1. Len(o) \in Nat /\ r.max \in Nat
    <3>1. r.max \in Nat
      BY DEF Params, ReadAssumption
    <3> HIDE DEF o
    <3> QED BY <1>2, <3>1 DEF o
  <2> HIDE DEF o
  <2>2. o = Lines(b, r, c)
    BY DEF o
  <2> QED BY <2>1, <2>2
<1> QED BY <1>3, HonestEnd

(* The scan ceiling reached with the range unfinished. *)
LEMMA AtTheCeiling ==
  ASSUME ReadAssumption, NEW b \in Seq(Byte), NEW r \in Params, Scan(b) > Ceiling, ~Ended(b, r),
         NEW cut \in BOOLEAN, ~cut => Len(b) = Scan(b)
  PROVE  Honest(b, r, Given(Lines(b, r, Scan(b)), r, cut))
<1>1. Scan(b) \in 0..Scan(b) /\ Len(b) > Ceiling
  BY ScanRange DEF ReadAssumption
<1> QED BY <1>1, HonestEnd

-----------------------------------------------------------------------------
LEMMA EndOfFileKeeps == ReadAssumption /\ ReadInv /\ EndOfFile => ReadInv'
<1> SUFFICES ASSUME ReadAssumption, ReadInv, EndOfFile PROVE ReadInv'
  OBVIOUS
<1>1. /\ text \in Seq(Byte) /\ range \in Params /\ rpc = "lines" /\ Going(text, range, scan)
      /\ scan.consumed = Scan(text)
  BY DEF ReadInv, ReadTypes, Answers, EndOfFile, Scanned, Scan
<1>2. Scan(text) = Len(text)
  <2>1. Scan(text) <= Ceiling /\ Ceiling \in Nat
    BY <1>1 DEF Going, ReadAssumption
  <2> QED BY <2>1, <1>1, ScanRange
<1>3. scan.out = Lines(text, range, Len(text))
  BY <1>1, <1>2 DEF Going, Locals
<1>4. Honest(text, range, Given(scan.out, range, FALSE))
  BY <1>1, <1>2, <1>3, AtTheEnd
<1>5. ReturnBytes(scan.out, FALSE) /\ UNCHANGED <<rop, text, range>>
      /\ UNCHANGED <<link, named, been, moves, rheld, shown, miss, allowed, fired>>
  BY DEF EndOfFile, worldVars, fileVars
<1>6. HonestAnswer' /\ rpc' = "done"
  BY <1>4, <1>5, AnswerGiven
<1> QED BY <1>1, <1>5, <1>6, DoneKeeps DEF Reads

(* What a chunk leaves when the loop goes on, and what it answers when not. *)
LEMMA LoopGoesOn ==
  ASSUME ReadAssumption, text \in Seq(Byte), range \in Params, Going(text, range, scan),
         NEW s, Locals(text, range, s), Fresh(text, range, s), ~InRange => s.out = scan.out,
         ~RangeComplete(s), ~(s.consumed > Ceiling), ~(InRange /\ Len(s.out) > range.max)
  PROVE  Going(text, range, s)
<1>1. s.consumed \in Nat /\ s.out \in Seq(Out) /\ Ceiling \in Nat /\ range.max \in Nat
  BY DEF Locals, ReadAssumption, Params
<1>2. Len(s.out) \in Nat
  BY <1>1
<1>3. Len(s.out) <= range.max
  <2>1. CASE InRange
    BY <1>1, <1>2, <2>1
  <2>2. CASE ~InRange
    BY <2>2 DEF Going
  <2> QED BY <2>1, <2>2
<1>4. s.consumed <= Ceiling
  BY <1>1
<1> QED BY <1>3, <1>4 DEF Going, RangeComplete

(* The range is complete when the next line is past it. *)
LEMMA CompleteMeans ==
  ASSUME text \in Seq(Byte), range \in Params, NEW s, Locals(text, range, s)
  PROVE  RangeComplete(s) <=> range.limit # 0 /\ LineOf(text, s.consumed + 1) >= range.offset + range.limit
<1>1. /\ s.line = LineOf(text, s.consumed + 1) /\ s.line \in Nat \ {0}
      /\ s.kept = IF s.line < range.offset THEN 0 ELSE s.line - range.offset
  BY DEF Locals
<1>2. range.limit \in Nat /\ range.offset \in Nat \ {0}
  BY DEF Params
<1> QED BY <1>1, <1>2 DEF RangeComplete

(* Every way out of the loop answers honestly. *)
LEMMA LoopEnds ==
  ASSUME ReadAssumption, text \in Seq(Byte), range \in Params,
         NEW s, Locals(text, range, s), s.consumed \in 0..Scanned,
         NEW cut \in BOOLEAN,
         \/ RangeComplete(s) /\ ~cut
         \/ s.consumed <= Ceiling /\ Len(s.out) > range.max /\ ~cut
         \/ ~RangeComplete(s) /\ s.consumed > Ceiling /\ (~cut => Len(text) = s.consumed)
  PROVE  Honest(text, range, Given(s.out, range, cut))
<1>1. Scanned = Scan(text) /\ s.consumed \in 0..Scan(text) /\ s.out = Lines(text, range, s.consumed)
  BY DEF Scanned, Scan, Locals
<1>2. CASE RangeComplete(s) /\ ~cut
  <2>1. cut = FALSE /\ range.limit # 0 /\ LineOf(text, s.consumed + 1) >= range.offset + range.limit
    BY <1>2, CompleteMeans
  <2> QED BY <2>1, <1>1, AfterTheRange
<1>3. CASE s.consumed <= Ceiling /\ Len(s.out) > range.max /\ ~cut
  <2>1. cut = FALSE
    BY <1>3
  <2> QED BY <2>1, <1>1, <1>3, OverTheCap
<1>4. CASE ~RangeComplete(s) /\ s.consumed > Ceiling /\ (~cut => Len(text) = s.consumed)
  <2>1. s.consumed = Scan(text) /\ Scan(text) > Ceiling
    <3>1. s.consumed \in Nat /\ Ceiling \in Nat /\ Len(text) \in Nat
      BY <1>1 DEF Locals, ReadAssumption
    <3> QED BY <3>1, <1>1, <1>4, ScanRange
  <2>2. ~Ended(text, range)
    BY <2>1, <1>4, CompleteMeans DEF Ended
  <2> QED BY <2>1, <2>2, <1>1, <1>4, AtTheCeiling
<1> QED BY <1>2, <1>3, <1>4

LEMMA ReadChunkKeeps == ReadAssumption /\ ReadInv /\ ReadChunk => ReadInv'
<1> SUFFICES ASSUME ReadAssumption, ReadInv, ReadChunk PROVE ReadInv'
  OBVIOUS
<1>1. /\ text \in Seq(Byte) /\ range \in Params /\ rpc = "lines" /\ Going(text, range, scan)
      /\ reply = NotAsked
  BY DEF ReadInv, ReadTypes, Answers, ReadChunk
<1>2. UNCHANGED <<rop, text, range>> /\ UNCHANGED <<link, named, been, moves, rheld, shown, miss, allowed, fired>>
  BY DEF ReadChunk, worldVars
<1>3. PICK k \in 1..(Scanned - scan.consumed) :
        /\ \A i \in 1..(k - 1) : text[scan.consumed + i] # "n"
        /\ scan' = Consumed(k)
        /\ IF ~(\/ RangeComplete(Consumed(k))
                \/ Consumed(k).consumed > Ceiling
                \/ InRange /\ Len(Consumed(k).out) > range.max)
           THEN UNCHANGED <<rpc, reply>>
           ELSE IF RangeComplete(Consumed(k)) \/ Consumed(k).consumed <= Ceiling
                THEN ReturnBytes(Consumed(k).out, FALSE)
                ELSE \E probed \in {"more", "end", "error"} :
                       /\ (probed = "more") => Len(text) > Consumed(k).consumed
                       /\ (probed = "end") => Len(text) = Consumed(k).consumed
                       /\ ReturnBytes(Consumed(k).out, probed # "end")
  BY DEF ReadChunk
<1> DEFINE s == Consumed(k)
<1>4. /\ Locals(text, range, s) /\ s.consumed \in 0..Scanned
      /\ ~InRange => s.out = scan.out
      /\ Fresh(text, range, s)
  BY <1>1, <1>3, ChunkRead
<1>5. s.consumed \in Nat /\ Ceiling \in Nat
  BY <1>4 DEF Locals, ReadAssumption
<1> HIDE DEF s
<1>6. CASE \E cut \in BOOLEAN : ReturnBytes(s.out, cut)
             /\ \/ RangeComplete(s) /\ ~cut
                \/ s.consumed <= Ceiling /\ Len(s.out) > range.max /\ ~cut
                \/ ~RangeComplete(s) /\ s.consumed > Ceiling /\ (~cut => Len(text) = s.consumed)
  <2>1. PICK cut \in BOOLEAN : ReturnBytes(s.out, cut)
             /\ \/ RangeComplete(s) /\ ~cut
                \/ s.consumed <= Ceiling /\ Len(s.out) > range.max /\ ~cut
                \/ ~RangeComplete(s) /\ s.consumed > Ceiling /\ (~cut => Len(text) = s.consumed)
    BY <1>6
  <2>2. Honest(text, range, Given(s.out, range, cut))
    BY <1>1, <1>4, <2>1, LoopEnds
  <2>3. HonestAnswer' /\ rpc' = "done"
    BY <1>2, <2>1, <2>2, AnswerGiven
  <2> QED BY <1>1, <1>2, <2>3, DoneKeeps DEF Reads
<1>7. CASE UNCHANGED <<rpc, reply>> /\ ~RangeComplete(s) /\ ~(s.consumed > Ceiling)
             /\ ~(InRange /\ Len(s.out) > range.max)
  <2>1. Going(text, range, s)
    BY <1>1, <1>4, <1>7, LoopGoesOn
  <2>2. Going(text, range, scan)'
    BY <2>1, <1>2, <1>3 DEF s
  <2>3. ReadTypes' /\ Faithful'
    BY <1>1, <1>2, <1>7 DEF ReadInv, ReadTypes, Faithful, Reads
  <2>4. Answers'
    BY <1>1, <1>2, <1>7, <2>2 DEF ReadInv, Answers
  <2> QED BY <2>3, <2>4 DEF ReadInv
<1> QED
  <2>1. CASE ~(RangeComplete(s) \/ s.consumed > Ceiling \/ (InRange /\ Len(s.out) > range.max))
    BY <1>3, <1>7, <2>1 DEF s
  <2>2. CASE RangeComplete(s)
    <3>1. ReturnBytes(s.out, FALSE)
      BY <1>3, <2>2 DEF s
    <3> QED BY <3>1, <2>2, <1>6
  <2>3. CASE ~RangeComplete(s) /\ s.consumed <= Ceiling /\ InRange /\ Len(s.out) > range.max
    <3>1. ReturnBytes(s.out, FALSE)
      BY <1>3, <2>3 DEF s
    <3> QED BY <3>1, <2>3, <1>6
  <2>4. CASE ~RangeComplete(s) /\ s.consumed > Ceiling
    <3>1. ~(s.consumed <= Ceiling)
      BY <1>5, <2>4
    <3>2. PICK probed \in {"more", "end", "error"} :
            ((probed = "end") => Len(text) = s.consumed) /\ ReturnBytes(s.out, probed # "end")
      BY <1>3, <2>4, <3>1 DEF s
    <3>3. (probed # "end") \in BOOLEAN
      OBVIOUS
    <3> QED BY <3>2, <3>3, <2>4, <1>6
  <2>5. s.consumed <= Ceiling \/ s.consumed > Ceiling
    BY <1>5
  <2> QED BY <2>1, <2>2, <2>3, <2>4, <2>5

-----------------------------------------------------------------------------
LEMMA ReadInvariance == ReadAssumption /\ ReadInv /\ [ReadNext]_readVars => ReadInv'
<1> SUFFICES ASSUME ReadAssumption, ReadInv, [ReadNext]_readVars PROVE ReadInv'
  OBVIOUS
<1>1. CASE Start \/ Open \/ Canonicalize \/ Verify \/ Probe \/ Move \/ Fire
  BY <1>1, AskingKeeps
<1>2. CASE CutRead \/ WithdrawRead \/ DenyRead \/ AllowRead \/ ListEntries
  BY <1>2, DecidingKeeps
<1>3. CASE ReadPlain
  BY <1>3, ReadPlainKeeps
<1>4. CASE ReadChunk
  BY <1>4, ReadChunkKeeps
<1>5. CASE EndOfFile
  BY <1>5, EndOfFileKeeps
<1>6. CASE UNCHANGED readVars
  <2>1. UNCHANGED <<rop, link, named, been, moves, rpc, rheld, shown, miss, allowed, fired, text, range, scan, reply>>
    BY <1>6 DEF readVars, worldVars, fileVars
  <2>2. ReadTypes' /\ Faithful'
    BY <2>1 DEF ReadInv, ReadTypes, Faithful, ReadsWhatWasShown
  <2>3. Answers'
    BY <2>1 DEF ReadInv, Answers, HonestAnswer, Scanned
  <2> QED BY <2>2, <2>3 DEF ReadInv
<1> QED BY <1>1, <1>2, <1>3, <1>4, <1>5, <1>6 DEF ReadNext

LEMMA ReadInvariant == ReadSpec => []ReadInv
BY ReadAssumption, ReadStarts, ReadInvariance, PTL DEF ReadSpec

(* host_fs tells a plugin of a path only what the operator allowed, of the very file the
   path shown named, whatever others move meanwhile.                                    *)
THEOREM AllReadsShown == ReadSpec => []ReadsWhatWasShown
<1>1. ReadInv => ReadsWhatWasShown
  <2>1. CASE rpc = "done"
    BY <2>1 DEF ReadInv, Faithful
  <2>2. CASE rpc # "done"
    BY <2>2 DEF ReadInv, Answers, NotAsked, ReadsWhatWasShown
  <2> QED BY <2>1, <2>2
<1> QED BY <1>1, ReadInvariant, PTL

(* read_lines and lossy_capped never say less than they left out: for every file, range, cap
   and scan ceiling.                                                                       *)
THEOREM AllAnswersHonest == ReadSpec => []HonestAnswer
<1>1. ReadInv => HonestAnswer
  <2>1. CASE rpc = "done"
    BY <2>1 DEF ReadInv, Answers
  <2>2. CASE rpc # "done"
    BY <2>2 DEF ReadInv, Answers, NotAsked, HonestAnswer
  <2> QED BY <2>1, <2>2
<1> QED BY <1>1, ReadInvariant, PTL

-----------------------------------------------------------------------------
(* Scanning a text from the left. *)

(* A scan that says emit[i] at place i and goes on at next[i]. *)
Goes(n, K, emit, next, f) ==
  \A i \in 1..K : f[i] = IF i > n THEN <<>> ELSE emit[i] \o f[next[i]]

LEMMA ScanExists ==
  ASSUME NEW T, NEW n \in Nat, NEW K \in Nat, n <= K,
         NEW emit \in [1..n -> Seq(T)], NEW next \in [1..n -> 1..K],
         \A i \in 1..n : i < next[i]
  PROVE  \E f \in [1..K -> Seq(T)] : Goes(n, K, emit, next, f)
<1> DEFINE Right(f, i) == f[i] = IF i > n THEN <<>> ELSE emit[i] \o f[next[i]]
           Upto(f, m) == \A i \in 1..K : i > n - m => Right(f, i)
           Good == {m \in 0..n : \E f \in [1..K -> Seq(T)] : Upto(f, m)}
<1>1. 0 \in Good
  <2> DEFINE f == [i \in 1..K |-> <<>>]
  <2>1. f \in [1..K -> Seq(T)] /\ 0 \in 0..n
    OBVIOUS
  <2>2. Upto(f, 0)
    OBVIOUS
  <2> HIDE DEF f, Upto
  <2> QED BY <2>1, <2>2
<1>2. ASSUME NEW m \in 0..(n - 1), m \in Good
      PROVE  m + 1 \in Good
  <2>1. PICK f \in [1..K -> Seq(T)] : Upto(f, m)
    BY <1>2
  <2> DEFINE p == n - m
             v == emit[p] \o f[next[p]]
             g == [i \in 1..K |-> IF i = p THEN v ELSE f[i]]
  <2>2. p \in 1..n /\ p \in 1..K /\ next[p] \in 1..K /\ p < next[p] /\ m + 1 \in 0..n
    OBVIOUS
  <2>3. v \in Seq(T)
    <3> HIDE DEF p
    <3>1. emit[p] \in Seq(T) /\ f[next[p]] \in Seq(T)
      BY <2>2
    <3> QED BY <3>1
  <2>4. g \in [1..K -> Seq(T)]
    <3> HIDE DEF v, p
    <3> QED BY <2>3
  <2>5. ASSUME NEW i \in 1..K, i > n - (m + 1)
        PROVE  Right(g, i)
    <3>1. i = p \/ (i > n - m /\ i # p)
      BY <2>5
    <3>2. CASE i = p
      <4>1. g[i] = v /\ g[next[i]] = f[next[i]] /\ ~(i > n)
        <5> HIDE DEF v, p
        <5> QED BY <2>2, <3>2
      <4> HIDE DEF g, p
      <4> QED BY <4>1, <3>2
    <3>3. CASE i > n - m /\ i # p
      <4>1. g[i] = f[i] /\ Right(f, i)
        <5>1. g[i] = f[i]
          <6> HIDE DEF v, p
          <6> QED BY <3>3
        <5> QED BY <5>1, <2>1, <3>3
      <4>2. CASE i > n
        <5> HIDE DEF g
        <5> QED BY <4>1, <4>2
      <4>3. CASE ~(i > n)
        <5>1. next[i] \in 1..K /\ next[i] # p
          BY <4>3, <3>3
        <5>2. g[next[i]] = f[next[i]]
          <6> HIDE DEF v, p
          <6> QED BY <5>1
        <5> HIDE DEF g
        <5> QED BY <4>1, <4>3, <5>2
      <4> QED BY <4>2, <4>3
    <3> QED BY <3>1, <3>2, <3>3
  <2>6. Upto(g, m + 1)
    <3> HIDE DEF g, Right
    <3> QED BY <2>5
  <2> HIDE DEF g, Upto
  <2> QED BY <2>2, <2>4, <2>6
<1>3. n \in Good
  <2> HIDE DEF Good
  <2>1. 0..n \subseteq Good
    BY <1>1, <1>2, BySteps
  <2> QED BY <2>1
<1>4. PICK f \in [1..K -> Seq(T)] : Upto(f, n)
  BY <1>3
<1>5. \A i \in 1..K : Right(f, i)
  <2> HIDE DEF Right
  <2> QED BY <1>4
<1>6. Goes(n, K, emit, next, f)
  BY <1>5 DEF Goes
<1> QED BY <1>6

(* The function Found is read from: f[i] is what is found from place i on. *)
FindsFrom(held, old, step, f) ==
  f = [i \in 1..(Len(held) + 1 + step) |->
         IF i > Len(held) THEN <<>>
         ELSE IF Finds(held, old, i) THEN <<i>> \o f[i + step]
         ELSE f[i + 1]]

First(i, f, next) == <<i>> \o f[next]

LEMMA FindsAt ==
  ASSUME NEW T, NEW held \in Seq(T), NEW old, NEW step \in Nat, step > 0,
         NEW f, FindsFrom(held, old, step, f), NEW i \in 1..(Len(held) + 1 + step)
  PROVE  /\ i > Len(held) => f[i] = <<>>
         /\ ~(i > Len(held)) /\ Finds(held, old, i) => f[i] = First(i, f, i + step)
         /\ ~(i > Len(held)) /\ ~Finds(held, old, i) => f[i] = f[i + 1]
<1> DEFINE F == [j \in 1..(Len(held) + 1 + step) |->
                   IF j > Len(held) THEN <<>>
                   ELSE IF Finds(held, old, j) THEN <<j>> \o f[j + step]
                   ELSE f[j + 1]]
<1>1. f = F
  BY DEF FindsFrom
<1>2. F[i] = IF i > Len(held) THEN <<>>
             ELSE IF Finds(held, old, i) THEN <<i>> \o f[i + step]
             ELSE f[i + 1]
  OBVIOUS
<1> HIDE DEF F
<1>3. f[i] = IF i > Len(held) THEN <<>>
             ELSE IF Finds(held, old, i) THEN <<i>> \o f[i + step]
             ELSE f[i + 1]
  BY <1>1, <1>2
<1> QED BY <1>3 DEF First

LEMMA FindsTypes ==
  ASSUME NEW T, NEW held \in Seq(T), NEW old, NEW step \in Nat, step > 0,
         NEW f, FindsFrom(held, old, step, f)
  PROVE  f \in [1..(Len(held) + 1 + step) -> Seq(1..Len(held))]
<1> DEFINE n == Len(held)
           K == n + 1 + step
           Good == {m \in 0..n : \A i \in 1..K : i > n - m => f[i] \in Seq(1..n)}
<1>1. n \in Nat /\ K \in Nat /\ 0 \in 0..n
  OBVIOUS
<1>2. 0 \in Good
  <2>1. ASSUME NEW i \in 1..K, i > n
        PROVE  f[i] \in Seq(1..n)
    <3>1. i \in 1..(Len(held) + 1 + step) /\ i > Len(held)
      BY <2>1
    <3>2. f[i] = <<>>
      BY <3>1, FindsAt
    <3> QED BY <3>2
  <2> QED BY <1>1, <2>1
<1>3. ASSUME NEW m \in 0..(n - 1), m \in Good
      PROVE  m + 1 \in Good
  <2> DEFINE p == n - m
  <2>1. p \in 1..n /\ p \in 1..K /\ p + step \in 1..K /\ p + 1 \in 1..K /\ ~(p > n)
        /\ p + step > n - m /\ p + 1 > n - m /\ m + 1 \in 0..n
    OBVIOUS
  <2>2. f[p + step] \in Seq(1..n) /\ f[p + 1] \in Seq(1..n) /\ <<p>> \in Seq(1..n)
    <3> HIDE DEF K
    <3> QED BY <1>3, <2>1
  <2>3. f[p] = First(p, f, p + step) \/ f[p] = f[p + 1]
    <3>1. p \in 1..(Len(held) + 1 + step) /\ ~(p > Len(held))
      BY <2>1
    <3> HIDE DEF p
    <3> QED BY <3>1, FindsAt
  <2>4. f[p] \in Seq(1..n)
    <3> DEFINE w == <<p>>
               x == f[p + step]
               y == f[p + 1]
               U == 1..n
    <3>1. w \in Seq(U) /\ x \in Seq(U) /\ y \in Seq(U) /\ (f[p] = w \o x \/ f[p] = y)
      BY <2>2, <2>3 DEF First
    <3> HIDE DEF w, x, y, U
    <3>2. w \o x \in Seq(U)
      BY ONLY <3>1
    <3>3. f[p] \in Seq(U)
      BY <3>1, <3>2
    <3> QED BY <3>3 DEF U
  <2>5. \A i \in 1..K : i > n - (m + 1) => i = p \/ i > n - m
    OBVIOUS
  <2> HIDE DEF K
  <2> QED BY <1>3, <2>1, <2>4, <2>5
<1>4. n \in Good
  <2> HIDE DEF Good, n
  <2>1. 0..n \subseteq Good
    BY <1>1, <1>2, <1>3, BySteps
  <2> QED BY <1>1, <2>1
<1>5. \A i \in 1..K : f[i] \in Seq(1..n)
  BY <1>4
<1>6. f = [i \in 1..K |-> f[i]]
  BY DEF FindsFrom
<1> HIDE DEF K, n
<1>7. f \in [1..K -> Seq(1..n)]
  BY <1>5, <1>6
<1> QED BY <1>7 DEF K, n

LEMMA FoundFinds ==
  ASSUME NEW T, NEW held \in Seq(T), NEW old, NEW step \in Nat, step > 0
  PROVE  \E f : /\ FindsFrom(held, old, step, f) /\ Found(held, old, step) = f[1]
                /\ f \in [1..(Len(held) + 1 + step) -> Seq(1..Len(held))]
<1> DEFINE f == CHOOSE f : FindsFrom(held, old, step, f)
           n == Len(held)
           K == n + 1 + step
           emit == [i \in 1..n |-> IF Finds(held, old, i) THEN <<i>> ELSE <<>>]
           next == [i \in 1..n |-> IF Finds(held, old, i) THEN i + step ELSE i + 1]
<1>1. Found(held, old, step) = f[1]
  BY DEF Found, FindsFrom
<1>2. n \in Nat /\ K \in Nat /\ n <= K
  OBVIOUS
<1>3. emit \in [1..n -> Seq(1..n)]
  <2>1. <<>> \in Seq(1..n) /\ \A i \in 1..n : <<i>> \in Seq(1..n)
    OBVIOUS
  <2> HIDE DEF n
  <2> QED BY <2>1
<1>4. next \in [1..n -> 1..K] /\ \A i \in 1..n : i < next[i]
  OBVIOUS
<1>5. \E g \in [1..K -> Seq(1..n)] :
        \A i \in 1..K : g[i] = IF i > n THEN <<>> ELSE emit[i] \o g[next[i]]
  <2> DEFINE U == 1..n
  <2>1. n \in Nat /\ K \in Nat /\ n <= K /\ emit \in [1..n -> Seq(U)]
    BY <1>2, <1>3
  <2> HIDE DEF f, n, K, emit, next, U
  <2>2. \E g \in [1..K -> Seq(U)] : Goes(n, K, emit, next, g)
    BY ONLY <2>1, <1>4, ScanExists
  <2> QED BY <2>2 DEF U, Goes
<1>6. PICK g \in [1..K -> Seq(1..n)] :
        \A i \in 1..K : g[i] = IF i > n THEN <<>> ELSE emit[i] \o g[next[i]]
  BY <1>5
<1>7. ASSUME NEW i \in 1..K
      PROVE  g[i] = IF i > n THEN <<>>
                    ELSE IF Finds(held, old, i) THEN <<i>> \o g[i + step]
                    ELSE g[i + 1]
  <2>1. CASE i > n
    BY <2>1, <1>6
  <2>2. CASE ~(i > n) /\ Finds(held, old, i)
    <3>1. i \in 1..n /\ emit[i] = <<i>> /\ next[i] = i + step
      BY <2>2
    <3> HIDE DEF emit, next
    <3> QED BY <2>2, <3>1, <1>6
  <2>3. CASE ~(i > n) /\ ~Finds(held, old, i)
    <3>1. i \in 1..n /\ emit[i] = <<>> /\ next[i] = i + 1 /\ i + 1 \in 1..K
      BY <2>3
    <3>2. g[i] = <<>> \o g[i + 1]
      <4> HIDE DEF emit, next
      <4> QED BY <2>3, <3>1, <1>6
    <3>3. g[i + 1] \in Seq(1..n)
      BY <3>1, <1>6
    <3>4. <<>> \o g[i + 1] = g[i + 1]
      BY <3>3, ConcatEmptySeq
    <3> QED BY <2>3, <3>2, <3>4
  <2> QED BY <2>1, <2>2, <2>3
<1>8. FindsFrom(held, old, step, g)
  <2>1. g = [i \in 1..K |-> IF i > n THEN <<>>
                            ELSE IF Finds(held, old, i) THEN <<i>> \o g[i + step]
                            ELSE g[i + 1]]
    <3> HIDE DEF K, n
    <3> QED BY <1>6, <1>7
  <2> QED BY <2>1 DEF FindsFrom
<1>9. FindsFrom(held, old, step, f)
  BY <1>8
<1>10. f \in [1..K -> Seq(1..n)]
  <2> HIDE DEF f, K, n
  <2> QED BY <1>9, FindsTypes DEF K, n
<1> QED BY <1>1, <1>9, <1>10

(* What a scan has found when it comes to place m: every occurrence before m that no
   earlier one found reaches, and nothing that reaches m.                             *)
FoundBefore(held, old, step, m, acc) ==
  /\ \A a \in 1..Len(acc) : acc[a] + step <= m /\ Finds(held, old, acc[a])
  /\ \A a, b \in 1..Len(acc) : a < b => acc[a] + step <= acc[b]
  /\ \A k \in 1..(m - 1) : Finds(held, old, k) =>
       \E a \in 1..Len(acc) : acc[a] <= k /\ k < acc[a] + step

LEMMA FoundNone ==
  ASSUME NEW held, NEW old, NEW step, NEW m \in Nat, NEW acc,
         FoundBefore(held, old, step, m, acc), ~Finds(held, old, m),
         NEW n \in Nat, acc \in Seq(1..n), step \in Nat
  PROVE  FoundBefore(held, old, step, m + 1, acc)
<1>1. \A a \in 1..Len(acc) : acc[a] \in 1..n
  OBVIOUS
<1>2. \A a \in 1..Len(acc) : acc[a] + step <= m + 1 /\ Finds(held, old, acc[a])
  BY <1>1 DEF FoundBefore
<1>3. ASSUME NEW k \in 1..(m + 1 - 1), Finds(held, old, k)
      PROVE  \E a \in 1..Len(acc) : acc[a] <= k /\ k < acc[a] + step
  <2>1. k # m
    BY <1>3
  <2>2. k \in 1..(m - 1)
    BY <2>1
  <2> QED BY <1>3, <2>2 DEF FoundBefore
<1> QED BY <1>2, <1>3 DEF FoundBefore

LEMMA FoundOneMore ==
  ASSUME NEW held, NEW old, NEW step \in Nat, step > 0, NEW n \in Nat, NEW m \in 1..n,
         NEW acc \in Seq(1..n), FoundBefore(held, old, step, m, acc), Finds(held, old, m)
  PROVE  /\ Append(acc, m) \in Seq(1..n)
         /\ FoundBefore(held, old, step, m + step, Append(acc, m))
<1> DEFINE d == Append(acc, m)
           l == Len(acc)
<1>1. /\ d \in Seq(1..n) /\ l \in Nat /\ Len(d) = l + 1 /\ d[l + 1] = m
      /\ \A a \in 1..l : d[a] = acc[a] /\ acc[a] \in 1..n
  OBVIOUS
<1> HIDE DEF d
<1>2. \A a \in 1..l : acc[a] + step <= m /\ Finds(held, old, acc[a])
  BY DEF FoundBefore
<1>3. \A a, b \in 1..l : a < b => acc[a] + step <= acc[b]
  BY DEF FoundBefore
<1>4. \A k \in 1..(m - 1) : Finds(held, old, k) =>
        \E a \in 1..l : acc[a] <= k /\ k < acc[a] + step
  BY DEF FoundBefore
<1> HIDE DEF l
<1>5. ASSUME NEW a \in 1..Len(d)
      PROVE  d[a] + step <= m + step /\ Finds(held, old, d[a])
  <2>1. CASE a = l + 1
    BY <1>1, <2>1
  <2>2. CASE a # l + 1
    <3>1. a \in 1..l /\ d[a] = acc[a]
      BY <1>1, <2>2
    <3>2. acc[a] + step <= m /\ Finds(held, old, acc[a]) /\ acc[a] \in 1..n
      BY <1>1, <1>2, <3>1
    <3> QED BY <3>1, <3>2
  <2> QED BY <2>1, <2>2
<1>6. ASSUME NEW a \in 1..Len(d), NEW b \in 1..Len(d), a < b
      PROVE  d[a] + step <= d[b]
  <2>1. a \in 1..l /\ d[a] = acc[a]
    BY <1>1, <1>6
  <2>2. CASE b = l + 1
    <3>1. acc[a] + step <= m
      BY <1>2, <2>1
    <3> QED BY <1>1, <2>1, <2>2, <3>1
  <2>3. CASE b # l + 1
    <3>1. b \in 1..l /\ d[b] = acc[b]
      BY <1>1, <2>3
    <3> QED BY <1>3, <1>6, <2>1, <3>1
  <2> QED BY <2>2, <2>3
<1>7. ASSUME NEW k \in 1..(m + step - 1), Finds(held, old, k)
      PROVE  \E a \in 1..Len(d) : d[a] <= k /\ k < d[a] + step
  <2>1. CASE k < m
    <3>1. k \in 1..(m - 1)
      BY <2>1
    <3>2. PICK a \in 1..l : acc[a] <= k /\ k < acc[a] + step
      BY <1>4, <1>7, <3>1
    <3>3. a \in 1..Len(d) /\ d[a] = acc[a]
      BY <1>1
    <3> QED BY <3>2, <3>3
  <2>2. CASE m <= k
    <3>1. l + 1 \in 1..Len(d) /\ d[l + 1] <= k /\ k < d[l + 1] + step
      BY <1>1, <2>2
    <3> QED BY <3>1
  <2> QED BY <2>1, <2>2
<1>8. FoundBefore(held, old, step, m + step, d)
  BY <1>5, <1>6, <1>7 DEF FoundBefore
<1> QED BY <1>1, <1>8 DEF d

LEMMA JoinTwice ==
  ASSUME NEW T, NEW s \in Seq(T), NEW y \in Seq(T), NEW t \in Seq(T)
  PROVE  s \o (y \o t) = (s \o y) \o t
OBVIOUS

LEMMA JoinOne ==
  ASSUME NEW T, NEW s \in Seq(T), NEW x \in T, NEW t \in Seq(T)
  PROVE  s \o (<<x>> \o t) = Append(s, x) \o t
<1>1. <<x>> \in Seq(T)
  OBVIOUS
<1>2. s \o (<<x>> \o t) = (s \o <<x>>) \o t
  BY <1>1, JoinTwice
<1>3. s \o <<x>> = Append(s, x)
  BY AppendIsConcat
<1> QED BY <1>2, <1>3

LEMMA JoinNone ==
  ASSUME NEW T, NEW s \in Seq(T)
  PROVE  <<>> \o s = s /\ s \o <<>> = s
BY ConcatEmptySeq

(* What a scan finds: occurrences that stand clear of each other, and every one that
   stands clear of those before it.                                                   *)
LEMMA FoundIs ==
  ASSUME NEW T, NEW held \in Seq(T), NEW old \in Seq(T), NEW step \in Nat,
         step > 0, step <= Len(old)
  PROVE  /\ Found(held, old, step) \in Seq(1..Len(held))
         /\ FoundBefore(held, old, step, Len(held) + 1, Found(held, old, step))
<1> DEFINE n == Len(held)
           U == 1..n
           K == n + 1 + step
<1>1. PICK f : /\ FindsFrom(held, old, step, f) /\ Found(held, old, step) = f[1]
               /\ f \in [1..(Len(held) + 1 + step) -> Seq(1..Len(held))]
  BY FoundFinds
<1>2. n \in Nat /\ K \in Nat
  OBVIOUS
<1>scan. /\ FindsFrom(held, old, step, f) /\ held \in Seq(T) /\ step \in Nat /\ step > 0
  BY <1>1
<1> DEFINE At(m, acc) == FoundBefore(held, old, step, m, acc) /\ acc \o f[m] = f[1]
           Good == {t \in 0..n : \E m \in (t + 1)..(n + 1), acc \in Seq(U) : At(m, acc)}
<1>3. 0 \in Good
  <2>1. FoundBefore(held, old, step, 1, <<>>)
    BY DEF FoundBefore
  <2>2. f[1] \in Seq(U)
    BY <1>1, <1>2
  <2>3. <<>> \in Seq(U) /\ <<>> \o f[1] = f[1] /\ 1 \in (0 + 1)..(n + 1) /\ 0 \in 0..n
    BY <2>2, <1>2, JoinNone
  <2>4. At(1, <<>>)
    BY <2>1, <2>3
  <2> HIDE DEF At, U
  <2> QED BY <2>3, <2>4
<1>4. ASSUME NEW t \in 0..(n - 1), t \in Good
      PROVE  t + 1 \in Good
  <2>1. PICK m \in (t + 1)..(n + 1), acc \in Seq(U) : At(m, acc)
    <3> HIDE DEF At, U
    <3> QED BY <1>4
  <2>2. t + 1 \in 0..n /\ m \in Nat
    BY <1>2
  <2>3. CASE m # t + 1
    <3>1. m \in (t + 1 + 1)..(n + 1)
      BY <1>2, <2>3
    <3> HIDE DEF At, U
    <3> QED BY <2>1, <2>2, <3>1
  <2>4. CASE m = t + 1
    <3>1. m \in 1..n /\ m \in 1..K /\ ~(m > n) /\ m + 1 \in 1..K /\ m + step \in 1..K
          /\ m + 1 \in (t + 1 + 1)..(n + 1)
      BY <1>2, <2>4
    <3>2. f[m + 1] \in Seq(U) /\ f[m + step] \in Seq(U) /\ m \in U
      BY <1>1, <3>1
    <3>3. FoundBefore(held, old, step, m, acc) /\ acc \o f[m] = f[1]
      BY <2>1
    <3>4. CASE Finds(held, old, m)
      <4>1. m + Len(old) <= n + 1
        BY <3>4 DEF Finds
      <4>2. m + step \in (t + 1 + 1)..(n + 1)
        BY <1>2, <2>4, <4>1
      <4>3. f[m] = <<m>> \o f[m + step]
        <5>1. m \in 1..(Len(held) + 1 + step) /\ ~(m > Len(held))
          BY <3>1
        <5>2. f[m] = First(m, f, m + step)
          BY ONLY <1>scan, <3>4, <5>1, FindsAt
        <5> QED BY <5>2 DEF First
      <4>4. acc \o f[m] = Append(acc, m) \o f[m + step]
        <5> DEFINE x == f[m + step]
        <5>1. x \in Seq(U) /\ f[m] = <<m>> \o x
          BY <3>2, <4>3
        <5> HIDE DEF x, U
        <5>2. x \in Seq(U) /\ m \in U /\ acc \in Seq(U)
          BY <5>1, <3>2
        <5>3. acc \o (<<m>> \o x) = Append(acc, m) \o x
          BY ONLY <5>2, JoinOne, SMTT(30)
        <5>4. acc \o f[m] = Append(acc, m) \o x
          BY ONLY <5>1, <5>3, Zenon
        <5> QED BY ONLY <5>4 DEF x
      <4>5. /\ Append(acc, m) \in Seq(U)
            /\ FoundBefore(held, old, step, m + step, Append(acc, m))
        BY <1>2, <3>1, <3>3, <3>4, FoundOneMore
      <4>6. At(m + step, Append(acc, m))
        BY <3>3, <4>4, <4>5
      <4> HIDE DEF At, U
      <4> QED BY <2>2, <4>2, <4>5, <4>6
    <3>5. CASE ~Finds(held, old, m)
      <4>1. f[m] = f[m + 1]
        <5>1. m \in 1..(Len(held) + 1 + step) /\ ~(m > Len(held))
          BY <3>1
        <5> QED BY ONLY <1>scan, <3>5, <5>1, FindsAt
      <4>2. FoundBefore(held, old, step, m + 1, acc)
        BY <1>2, <2>2, <3>3, <3>5, FoundNone
      <4>3. At(m + 1, acc)
        BY <3>3, <4>1, <4>2
      <4> HIDE DEF At, U
      <4> QED BY <2>2, <3>1, <4>3
    <3> QED BY <3>4, <3>5
  <2> QED BY <2>3, <2>4
<1>5. n \in Good
  <2>1. n \in 0..n
    BY <1>2
  <2> HIDE DEF Good, n
  <2>2. 0..n \subseteq Good
    BY <1>2, <1>3, <1>4, BySteps
  <2> QED BY <2>1, <2>2
<1>6. PICK m \in (n + 1)..(n + 1), acc \in Seq(U) : At(m, acc)
  <2> HIDE DEF At, U
  <2> QED BY <1>5
<1>7. m = n + 1 /\ n + 1 \in 1..K /\ n + 1 > n
  BY <1>2
<1>8. f[n + 1] = <<>>
  <2>1. n + 1 \in 1..(Len(held) + 1 + step) /\ n + 1 > Len(held)
    BY <1>7
  <2> HIDE DEF n
  <2> QED BY ONLY <1>scan, <2>1, FindsAt
<1>9. acc = f[1]
  <2>1. acc \o <<>> = acc
    <3> HIDE DEF U
    <3> QED BY JoinNone
  <2>2. acc \o f[m] = f[1]
    BY <1>6
  <2> QED BY <2>1, <2>2, <1>7, <1>8
<1> QED BY <1>1, <1>6, <1>7, <1>9

-----------------------------------------------------------------------------
(* Replacing what a scan found. *)

(* The function replacen is read from: f[i] is what is written from place i on. *)
Replaces(held, old, new, used, f) ==
  f = [i \in 1..(Len(held) + 1 + Len(old)) |->
         IF i > Len(held) THEN <<>>
         ELSE IF Contains(used, i) THEN new \o f[i + Len(old)]
         ELSE <<held[i]>> \o f[i + 1]]

Then(w, f, next) == w \o f[next]

LEMMA ReplacesAt ==
  ASSUME NEW T, NEW held \in Seq(T), NEW old \in Seq(T), Len(old) > 0,
         NEW new \in Seq(T), NEW used, NEW f, Replaces(held, old, new, used, f),
         NEW i \in 1..(Len(held) + 1 + Len(old))
  PROVE  /\ i > Len(held) => f[i] = <<>>
         /\ ~(i > Len(held)) /\ Contains(used, i) => f[i] = Then(new, f, i + Len(old))
         /\ ~(i > Len(held)) /\ ~Contains(used, i) => f[i] = First(held[i], f, i + 1)
<1> DEFINE F == [j \in 1..(Len(held) + 1 + Len(old)) |->
                   IF j > Len(held) THEN <<>>
                   ELSE IF Contains(used, j) THEN new \o f[j + Len(old)]
                   ELSE <<held[j]>> \o f[j + 1]]
<1>1. f = F
  BY DEF Replaces
<1>2. F[i] = IF i > Len(held) THEN <<>>
             ELSE IF Contains(used, i) THEN new \o f[i + Len(old)]
             ELSE <<held[i]>> \o f[i + 1]
  OBVIOUS
<1> HIDE DEF F
<1>3. f[i] = IF i > Len(held) THEN <<>>
             ELSE IF Contains(used, i) THEN new \o f[i + Len(old)]
             ELSE <<held[i]>> \o f[i + 1]
  BY <1>1, <1>2
<1> QED BY <1>3 DEF First, Then

LEMMA ReplacesTypes ==
  ASSUME NEW T, NEW held \in Seq(T), NEW old \in Seq(T), Len(old) > 0,
         NEW new \in Seq(T), NEW used, NEW f, Replaces(held, old, new, used, f)
  PROVE  f \in [1..(Len(held) + 1 + Len(old)) -> Seq(T)]
<1> DEFINE n == Len(held)
           l == Len(old)
           K == n + 1 + l
           Good == {m \in 0..n : \A i \in 1..K : i > n - m => f[i] \in Seq(T)}
<1>1. n \in Nat /\ K \in Nat /\ 0 \in 0..n /\ l \in Nat /\ l > 0
  OBVIOUS
<1>2. 0 \in Good
  <2>1. ASSUME NEW i \in 1..K, i > n
        PROVE  f[i] \in Seq(T)
    <3>1. i \in 1..(Len(held) + 1 + Len(old)) /\ i > Len(held)
      BY <2>1
    <3>2. f[i] = <<>>
      BY <3>1, ReplacesAt
    <3> QED BY <3>2
  <2> QED BY <1>1, <2>1
<1>3. ASSUME NEW m \in 0..(n - 1), m \in Good
      PROVE  m + 1 \in Good
  <2> DEFINE p == n - m
  <2>1. p \in 1..n /\ p \in 1..K /\ p + l \in 1..K /\ p + 1 \in 1..K /\ ~(p > n)
        /\ p + l > n - m /\ p + 1 > n - m /\ m + 1 \in 0..n
    BY <1>1
  <2>2. f[p + l] \in Seq(T) /\ f[p + 1] \in Seq(T) /\ <<held[p]>> \in Seq(T)
    <3>1. held[p] \in T
      <4> HIDE DEF p
      <4> QED BY <2>1
    <3> HIDE DEF K
    <3> QED BY <1>3, <2>1, <3>1
  <2>3. f[p] = Then(new, f, p + l) \/ f[p] = First(held[p], f, p + 1)
    <3>1. p \in 1..(Len(held) + 1 + Len(old)) /\ ~(p > Len(held))
      BY <2>1
    <3> HIDE DEF p
    <3> QED BY <3>1, ReplacesAt
  <2>4. f[p] \in Seq(T)
    <3> DEFINE w == <<held[p]>>
               x == f[p + l]
               y == f[p + 1]
    <3>1. w \in Seq(T) /\ x \in Seq(T) /\ y \in Seq(T) /\ (f[p] = new \o x \/ f[p] = w \o y)
      BY <2>2, <2>3 DEF First, Then
    <3> HIDE DEF w, x, y
    <3>2. w \o y \in Seq(T) /\ new \o x \in Seq(T)
      BY ONLY <3>1, new \in Seq(T)
    <3> QED BY <3>1, <3>2
  <2>5. \A i \in 1..K : i > n - (m + 1) => i = p \/ i > n - m
    OBVIOUS
  <2> HIDE DEF K
  <2> QED BY <1>3, <2>1, <2>4, <2>5
<1>4. n \in Good
  <2> HIDE DEF Good, n
  <2>1. 0..n \subseteq Good
    BY <1>1, <1>2, <1>3, BySteps
  <2> QED BY <1>1, <2>1
<1>5. \A i \in 1..K : f[i] \in Seq(T)
  BY <1>4
<1>6. f = [i \in 1..K |-> f[i]]
  BY DEF Replaces
<1> HIDE DEF K, n
<1>7. f \in [1..K -> Seq(T)]
  BY <1>5, <1>6
<1> QED BY <1>7 DEF K, n

(* The first `most` of what a scan for `old` finds. *)
Used(held, old, most) ==
  LET finds == Found(held, old, Len(old))
  IN  SubSeq(finds, 1, IF most < Len(finds) THEN most ELSE Len(finds))

LEMMA ReplacenReplaces ==
  ASSUME NEW T, NEW held \in Seq(T), NEW old \in Seq(T), Len(old) > 0,
         NEW new \in Seq(T), NEW most
  PROVE  \E f : /\ Replaces(held, old, new, Used(held, old, most), f)
                /\ replacen(held, old, new, most) = f[1]
<1> DEFINE used == Used(held, old, most)
           f == CHOOSE f : Replaces(held, old, new, used, f)
           n == Len(held)
           l == Len(old)
           K == n + 1 + l
           emit == [i \in 1..n |-> IF Contains(used, i) THEN new ELSE <<held[i]>>]
           next == [i \in 1..n |-> IF Contains(used, i) THEN i + l ELSE i + 1]
<1>1. replacen(held, old, new, most) = f[1]
  BY DEF replacen, Replaces, Used
<1> HIDE DEF used
<1>2. n \in Nat /\ K \in Nat /\ n <= K /\ l \in Nat /\ l > 0
  OBVIOUS
<1>3. emit \in [1..n -> Seq(T)]
  OBVIOUS
<1>4. next \in [1..n -> 1..K] /\ \A i \in 1..n : i < next[i]
  OBVIOUS
<1>5. \E g \in [1..K -> Seq(T)] : Goes(n, K, emit, next, g)
  <2>1. n \in Nat /\ K \in Nat /\ n <= K
    BY <1>2
  <2> HIDE DEF f, n, K, emit, next
  <2> QED BY ONLY <2>1, <1>3, <1>4, ScanExists
<1>6. PICK g \in [1..K -> Seq(T)] :
        \A i \in 1..K : g[i] = IF i > n THEN <<>> ELSE emit[i] \o g[next[i]]
  BY <1>5 DEF Goes
<1>7. ASSUME NEW i \in 1..K
      PROVE  g[i] = IF i > n THEN <<>>
                    ELSE IF Contains(used, i) THEN new \o g[i + l]
                    ELSE <<held[i]>> \o g[i + 1]
  <2>1. CASE i > n
    BY <2>1, <1>6
  <2>2. CASE ~(i > n) /\ Contains(used, i)
    <3>1. i \in 1..n /\ emit[i] = new /\ next[i] = i + l
      BY <2>2
    <3> HIDE DEF emit, next
    <3> QED BY <2>2, <3>1, <1>6
  <2>3. CASE ~(i > n) /\ ~Contains(used, i)
    <3>1. i \in 1..n /\ emit[i] = <<held[i]>> /\ next[i] = i + 1
      BY <2>3
    <3> HIDE DEF emit, next
    <3> QED BY <2>3, <3>1, <1>6
  <2> QED BY <2>1, <2>2, <2>3
<1>8. Replaces(held, old, new, used, g)
  <2>1. g = [i \in 1..K |-> IF i > n THEN <<>>
                            ELSE IF Contains(used, i) THEN new \o g[i + l]
                            ELSE <<held[i]>> \o g[i + 1]]
    <3> HIDE DEF K, n, l
    <3> QED BY <1>6, <1>7
  <2> QED BY <2>1 DEF Replaces
<1>9. Replaces(held, old, new, used, f)
  BY <1>8
<1> QED BY <1>1, <1>9 DEF used

(* What Spliced puts for place i, and what it has put for the first t places. *)
PieceAt(held, S, old, new, i) ==
  IF i \in S THEN new
  ELSE IF \E j \in S : j < i /\ i < j + Len(old) THEN <<>>
  ELSE <<held[i]>>

Written(held, S, old, new, t) == FlattenSeq([i \in 1..t |-> PieceAt(held, S, old, new, i)])

WritesOn(held, S, old, new, t) ==
  Written(held, S, old, new, t + 1) =
    Written(held, S, old, new, t) \o PieceAt(held, S, old, new, t + 1)

LEMMA WrittenOneMore ==
  ASSUME NEW T, NEW held \in Seq(T), NEW S, NEW old, NEW new \in Seq(T),
         NEW t \in 0..(Len(held) - 1)
  PROVE  /\ Written(held, S, old, new, t) \in Seq(T)
         /\ WritesOn(held, S, old, new, t)
<1> DEFINE P(i) == PieceAt(held, S, old, new, i)
           a == [i \in 1..t |-> P(i)]
           b == [i \in 1..(t + 1) |-> P(i)]
<1>1. \A i \in 1..(t + 1) : P(i) \in Seq(T)
  BY DEF PieceAt
<1> HIDE DEF P
<1>2. /\ a \in Seq(Seq(T)) /\ b \in Seq(Seq(T)) /\ Len(a) = t /\ Len(b) = t + 1
      /\ t \in Nat /\ b[t + 1] = P(t + 1) /\ \A i \in 1..t : a[i] = b[i]
  BY <1>1
<1> HIDE DEF a, b
<1>3. FlattenSeq(a) \in Seq(T) /\ FlattenSeq(b) = FlattenSeq(a) \o b[t + 1]
  BY <1>2, FlattenType, FlattenExtended
<1>4. FlattenSeq(a) = Written(held, S, old, new, t)
  BY DEF a, P, Written
<1>5. FlattenSeq(b) = Written(held, S, old, new, t + 1)
  BY DEF b, P, Written
<1> QED BY <1>2, <1>3, <1>4, <1>5 DEF P, WritesOn

(* A replacing that has come to m has written all before it. *)
Clear(S, l, m) == \A j \in S : j < m => j + l <= m

LEMMA ReplacingSplices ==
  ASSUME NEW T, NEW held \in Seq(T), NEW old \in Seq(T), Len(old) > 0, NEW new \in Seq(T),
         NEW S \in SUBSET (1..Len(held)), NEW used, NEW f, Replaces(held, old, new, used, f),
         \A i \in 1..Len(held) : Contains(used, i) <=> i \in S,
         \A i \in S : i + Len(old) <= Len(held) + 1,
         \A i, j \in S : i < j => i + Len(old) <= j
  PROVE  f[1] = Spliced(held, S, old, new)
<1> DEFINE n == Len(held)
           l == Len(old)
           K == n + 1 + l
           Bit(i) == PieceAt(held, S, old, new, i)
           Put(t) == Written(held, S, old, new, t)
           Whole(t, m) == Put(t) \o f[m] = f[1]
           At(t, m) == /\ \A k \in (t + 1)..(m - 1) : Bit(k) = <<>>
                       /\ Clear(S, l, m)
                       /\ Whole(t, m)
           Good == {t \in 0..n : \E m \in (t + 1)..(n + 1) : At(t, m)}
<1>1. /\ n \in Nat /\ l \in Nat /\ l > 0 /\ K \in Nat
      /\ \A i \in S : i \in 1..n /\ i + l <= n + 1
      /\ \A i, j \in S : i < j => i + l <= j
  OBVIOUS
<1>2. \A i \in 1..K : f[i] \in Seq(T)
  BY ReplacesTypes, SMTT(30)
<1>3. ASSUME NEW t \in 0..(n - 1)
      PROVE  Put(t) \in Seq(T) /\ Put(t + 1) = Put(t) \o Bit(t + 1)
  <2>1. t \in 0..(Len(held) - 1) /\ held \in Seq(T) /\ new \in Seq(T)
    OBVIOUS
  <2>2. Written(held, S, old, new, t) \in Seq(T) /\ WritesOn(held, S, old, new, t)
    BY ONLY <2>1, WrittenOneMore
  <2> QED BY ONLY <2>2 DEF WritesOn
<1>4. 0 \in Good
  <2>1. Put(0) = <<>>
    <3>1. [i \in 1..0 |-> PieceAt(held, S, old, new, i)] = <<>>
      OBVIOUS
    <3> QED BY <3>1, FlattenEmpty DEF Written
  <2>2. f[1] \in Seq(T) /\ 1 \in (0 + 1)..(n + 1) /\ 0 \in 0..n
    BY <1>1, <1>2
  <2>3. <<>> \o f[1] = f[1]
    BY <2>2, JoinNone
  <2>4. Clear(S, l, 1) /\ \A k \in (0 + 1)..(1 - 1) : Bit(k) = <<>>
    BY <1>1 DEF Clear
  <2>5. At(0, 1)
    BY <2>1, <2>3, <2>4
  <2> HIDE DEF At
  <2> QED BY <2>2, <2>5
<1>5. ASSUME NEW t \in 0..(n - 1), t \in Good
      PROVE  t + 1 \in Good
  <2>1. PICK m \in (t + 1)..(n + 1) : At(t, m)
    <3> HIDE DEF At
    <3> QED BY <1>5
  <2>2. t + 1 \in 0..n /\ m \in Nat /\ t \in Nat
    BY <1>1
  <2>3. Put(t) \in Seq(T) /\ Put(t + 1) = Put(t) \o Bit(t + 1)
    BY <1>3
  <2>4. CASE m # t + 1
    <3>1. m \in (t + 1 + 1)..(n + 1) /\ t + 1 \in (t + 1)..(m - 1)
          /\ \A k \in (t + 1 + 1)..(m - 1) : k \in (t + 1)..(m - 1)
      BY <1>1, <2>4
    <3>2. Bit(t + 1) = <<>>
      BY <2>1, <3>1
    <3>3. Put(t + 1) = Put(t)
      <4> HIDE DEF Put, Bit
      <4> QED BY <2>3, <3>2, JoinNone
    <3>4. At(t + 1, m)
      <4> HIDE DEF Put, Bit
      <4> QED BY <2>1, <3>1, <3>3
    <3> HIDE DEF At
    <3> QED BY <2>2, <3>1, <3>4
  <2>5. CASE m = t + 1
    <3>1. m \in 1..n /\ m \in 1..K /\ m + 1 \in 1..K /\ m + l \in 1..K
      BY <1>1, <2>5
    <3>2. Clear(S, l, m) /\ Put(t) \o f[m] = f[1]
      BY <2>1
    <3>3. m \in 1..(Len(held) + 1 + Len(old)) /\ ~(m > Len(held))
      BY <3>1
    <3>scan. /\ held \in Seq(T) /\ old \in Seq(T) /\ Len(old) > 0 /\ new \in Seq(T)
             /\ Replaces(held, old, new, used, f)
      OBVIOUS
    <3>4. CASE m \in S
      <4>1. m + l <= n + 1 /\ m + l \in (t + 1 + 1)..(n + 1)
        BY <1>1, <2>5, <3>4
      <4>2. f[m] = Then(new, f, m + Len(old))
        <5>1. Contains(used, m)
          BY <3>1, <3>4
        <5> QED BY ONLY <3>scan, <3>3, <5>1, ReplacesAt
      <4>3. Bit(t + 1) = new
        BY <2>5, <3>4 DEF PieceAt
      <4>4. Put(t + 1) \o f[m + l] = f[1]
        <5> DEFINE x == f[m + l]
                   p == Put(t)
        <5>1. x \in Seq(T) /\ p \in Seq(T) /\ new \in Seq(T)
          BY <1>2, <2>3, <3>1
        <5>2. f[m] = new \o x
          BY <4>2 DEF Then
        <5>3. p \o f[m] = f[1] /\ Put(t + 1) = p \o new
          BY <2>3, <3>2, <4>3
        <5> HIDE DEF x, p
        <5>4. p \o (new \o x) = (p \o new) \o x
          BY ONLY <5>1, SMTT(40)
        <5>5. Put(t + 1) \o x = f[1]
          <6> HIDE DEF Put
          <6> QED BY ONLY <5>2, <5>3, <5>4, Zenon
        <5> QED BY <5>5 DEF x
      <4>5. ASSUME NEW k \in (t + 1 + 1)..(m + l - 1)
            PROVE  Bit(k) = <<>>
        <5>1. m < k /\ k < m + l
          BY <2>5, <1>1
        <5>2. k \notin S
          BY <1>1, <3>4, <5>1
        <5> QED BY <3>4, <5>1, <5>2 DEF PieceAt
      <4>6. Clear(S, l, m + l)
        <5> SUFFICES ASSUME NEW j \in S, j < m + l
                     PROVE  j + l <= m + l
          BY DEF Clear
        <5>1. j \in 1..n /\ ~(m < j)
          BY <1>1, <3>4
        <5> QED BY <1>1, <5>1
      <4>7. At(t + 1, m + l)
        <5>1. Whole(t + 1, m + l)
          BY <4>4
        <5> HIDE DEF Whole, Bit
        <5> QED BY <4>5, <4>6, <5>1
      <4> HIDE DEF At
      <4> QED BY <2>2, <4>1, <4>7
    <3>5. CASE m \notin S
      <4>1. m + 1 \in (t + 1 + 1)..(n + 1)
        BY <1>1, <2>5, <3>1
      <4>2. f[m] = First(held[m], f, m + 1)
        <5>1. ~Contains(used, m)
          BY <3>1, <3>5
        <5> QED BY ONLY <3>scan, <3>3, <5>1, ReplacesAt
      <4>3. Bit(t + 1) = <<held[m]>>
        <5>1. ~\E j \in S : j < m /\ m < j + Len(old)
          <6> SUFFICES ASSUME NEW j \in S, j < m, m < j + Len(old) PROVE FALSE
            OBVIOUS
          <6>1. j \in 1..n /\ j + l <= m
            BY <1>1, <3>2 DEF Clear
          <6> QED BY <1>1, <6>1, <3>1
        <5> QED BY <2>5, <3>5, <5>1 DEF PieceAt
      <4>4. Put(t + 1) \o f[m + 1] = f[1]
        <5> DEFINE x == f[m + 1]
                   p == Put(t)
                   w == <<held[m]>>
        <5>1. x \in Seq(T) /\ p \in Seq(T) /\ w \in Seq(T)
          BY <1>2, <2>3, <3>1
        <5>2. f[m] = w \o x
          BY <4>2 DEF First
        <5>3. p \o f[m] = f[1] /\ Put(t + 1) = p \o w
          BY <2>3, <3>2, <4>3
        <5> HIDE DEF x, p, w
        <5>4. p \o (w \o x) = (p \o w) \o x
          BY ONLY <5>1, SMTT(40)
        <5>5. Put(t + 1) \o x = f[1]
          <6> HIDE DEF Put
          <6> QED BY ONLY <5>2, <5>3, <5>4, Zenon
        <5> QED BY <5>5 DEF x
      <4>5. \A k \in (t + 1 + 1)..(m + 1 - 1) : Bit(k) = <<>>
        BY <2>2, <2>5
      <4>6. Clear(S, l, m + 1)
        <5> SUFFICES ASSUME NEW j \in S, j < m + 1
                     PROVE  j + l <= m + 1
          BY DEF Clear
        <5>1. j \in 1..n /\ j # m
          BY <1>1, <3>5
        <5>2. j < m
          BY <5>1, <3>1
        <5>3. j + l <= m
          BY <3>2, <5>2 DEF Clear
        <5> QED BY <1>1, <5>1, <5>3, <3>1
      <4>7. At(t + 1, m + 1)
        <5>1. Whole(t + 1, m + 1)
          BY <4>4
        <5> HIDE DEF Whole, Bit
        <5> QED BY <4>5, <4>6, <5>1
      <4> HIDE DEF At
      <4> QED BY <2>2, <4>1, <4>7
    <3> QED BY <3>4, <3>5
  <2> QED BY <2>4, <2>5
<1>6. n \in Good
  <2>1. n \in 0..n
    BY <1>1
  <2> HIDE DEF Good, n
  <2>2. 0..n \subseteq Good
    BY <1>1, <1>4, <1>5, BySteps
  <2> QED BY <2>1, <2>2
<1>7. PICK m \in (n + 1)..(n + 1) : At(n, m)
  <2> HIDE DEF At
  <2> QED BY <1>6
<1>8. f[n + 1] = <<>>
  <2>1. n + 1 \in 1..(Len(held) + 1 + Len(old)) /\ n + 1 > Len(held)
    BY <1>1
  <2> HIDE DEF n
  <2> QED BY <2>1, ReplacesAt
<1>9. Put(n) \in Seq(T)
  <2>1. CASE n = 0
    <3>1. [i \in 1..0 |-> PieceAt(held, S, old, new, i)] = <<>>
      OBVIOUS
    <3>2. Put(n) = <<>>
      BY <2>1, <3>1, FlattenEmpty DEF Written
    <3> QED BY <3>2
  <2>2. CASE n # 0
    <3>1. n - 1 \in 0..(n - 1) /\ n - 1 + 1 = n /\ n \in 1..n
      BY <1>1, <2>2
    <3>2. Put(n - 1) \in Seq(T) /\ Put(n) = Put(n - 1) \o Bit(n)
      BY <1>3, <3>1
    <3>3. Bit(n) \in Seq(T)
      BY <3>1 DEF PieceAt
    <3> HIDE DEF Put, Bit
    <3> QED BY <3>2, <3>3
  <2> QED BY <2>1, <2>2
<1>10. Put(n) = f[1]
  <2>1. m = n + 1 /\ Put(n) \o f[m] = f[1]
    BY <1>1, <1>7
  <2>2. Put(n) \o <<>> = Put(n)
    <3> HIDE DEF Put
    <3> QED BY <1>9, JoinNone
  <2> HIDE DEF Put
  <2> QED BY <2>1, <2>2, <1>8
<1>11. Put(n) = Spliced(held, S, old, new)
  BY DEF Written, PieceAt, Spliced
<1> QED BY <1>10, <1>11

LEMMA AscendingIsShort ==
  ASSUME NEW n \in Nat, NEW acc \in Seq(1..n), NEW step \in Nat, step > 0,
         \A a, b \in 1..Len(acc) : a < b => acc[a] + step <= acc[b]
  PROVE  Len(acc) <= n
<1> DEFINE l == Len(acc)
           Good == {t \in 0..l : t = 0 \/ t <= acc[t]}
<1>1. l \in Nat /\ 0 \in 0..l /\ \A a \in 1..l : acc[a] \in 1..n
  OBVIOUS
<1>2. ASSUME NEW t \in 0..(l - 1), t \in Good
      PROVE  t + 1 \in Good
  <2>1. t + 1 \in 1..l /\ t + 1 \in 0..l /\ acc[t + 1] \in 1..n
    BY <1>1
  <2>2. CASE t = 0
    BY <2>1, <2>2
  <2>3. CASE t # 0
    <3>1. t \in 1..l /\ t < t + 1 /\ t <= acc[t] /\ acc[t] \in 1..n
      BY <1>1, <1>2, <2>3
    <3>2. acc[t] + step <= acc[t + 1]
      BY <2>1, <3>1
    <3>3. t + 1 <= acc[t + 1]
      BY <2>1, <3>1, <3>2
    <3> QED BY <2>1, <3>3
  <2> QED BY <2>2, <2>3
<1>3. l \in Good
  <2>1. l \in 0..l
    BY <1>1
  <2>2. 0 \in Good
    BY <1>1
  <2> HIDE DEF Good, l
  <2>3. 0..l \subseteq Good
    BY <1>1, <1>2, <2>2, BySteps
  <2> QED BY <2>1, <2>3
<1> QED BY <1>1, <1>3

(* As many members as places when no two are the same. *)
LEMMA MembersOf ==
  ASSUME NEW n \in Nat, NEW acc \in Seq(1..n),
         \A a, b \in 1..Len(acc) : a < b => acc[a] < acc[b]
  PROVE  Cardinality({acc[a] : a \in 1..Len(acc)}) = Len(acc)
<1> DEFINE l == Len(acc)
           S == {acc[a] : a \in 1..l}
           f == [a \in 1..l |-> acc[a]]
<1>1. l \in Nat /\ \A a \in 1..l : acc[a] \in 1..n
  OBVIOUS
<1>2. IsFiniteSet(1..l) /\ Cardinality(1..l) = l
  <2> HIDE DEF l
  <2>1. 1 \in Int /\ l \in Int /\ (IF 1 > l THEN 0 ELSE l - 1 + 1) = l
    BY <1>1
  <2> QED BY <2>1, FS_Interval
<1>3. f \in [1..l -> S] /\ \A y \in S : \E a \in 1..l : f[a] = y
  OBVIOUS
<1>4. \A a, b \in 1..l : f[a] = f[b] => a = b
  <2> SUFFICES ASSUME NEW a \in 1..l, NEW b \in 1..l, acc[a] = acc[b], a # b
               PROVE  FALSE
    OBVIOUS
  <2>1. acc[a] \in 1..n /\ acc[b] \in 1..n /\ (a < b \/ b < a)
    BY <1>1
  <2> QED BY <2>1
<1> HIDE DEF f, S
<1>5. f \in Surjection(1..l, S) /\ f \in Injection(1..l, S)
  BY <1>3, <1>4 DEF Surjection, Injection, IsInjective
<1>6. Cardinality(S) = l
  BY <1>2, <1>5, FS_Surjection
<1> QED BY <1>6 DEF S

(* What an edit promises of the text it read. *)
Rewrites(held, old, new, all, written, count) ==
  LET places == {i \in 1..Len(held) : Finds(held, old, i)}
  IN  \E S \in SUBSET places :
        /\ written = Spliced(held, S, old, new)
        /\ Cardinality(S) = count
        /\ ~all => S = places /\ Cardinality(S) = 1
        /\ all => \A i \in places : (i \in S) <=> ~\E j \in S : j < i /\ i < j + Len(old)

(* What a scan found, as the set S of its places. *)
PlacesFound(held, old, finds, S) ==
  /\ finds \in Seq(1..Len(held)) /\ Len(finds) \in Nat /\ Len(finds) <= Len(held)
  /\ S \in SUBSET (1..Len(held)) /\ Cardinality(S) = Len(finds)
  /\ \A i \in 1..Len(held) : Contains(finds, i) <=> i \in S
  /\ \A i \in S : Finds(held, old, i) /\ i + Len(old) <= Len(held) + 1
  /\ \A i, j \in S : i < j => i + Len(old) <= j
  /\ \A i \in 1..Len(held) : Finds(held, old, i) =>
       \E j \in S : j <= i /\ i < j + Len(old)
  /\ SubSeq(finds, 1, Len(finds)) = finds

LEMMA FoundPlaces ==
  ASSUME NEW T, NEW held \in Seq(T), NEW old \in Seq(T), Len(old) > 0,
         NEW finds, finds = Found(held, old, Len(old)),
         NEW S, S = {finds[a] : a \in 1..Len(finds)}
  PROVE  PlacesFound(held, old, finds, S)
<1> DEFINE n == Len(held)
           l == Len(old)
<1>1. n \in Nat /\ l \in Nat /\ l > 0
  OBVIOUS
<1>2. finds \in Seq(1..n) /\ FoundBefore(held, old, l, n + 1, finds)
  BY FoundIs
<1>3. \A a \in 1..Len(finds) : finds[a] \in 1..n /\ finds[a] + l <= n + 1 /\ Finds(held, old, finds[a])
  BY <1>2 DEF FoundBefore
<1>4. \A a, b \in 1..Len(finds) : a < b => finds[a] + l <= finds[b]
  BY <1>2 DEF FoundBefore
<1>5. \A i \in 1..n : Finds(held, old, i) =>
        \E a \in 1..Len(finds) : finds[a] <= i /\ i < finds[a] + l
  <2>1. n + 1 - 1 = n
    BY <1>1
  <2> QED BY <1>2, <2>1 DEF FoundBefore
<1>6. Len(finds) \in Nat /\ Len(finds) <= n
  <2>1. n \in Nat /\ finds \in Seq(1..n) /\ l \in Nat /\ l > 0
    BY <1>1, <1>2
  <2> HIDE DEF n, l
  <2>2. Len(finds) <= n
    BY ONLY <2>1, <1>4, AscendingIsShort
  <2> QED BY <2>1, <2>2
<1>7. Cardinality(S) = Len(finds)
  <2>1. \A a, b \in 1..Len(finds) : a < b => finds[a] < finds[b]
    BY <1>1, <1>3, <1>4
  <2> QED BY <1>1, <1>2, <2>1, MembersOf
<1>8. S \in SUBSET (1..n) /\ \A i \in 1..n : Contains(finds, i) <=> i \in S
  BY <1>3 DEF Contains
<1>9. \A i \in S : Finds(held, old, i) /\ i + l <= n + 1
  BY <1>3
<1>10. ASSUME NEW i \in S, NEW j \in S, i < j
       PROVE  i + l <= j
  <2>1. PICK a \in 1..Len(finds), b \in 1..Len(finds) : i = finds[a] /\ j = finds[b]
    OBVIOUS
  <2>2. CASE a < b
    BY <1>4, <2>1, <2>2
  <2>3. CASE b < a
    <3>1. finds[b] + l <= finds[a]
      BY <1>4, <2>3
    <3> QED BY <1>1, <1>3, <1>10, <2>1, <3>1
  <2>4. CASE a = b
    BY <1>3, <1>10, <2>1, <2>4
  <2> QED BY <1>6, <2>2, <2>3, <2>4
<1>11. \A i \in 1..n : Finds(held, old, i) => \E j \in S : j <= i /\ i < j + l
  BY <1>5
<1>12. SubSeq(finds, 1, Len(finds)) = finds
  BY <1>2, SubSeqFull
<1> QED BY <1>2, <1>6, <1>7, <1>8, <1>9, <1>10, <1>11, <1>12 DEF PlacesFound

LEMMA RewritesAll ==
  ASSUME NEW T, NEW held \in Seq(T), NEW old \in Seq(T), Len(old) > 0, NEW new \in Seq(T)
  PROVE  Rewrites(held, old, new, TRUE, replacen(held, old, new, Len(held)),
                  Len(Found(held, old, Len(old))))
<1> DEFINE finds == Found(held, old, Len(old))
           S == {finds[a] : a \in 1..Len(finds)}
           n == Len(held)
           l == Len(old)
<1>1. n \in Nat /\ l \in Nat /\ l > 0
  OBVIOUS
<1>2. /\ finds \in Seq(1..n) /\ Len(finds) \in Nat /\ Len(finds) <= n
      /\ S \in SUBSET (1..n) /\ Cardinality(S) = Len(finds)
      /\ \A i \in 1..n : Contains(finds, i) <=> i \in S
      /\ \A i \in S : Finds(held, old, i) /\ i + l <= n + 1
      /\ \A i, j \in S : i < j => i + l <= j
      /\ \A i \in 1..n : Finds(held, old, i) => \E j \in S : j <= i /\ i < j + l
      /\ SubSeq(finds, 1, Len(finds)) = finds
  <2>1. finds = Found(held, old, Len(old)) /\ S = {finds[a] : a \in 1..Len(finds)}
    OBVIOUS
  <2> HIDE DEF finds, S
  <2>2. PlacesFound(held, old, finds, S)
    BY <2>1, FoundPlaces
  <2> QED BY ONLY <2>2 DEF PlacesFound
<1>3. Used(held, old, n) = finds
  <2>1. ~(n < Len(finds)) /\ SubSeq(finds, 1, Len(finds)) = finds
    <3> HIDE DEF finds, S, n
    <3> QED BY <1>1, <1>2
  <2>2. Used(held, old, n) = SubSeq(finds, 1, IF n < Len(finds) THEN n ELSE Len(finds))
    BY DEF Used
  <2> HIDE DEF finds
  <2> QED BY <2>1, <2>2
<1>4. PICK f : Replaces(held, old, new, finds, f) /\ replacen(held, old, new, n) = f[1]
  BY <1>3, ReplacenReplaces
<1> HIDE DEF finds, S
<1>5. f[1] = Spliced(held, S, old, new)
  BY <1>2, <1>4, ReplacingSplices
<1>6. \A i \in 1..n : Finds(held, old, i) =>
        ((i \in S) <=> ~\E j \in S : j < i /\ i < j + l)
  <2> SUFFICES ASSUME NEW i \in 1..n, Finds(held, old, i)
               PROVE  (i \in S) <=> ~\E j \in S : j < i /\ i < j + l
    OBVIOUS
  <2>1. PICK j \in S : j <= i /\ i < j + l
    BY <1>2
  <2>2. j \in 1..n
    BY <1>2
  <2>3. i \in S => ~\E k \in S : k < i /\ i < k + l
    <3> SUFFICES ASSUME i \in S, NEW k \in S, k < i, i < k + l PROVE FALSE
      OBVIOUS
    <3>1. k + l <= i /\ k \in 1..n
      BY <1>2
    <3> QED BY <1>1, <3>1
  <2>4. i \notin S => j < i
    BY <2>1, <2>2
  <2> QED BY <2>1, <2>3, <2>4
<1>7. S \in SUBSET {i \in 1..n : Finds(held, old, i)}
  BY <1>2
<1> QED BY <1>2, <1>4, <1>5, <1>6, <1>7 DEF Rewrites, finds

LEMMA RewritesOne ==
  ASSUME NEW T, NEW held \in Seq(T), NEW old \in Seq(T), Len(old) > 0, NEW new \in Seq(T),
         overlapping_count(held, old) = 1
  PROVE  Rewrites(held, old, new, FALSE, replacen(held, old, new, 1), 1)
<1> DEFINE once == Found(held, old, 1)
           finds == Found(held, old, Len(old))
           S == {finds[a] : a \in 1..Len(finds)}
           n == Len(held)
           l == Len(old)
           places == {i \in 1..n : Finds(held, old, i)}
<1>1. n \in Nat /\ l \in Nat /\ l > 0 /\ 1 \in Nat /\ 1 <= l
  OBVIOUS
<1>2. once \in Seq(1..n) /\ FoundBefore(held, old, 1, n + 1, once) /\ Len(once) = 1
  <2>1. once \in Seq(1..n) /\ FoundBefore(held, old, 1, n + 1, once)
    <3> HIDE DEF l
    <3> QED BY <1>1, FoundIs DEF l
  <2> QED BY <2>1 DEF overlapping_count
<1> DEFINE q == once[1]
<1>3. q \in 1..n /\ Finds(held, old, q) /\ \A i \in 1..n : Finds(held, old, i) => i = q
  <2>a. Len(once) = 1
    BY <1>2
  <2>b. once \in Seq(1..n) /\ \A a \in 1..Len(once) : Finds(held, old, once[a])
    BY <1>2 DEF FoundBefore
  <2>c. \A k \in 1..(n + 1 - 1) : Finds(held, old, k) =>
          \E a \in 1..Len(once) : once[a] <= k /\ k < once[a] + 1
    BY <1>2 DEF FoundBefore
  <2> HIDE DEF once, n
  <2>1. 1 \in 1..Len(once)
    BY <2>a
  <2>2. once[1] \in 1..n /\ Finds(held, old, once[1])
    <3>1. once \in Seq(1..n)
      BY <2>b
    <3>2. once[1] \in 1..n
      <4> DEFINE U == 1..n
      <4>1. once \in Seq(U)
        BY <3>1
      <4> HIDE DEF U
      <4>2. once[1] \in U
        BY <2>1, <4>1
      <4> QED BY <4>2 DEF U
    <3>3. Finds(held, old, once[1])
      BY ONLY <2>1, <2>b
    <3> QED BY <3>2, <3>3
  <2>3. ASSUME NEW i \in 1..n, Finds(held, old, i)
        PROVE  i = once[1]
    <3>1. i \in 1..(n + 1 - 1)
      BY <1>1
    <3>2. PICK a \in 1..Len(once) : once[a] <= i /\ i < once[a] + 1
      BY <2>c, <2>3, <3>1
    <3>3. a = 1
      BY <2>a, <3>2
    <3> QED BY <1>1, <2>2, <3>2, <3>3
  <2> QED BY <2>2, <2>3
<1> HIDE DEF q
<1>4. PlacesFound(held, old, finds, S)
  <2>1. finds = Found(held, old, Len(old)) /\ S = {finds[a] : a \in 1..Len(finds)}
    OBVIOUS
  <2> HIDE DEF finds, S
  <2> QED BY <2>1, FoundPlaces
<1>5. S = {q}
  <2> HIDE DEF S, finds
  <2>1. S \in SUBSET (1..n) /\ (\A i \in S : Finds(held, old, i)) /\ \E j \in S : TRUE
    BY <1>3, <1>4 DEF PlacesFound
  <2> QED BY <1>3, <2>1
<1>6. Len(finds) = 1
  <2>1. Cardinality({q}) = 1
    BY FS_Singleton
  <2>2. Cardinality(S) = Len(finds)
    <3> HIDE DEF S, finds
    <3> QED BY <1>4 DEF PlacesFound
  <2> HIDE DEF S
  <2> QED BY <1>5, <2>1, <2>2
<1>7. Used(held, old, 1) = finds
  <2>1. ~(1 < Len(finds)) /\ SubSeq(finds, 1, Len(finds)) = finds
    <3> HIDE DEF finds, S
    <3> QED BY <1>4, <1>6 DEF PlacesFound
  <2>2. Used(held, old, 1) = SubSeq(finds, 1, IF 1 < Len(finds) THEN 1 ELSE Len(finds))
    BY DEF Used
  <2> HIDE DEF finds
  <2> QED BY <2>1, <2>2
<1>8. PICK f : Replaces(held, old, new, finds, f) /\ replacen(held, old, new, 1) = f[1]
  BY <1>7, ReplacenReplaces
<1>9. f[1] = Spliced(held, S, old, new)
  <2> HIDE DEF finds, S
  <2>1. /\ S \in SUBSET (1..Len(held))
        /\ \A i \in 1..Len(held) : Contains(finds, i) <=> i \in S
        /\ \A i \in S : i + Len(old) <= Len(held) + 1
        /\ \A i, j \in S : i < j => i + Len(old) <= j
    BY <1>4 DEF PlacesFound
  <2> QED BY <1>8, <2>1, ReplacingSplices
<1>10. S \in SUBSET places /\ S = places /\ Cardinality(S) = 1
  <2>1. places = {q}
    BY <1>3
  <2>2. Cardinality({q}) = 1
    BY FS_Singleton
  <2> HIDE DEF S, places
  <2> QED BY <1>5, <2>1, <2>2
<1> HIDE DEF S
<1>11. replacen(held, old, new, 1) = Spliced(held, S, old, new)
  BY <1>8, <1>9
<1> QED BY <1>10, <1>11 DEF Rewrites

(* decide asks for a write only of what an edit promises, and of nothing it saw in part. *)
LEMMA DecideRewrites ==
  ASSUME NEW T, NEW read, read.content \in Seq(T), NEW old \in Seq(T), NEW new \in Seq(T),
         NEW all \in BOOLEAN, decide(read, old, new, all).write
  PROVE  Rewrites(read.content, old, new, all, decide(read, old, new, all).content,
                  decide(read, old, new, all).count)
<1> DEFINE held == read.content
           n == IF all THEN Len(Found(held, old, Len(old))) ELSE overlapping_count(held, old)
           stays == \/ old = <<>> \/ old = new
                    \/ read.outcome # "ok" \/ read.truncated \/ read.lossy
                    \/ n = 0 \/ (n > 1 /\ ~all)
           most == IF all THEN Len(held) ELSE 1
           edit == [write |-> TRUE, count |-> n, content |-> replacen(held, old, new, most)]
<1>1. decide(read, old, new, all) = IF stays THEN Refuse ELSE edit
  BY DEF decide
<1>2. Refuse.write = FALSE /\ edit.count = n /\ edit.content = replacen(held, old, new, most)
  BY DEF Refuse
<1>3. ~stays
  <2> HIDE DEF stays, edit
  <2> QED BY <1>1, <1>2
<1>4. old # <<>> /\ n # 0 /\ ~(n > 1 /\ ~all)
  BY <1>3
<1>5. /\ decide(read, old, new, all).content = replacen(held, old, new, most)
      /\ decide(read, old, new, all).count = n
  <2> HIDE DEF stays, edit, n, most
  <2> QED BY <1>1, <1>2, <1>3
<1>6. Len(old) > 0
  BY <1>4, EmptySeq
<1>7. held \in Seq(T)
  OBVIOUS
<1>8. CASE all = TRUE
  <2>1. n = Len(Found(held, old, Len(old))) /\ most = Len(held)
    BY <1>8
  <2> HIDE DEF held, n, most
  <2>2. Rewrites(held, old, new, TRUE, replacen(held, old, new, Len(held)),
                 Len(Found(held, old, Len(old))))
    BY <1>6, <1>7, RewritesAll
  <2>3. Rewrites(held, old, new, all, replacen(held, old, new, most), n)
    BY <1>8, <2>1, <2>2
  <2> QED BY <1>5, <2>3 DEF held
<1>9. CASE all = FALSE
  <2>1. n = overlapping_count(held, old) /\ most = 1
    BY <1>9
  <2>2. overlapping_count(held, old) \in Nat
    <3>1. Len(old) \in Nat /\ 1 <= Len(old) /\ 1 \in Nat /\ 1 > 0
      BY <1>6
    <3> HIDE DEF held
    <3>2. Found(held, old, 1) \in Seq(1..Len(held))
      BY <1>7, <3>1, FoundIs
    <3> QED BY <3>2 DEF overlapping_count
  <2> HIDE DEF held, n, most
  <2>3. overlapping_count(held, old) = 1
    BY <1>4, <1>9, <2>1, <2>2
  <2>4. Rewrites(held, old, new, FALSE, replacen(held, old, new, 1), 1)
    BY <1>6, <1>7, <2>3, RewritesOne
  <2>5. Rewrites(held, old, new, all, replacen(held, old, new, most), n)
    BY <1>9, <2>1, <2>3, <2>4
  <2> QED BY <1>5, <2>5 DEF held
<1> QED BY <1>8, <1>9

LEMMA DecideTypes ==
  ASSUME NEW T, NEW read, read.content \in Seq(T), NEW old \in Seq(T), NEW new \in Seq(T),
         NEW all, decide(read, old, new, all).write
  PROVE  decide(read, old, new, all).content \in Seq(T)
<1> DEFINE held == read.content
           n == IF all THEN Len(Found(held, old, Len(old))) ELSE overlapping_count(held, old)
           stays == \/ old = <<>> \/ old = new
                    \/ read.outcome # "ok" \/ read.truncated \/ read.lossy
                    \/ n = 0 \/ (n > 1 /\ ~all)
           most == IF all THEN Len(held) ELSE 1
           edit == [write |-> TRUE, count |-> n, content |-> replacen(held, old, new, most)]
<1>1. decide(read, old, new, all) = IF stays THEN Refuse ELSE edit
  BY DEF decide
<1>2. Refuse.write = FALSE /\ edit.content = replacen(held, old, new, most)
  BY DEF Refuse
<1>3. ~stays
  <2> HIDE DEF stays, edit
  <2> QED BY <1>1, <1>2
<1>4. Len(old) > 0
  BY <1>3, EmptySeq
<1>5. decide(read, old, new, all).content = replacen(held, old, new, most)
  <2> HIDE DEF stays, edit, most
  <2> QED BY <1>1, <1>2, <1>3
<1>6. replacen(held, old, new, most) \in Seq(T)
  <2> HIDE DEF most
  <2>1. PICK f : /\ Replaces(held, old, new, Used(held, old, most), f)
                 /\ replacen(held, old, new, most) = f[1]
    BY <1>4, ReplacenReplaces
  <2>2. f \in [1..(Len(held) + 1 + Len(old)) -> Seq(T)]
    BY <1>4, <2>1, ReplacesTypes
  <2>3. 1 \in 1..(Len(held) + 1 + Len(old))
    BY <1>4
  <2> QED BY <2>1, <2>2, <2>3
<1> QED BY <1>5, <1>6

-----------------------------------------------------------------------------
(* The edit tool.  A text that a read shows has no "?" in it, and a write asks for what was
   decided of that text, which its look has to find in the file.                            *)
Char == {"a", "b", "?", "r"}

EditInv ==
  /\ call \in [old: Seq(Char), new: Seq(Char), replace_all: BOOLEAN]
  /\ file \in {Absent} \cup Seq(Char)
  /\ got.content \in Seq(Char) /\ ~Contains(got.content, "?")
  /\ at \in {"write", "rename"} =>
       /\ decided = decide(got, call.old, call.new, call.replace_all)
       /\ decided.write
  /\ at = "rename" => looked.text = got.content /\ (file = looked.text \/ looked.late)
  /\ at # "done" => outcome # "replaced" /\ landed = NotLanded
  /\ EditKeepsTheRest

LEMMA TextsAreTexts ==
  ASSUME NEW chars \in SUBSET Char, NEW n \in Nat
  PROVE  Texts(chars, n) \subseteq Seq(Char)
<1> SUFFICES ASSUME NEW t \in Texts(chars, n) PROVE t \in Seq(Char)
  OBVIOUS
<1>1. PICK k \in 0..n : t \in [1..k -> chars]
  BY DEF Texts
<1> HIDE DEF Char
<1>2. k \in Nat /\ t \in [1..k -> Char]
  BY <1>1
<1> QED BY <1>2, SeqDef

LEMMA EditStarts == EditAssumption /\ EditInit => EditInv
<1> SUFFICES ASSUME EditAssumption, EditInit PROVE EditInv
  OBVIOUS
<1>1. /\ {"a", "b"} \in SUBSET Char /\ {"a", "?"} \in SUBSET Char
      /\ MaxFile \in Nat /\ 2 \in Nat
  BY DEF Char, EditAssumption
<1>2. Texts({"a", "b"}, MaxFile) \subseteq Seq(Char) /\ Texts({"a", "?"}, 2) \subseteq Seq(Char)
      /\ Texts({"a", "b"}, 2) \subseteq Seq(Char)
  BY <1>1, TextsAreTexts
<1>3. {<<>>, <<"b">>, <<"a", "a">>} \subseteq Seq(Char)
  BY DEF Char
<1>4. file \in {Absent} \cup Seq(Char)
  BY <1>2 DEF EditInit
<1>5. call \in [old: Seq(Char), new: Seq(Char), replace_all: BOOLEAN]
  <2>1. call \in [old: Texts({"a", "b"}, 2), new: {<<>>, <<"b">>, <<"a", "a">>}, replace_all: BOOLEAN]
    BY DEF EditInit
  <2> QED BY <1>2, <1>3, <2>1
<1>6. got.content = <<>> /\ at = "read" /\ outcome = "none" /\ landed = NotLanded
  BY DEF EditInit, NotRead
<1>7. got.content \in Seq(Char) /\ ~Contains(got.content, "?")
  BY <1>6 DEF Contains
<1>8. EditKeepsTheRest
  BY <1>6 DEF EditKeepsTheRest
<1> QED BY <1>4, <1>5, <1>6, <1>7, <1>8 DEF EditInv

LEMMA ShownIsWhole ==
  ASSUME NEW t \in Seq(Char)
  PROVE  Shown(t) \in Seq(Char) /\ ~Contains(Shown(t), "?")
<1>1. DOMAIN t = 1..Len(t) /\ Len(t) \in Nat /\ \A i \in 1..Len(t) : t[i] \in Char
  OBVIOUS
<1>2. Shown(t) = [i \in 1..Len(t) |-> IF t[i] = "?" THEN "r" ELSE t[i]]
  BY <1>1 DEF Shown
<1>3. Shown(t) \in [1..Len(t) -> Char]
  BY <1>1, <1>2 DEF Char
<1>4. Shown(t) \in Seq(Char) /\ Len(Shown(t)) = Len(t)
  <2> HIDE DEF Char
  <2> QED BY <1>1, <1>3, SeqDef
<1>5. \A i \in 1..Len(Shown(t)) : Shown(t)[i] # "?"
  BY <1>1, <1>2, <1>4
<1> QED BY <1>4, <1>5 DEF Contains

LEMMA EditReadKeeps == EditAssumption /\ EditInv /\ Read => EditInv'
<1> SUFFICES ASSUME EditAssumption, EditInv, Read PROVE EditInv'
  OBVIOUS
<1>1. /\ file' = file /\ call' = call /\ decided' = decided /\ landed' = landed
      /\ at = "read" /\ landed = NotLanded /\ outcome # "replaced"
      /\ at' \in {"decide", "done"} /\ outcome' # "replaced"
  BY DEF Read, Settled, EditInv
<1>2. got'.content \in Seq(Char) /\ ~Contains(got'.content, "?")
  <2> DEFINE n == IF Len(file) > ReadMax THEN ReadMax ELSE Len(file)
             kept == SubSeq(file, 1, n)
  <2>1. CASE file # Absent /\ got'.content = Shown(kept)
    <3>1. file \in Seq(Char)
      BY <2>1 DEF EditInv
    <3>2. n \in 0..Len(file)
      BY <3>1 DEF EditAssumption
    <3>3. kept \in Seq(Char)
      <4> HIDE DEF n
      <4> QED BY <3>1, <3>2, CutIsPrefix
    <3> HIDE DEF kept
    <3>4. Shown(kept) \in Seq(Char) /\ ~Contains(Shown(kept), "?")
      BY <3>3, ShownIsWhole
    <3> QED BY <2>1, <3>4
  <2>2. CASE got' = [NotRead EXCEPT !.outcome = "missed"]
    <3>1. got'.content = <<>>
      BY <2>2 DEF NotRead
    <3> QED BY <3>1 DEF Contains
  <2>3. CASE got' = got
    BY <2>3 DEF EditInv
  <2>4. \/ file # Absent /\ got' = [outcome |-> "ok", content |-> Shown(kept),
                                      truncated |-> kept # file, lossy |-> Contains(kept, "?")]
        \/ got' = [NotRead EXCEPT !.outcome = "missed"]
        \/ got' = got
    BY Zenon DEF Read
  <2> HIDE DEF kept
  <2>5. file # Absent /\ got' = [outcome |-> "ok", content |-> Shown(kept),
                                  truncated |-> kept # file, lossy |-> Contains(kept, "?")]
        => file # Absent /\ got'.content = Shown(kept)
    OBVIOUS
  <2> QED BY <2>1, <2>2, <2>3, <2>4, <2>5
<1>3. EditKeepsTheRest'
  BY <1>1 DEF EditKeepsTheRest
<1> QED BY <1>1, <1>2, <1>3 DEF EditInv

LEMMA EditDecideKeeps == EditInv /\ Decide => EditInv'
<1> SUFFICES ASSUME EditInv, Decide PROVE EditInv'
  OBVIOUS
<1>1. /\ file' = file /\ call' = call /\ got' = got /\ landed' = landed
      /\ at = "decide" /\ landed = NotLanded /\ outcome # "replaced"
      /\ outcome' # "replaced" /\ at' \in {"write", "done"}
      /\ decided' = decide(got, call.old, call.new, call.replace_all)
      /\ at' = "write" => decided'.write
  BY DEF Decide, Settled, EditInv
<1>2. EditKeepsTheRest'
  BY <1>1 DEF EditKeepsTheRest
<1> QED BY <1>1, <1>2 DEF EditInv

LEMMA EditLookKeeps == EditInv /\ Look => EditInv'
<1> SUFFICES ASSUME EditInv, Look PROVE EditInv'
  OBVIOUS
<1>1. /\ UNCHANGED <<file, call, got, decided, landed>>
      /\ at = "write" /\ at' \in {"rename", "done"}
      /\ landed = NotLanded /\ outcome # "replaced" /\ outcome' # "replaced"
  BY DEF Look, Settled, EditInv
<1>2. at' = "rename" => file = got.content /\ looked'.text = file
  BY <1>1 DEF Look, Settled, NotLooked
<1>3. EditKeepsTheRest'
  BY <1>1 DEF EditKeepsTheRest
<1> QED BY <1>1, <1>2, <1>3 DEF EditInv

LEMMA EditRenameKeeps == EditInv /\ Rename => EditInv'
<1> SUFFICES ASSUME EditInv, Rename PROVE EditInv'
  OBVIOUS
<1>1. /\ call' = call /\ got' = got /\ decided' = decided /\ looked' = looked
      /\ at = "rename" /\ landed = NotLanded /\ at' = "done"
  BY DEF Rename, Settled, EditInv
<1>2. CASE outcome' = "replaced" /\ file' = decided.content
           /\ landed' = [before |-> file, after |-> decided.content]
  <2> DEFINE held == got.content
             d == decide(got, call.old, call.new, call.replace_all)
  <2>1. /\ call.old \in Seq(Char) /\ call.new \in Seq(Char) /\ call.replace_all \in BOOLEAN
        /\ held \in Seq(Char) /\ ~Contains(held, "?") /\ decided = d /\ d.write
        /\ looked.text = held /\ (file = looked.text \/ looked.late)
    BY <1>1 DEF EditInv
  <2>2. Rewrites(held, call.old, call.new, call.replace_all, d.content, d.count)
    BY <2>1, DecideRewrites
  <2>3. d.content \in Seq(Char)
    BY <2>1, DecideTypes
  <2>4. EditKeepsTheRest'
    <3>1. /\ looked'.text = held /\ landed'.after = d.content /\ decided'.count = d.count
          /\ landed'.before = looked'.text \/ looked'.late
      BY <1>1, <1>2, <2>1
    <3> HIDE DEF held, d
    <3> QED BY <1>1, <1>2, <2>1, <2>2, <3>1 DEF EditKeepsTheRest, Rewrites
  <2> QED BY <1>1, <1>2, <2>1, <2>3, <2>4 DEF EditInv
<1>3. CASE outcome' # "replaced" /\ UNCHANGED <<file, landed>>
  <2>1. EditKeepsTheRest'
    BY <1>1, <1>3 DEF EditKeepsTheRest
  <2> QED BY <1>1, <1>3, <2>1 DEF EditInv
<1> QED BY <1>2, <1>3 DEF Rename, Settled

LEMMA EditChangeKeeps == EditInv /\ Change => EditInv'
<1> SUFFICES ASSUME EditInv, Change PROVE EditInv'
  OBVIOUS
<1>1. /\ UNCHANGED <<call, at, got, decided, landed, outcome>> /\ at # "done"
      /\ looked' = [text |-> looked.text, late |-> at = "rename"]
  BY DEF Change
<1>2. file' \in {Absent} \cup Seq(Char)
  <2>1. <<"a">> \in Seq(Char) /\ <<"a", "b">> \in Seq(Char) /\ <<"?">> \in Seq(Char)
    BY DEF Char
  <2>2. file' \in {Absent, <<"a">>, <<"a", "b">>, <<"?">>}
    BY DEF Change
  <2> HIDE DEF Char
  <2> QED BY <2>1, <2>2
<1>3. EditKeepsTheRest'
  BY <1>1 DEF EditKeepsTheRest, EditInv
<1>4. at = "rename" => looked'.text = looked.text /\ looked'.late
  BY ONLY <1>1
<1> QED BY <1>1, <1>2, <1>3, <1>4 DEF EditInv

LEMMA EditInvariant == EditSpec => []EditInv
<1>1. EditInv /\ UNCHANGED editVars => EditInv'
  BY DEF editVars, EditInv, EditKeepsTheRest
<1>2. EditInv /\ [EditNext]_editVars => EditInv'
  BY <1>1, EditAssumption, EditReadKeeps, EditDecideKeeps, EditLookKeeps, EditRenameKeeps, EditChangeKeeps DEF EditNext
<1> QED BY <1>2, EditAssumption, EditStarts, PTL DEF EditSpec

(* For any files, limits and arguments: an edit rewrites the places it was asked to and no
   more, of the text its look saw, whatever others do to the file; and what it replaces is
   that text, unless the file changed between the look and the rename.  (tool-edit's
   decide, the steps of edit.json, and fs_write's expect_content.)                         *)
THEOREM EditsKeepTheRest == EditSpec => []EditKeepsTheRest
<1>1. EditInv => EditKeepsTheRest
  BY DEF EditInv
<1> QED BY <1>1, EditInvariant, PTL
=============================================================================
