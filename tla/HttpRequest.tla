---------------------------- MODULE HttpRequest ----------------------------
(***************************************************************************)
(* host_http.get and host_http.post (gwennol-core/src/steps/http.rs): one  *)
(* request, its redirects as hops that each face both gates, its deadline, *)
(* and the body, read here or handed over as a guarded stream.             *)
(*                                                                         *)
(* A step is the code between two awaits.  Time is counted in ticks.       *)
(***************************************************************************)
EXTENDS Naturals, Sequences

CONSTANTS
  Server,        \* a host and a port
  Granted,       \* those whose host the plugin's manifest names
  MaxRedirects,  \* param max_redirects
  Timeout,       \* param timeout_ms, in ticks
  Idle,          \* param idle_timeout_ms, in ticks
  MaxBytes,      \* param max_bytes
  MaxChunk       \* bound: the longest chunk of a body

ASSUME HttpAssumption ==
  /\ Granted \subseteq Server
  /\ MaxRedirects \in Nat /\ Timeout \in Nat /\ Idle \in Nat
  /\ MaxBytes \in Nat /\ MaxChunk \in Nat

VARIABLES
  stream,      \* param stream
  pc,          \* where the request, or the reader of its body, is
  hop,         \* what the next request says
  hops,        \* redirects followed
  deadline,    \* whether it is set, and the ticks left
  idle,        \* the ticks left for the chunk sought
  bytes,       \* how much of a buffered body was read
  empties,     \* the body has an empty chunk ready for the next poll
  cancelled,   \* the invocation's token has fired
  answer,      \* what the step returned
  approved,    \* history: what the operator allowed, in order
  sent,        \* history: the requests that went out, in order
  spent        \* history: ticks passed on the network before an answer

hopVars == <<hop, hops>>
timeVars == <<deadline, idle, spent>>
bodyVars == <<bytes, empties>>
vars == <<stream, pc, hopVars, timeVars, bodyVars, cancelled, answer, approved, sent>>

Scheme == {"http", "https"}
Url == [scheme: Scheme, server: Server]
Method == {"GET", "POST"}
Request == [url: Url, method: Method, headers: BOOLEAN, body: BOOLEAN]
Question == [url: Url, method: Method]        \* Access::Http

Foreign == [scheme |-> "file"]                \* a location that is neither

Answer == {"ok", "failed", "timeout", "denied", "withdrawn", "cancelled"}

OnTheNetwork == {"send", "wait", "body"}

TypeOK ==
  /\ stream \in BOOLEAN
  /\ pc \in {"hop", "ask", "served", "seek", "done"} \cup OnTheNetwork
  /\ hop \in Request
  /\ hops \in 0..MaxRedirects
  /\ deadline \in [set: BOOLEAN, left: 0..Timeout]
  /\ idle \in 0..Idle
  /\ bytes \in 0..(MaxBytes + MaxChunk)
  /\ empties \in BOOLEAN
  /\ cancelled \in BOOLEAN
  /\ answer \in Answer \cup {"none"}
  /\ approved \in Seq(Question)
  /\ sent \in Seq(Request)
  /\ Len(sent) <= hops + 1
  /\ spent \in Nat

(* What a plugin may ask for: a GET has no body. *)
Init ==
  /\ stream \in BOOLEAN
  /\ pc = "hop"
  /\ hop \in {r \in Request : r.method = "GET" => ~r.body}
  /\ hops = 0
  /\ deadline = [set |-> FALSE, left |-> Timeout]
  /\ idle = Idle
  /\ bytes = 0
  /\ empties = FALSE
  /\ cancelled = FALSE
  /\ answer = "none"
  /\ approved = <<>>
  /\ sent = <<>>
  /\ spent = 0

Goto(l) == pc' = l /\ UNCHANGED answer
Return(a) == pc' = "done" /\ answer' = a

-----------------------------------------------------------------------------
(* The gates, of this hop: the manifest first, the operator second. *)

CheckEgress ==
  /\ pc = "hop"
  /\ IF hop.url.server \in Granted THEN Goto("ask") ELSE Return("failed")
  /\ UNCHANGED <<stream, hopVars, timeVars, bodyVars, cancelled, approved, sent>>

Asked == [url |-> hop.url, method |-> hop.method]

(* Mutant: every hop has the whole budget. *)
Allow_Restarts ==
  /\ pc = "ask"
  /\ ~cancelled
  /\ approved' = Append(approved, Asked)
  /\ deadline' = [set |-> TRUE, left |-> Timeout]
  /\ Goto("send")
  /\ UNCHANGED <<stream, hopVars, idle, spent, bodyVars, cancelled, sent>>

(* The first approval sets the deadline: what the operator takes over it   *)
(* is not billed.                                                          *)
Allow ==
  /\ pc = "ask"
  /\ ~cancelled
  /\ approved' = Append(approved, Asked)
  /\ deadline' = [deadline EXCEPT !.set = TRUE]
  /\ Goto("send")
  /\ UNCHANGED <<stream, hopVars, idle, spent, bodyVars, cancelled, sent>>

Deny ==
  /\ pc = "ask"
  /\ ~cancelled
  /\ Return("denied")
  /\ UNCHANGED <<stream, hopVars, timeVars, bodyVars, cancelled, approved, sent>>

(* host::approve, biased towards the token. *)
Withdraw ==
  /\ pc = "ask"
  /\ cancelled
  /\ Return("withdrawn")
  /\ UNCHANGED <<stream, hopVars, timeVars, bodyVars, cancelled, approved, sent>>

-----------------------------------------------------------------------------
(* The network, which races the deadline and the token. *)

Send ==
  /\ pc = "send"
  /\ sent' = Append(sent, hop)
  /\ Goto("wait")
  /\ UNCHANGED <<stream, hopVars, timeVars, bodyVars, cancelled, approved>>

(* timeout_at polls what it bounds first, and the timer only if that is    *)
(* pending: a body with a chunk ready does not meet its deadline.          *)
Over ==
  /\ pc \in OnTheNetwork
  /\ deadline.left = 0
  /\ ~empties
  /\ Return("timeout")
  /\ UNCHANGED <<stream, hopVars, timeVars, bodyVars, cancelled, approved, sent>>

Cut ==
  /\ pc \in OnTheNetwork
  /\ cancelled
  /\ Return("cancelled")
  /\ UNCHANGED <<stream, hopVars, timeVars, bodyVars, cancelled, approved, sent>>

NetworkFails ==
  /\ pc \in OnTheNetwork
  /\ Return("failed")
  /\ UNCHANGED <<stream, hopVars, timeVars, bodyVars, cancelled, approved, sent>>

(* A body's next chunk may be there already, and empty. *)
NextReadyOrNot == empties' \in BOOLEAN

(* A response that is no hop.  A streamed body is handed over. *)
Responds ==
  /\ pc = "wait"
  /\ IF stream THEN pc' = "served" /\ answer' = "ok" /\ UNCHANGED empties
               ELSE Goto("body") /\ NextReadyOrNot
  /\ UNCHANGED <<stream, hopVars, timeVars, bytes, cancelled, approved, sent>>

(* redirect_target *)
Status == {"see_other", "legacy", "preserving"}    \* 303; 301, 302; 307, 308

Refused(location) ==
  \/ location = Foreign
  \/ hop.url.scheme = "https" /\ location.scheme = "http"

Rewritten(status) ==
  status = "see_other" \/ (status = "legacy" /\ hop.method # "GET")

(* Mutant: the location is compared with the URL the plugin named. *)
NextHop_FromTheFirst(status, location) ==
  [url |-> location,
   method |-> IF Rewritten(status) THEN "GET" ELSE hop.method,
   headers |-> sent[1].headers /\ location = sent[1].url,
   body |-> hop.body /\ ~Rewritten(status)]

(* What goes on to the next hop; leaving the origin drops every header. *)
NextHop(status, location) ==
  [url |-> location,
   method |-> IF Rewritten(status) THEN "GET" ELSE hop.method,
   headers |-> hop.headers /\ location = hop.url,
   body |-> hop.body /\ ~Rewritten(status)]

RedirectRefused ==
  /\ pc = "wait"
  /\ \/ \E location \in Url \cup {Foreign} : Refused(location)
     \/ hops >= MaxRedirects
  /\ Return("failed")
  /\ UNCHANGED <<stream, hopVars, timeVars, bodyVars, cancelled, approved, sent>>

(* Mutant: a hop within the origin was allowed with the first one. *)
Redirected_Trusting ==
  /\ pc = "wait"
  /\ hops < MaxRedirects
  /\ \E status \in Status, location \in Url :
       /\ ~Refused(location)
       /\ hop' = NextHop(status, location)
       /\ Goto(IF location = hop.url THEN "send" ELSE "hop")
  /\ hops' = hops + 1
  /\ UNCHANGED <<stream, timeVars, bodyVars, cancelled, approved, sent>>

Redirected ==
  /\ pc = "wait"
  /\ hops < MaxRedirects
  /\ \E status \in Status, location \in Url :
       /\ ~Refused(location)
       /\ hop' = NextHop(status, location)
  /\ hops' = hops + 1
  /\ Goto("hop")
  /\ UNCHANGED <<stream, timeVars, bodyVars, cancelled, approved, sent>>

-----------------------------------------------------------------------------
(* An empty chunk of the body (bytes_stream, external) comes while a poll  *)
(* is pending; one that comes with the timer due, before the poll sees it, *)
(* is as if it had come in time.                                           *)
EmptyArrives ==
  /\ ~empties
  /\ \/ pc = "body" /\ deadline.left > 0
     \/ pc = "seek" /\ idle > 0
  /\ empties' = TRUE
  /\ UNCHANGED <<stream, pc, hopVars, timeVars, bytes, cancelled, answer, approved, sent>>

-----------------------------------------------------------------------------
(* The buffered body. *)

(* Past the cap the rest stays unread. *)
BodyChunk ==
  /\ pc = "body"
  /\ ~empties
  /\ \E n \in 1..MaxChunk : bytes' = bytes + n
  /\ IF bytes' > MaxBytes THEN Return("ok") ELSE Goto("body")
  /\ NextReadyOrNot
  /\ UNCHANGED <<stream, hopVars, timeVars, cancelled, approved, sent>>

EmptyBodyChunk ==
  /\ pc = "body"
  /\ empties
  /\ NextReadyOrNot
  /\ UNCHANGED <<stream, pc, hopVars, timeVars, bytes, cancelled, answer, approved, sent>>

BodyEnds ==
  /\ pc = "body"
  /\ ~empties
  /\ Return("ok")
  /\ UNCHANGED <<stream, hopVars, timeVars, bodyVars, cancelled, approved, sent>>

-----------------------------------------------------------------------------
(* The streamed body behind guarded_body, and the reader of the handle.    *)

StreamUnchanged == UNCHANGED <<stream, hopVars, deadline, spent, bytes, cancelled, answer, approved, sent>>

(* The deadline is taken once per chunk sought. *)
Seek ==
  /\ pc = "served"
  /\ pc' = "seek" /\ idle' = Idle
  /\ NextReadyOrNot
  /\ StreamUnchanged

Closes ==
  /\ pc = "served"
  /\ pc' = "done"
  /\ StreamUnchanged /\ UNCHANGED <<idle, empties>>

Chunk ==
  /\ pc = "seek"
  /\ ~empties
  /\ pc' = "served"
  /\ StreamUnchanged /\ UNCHANGED <<idle, empties>>

(* Mutant: an empty chunk restarts the clock. *)
EmptyChunk_Restarts ==
  /\ pc = "seek"
  /\ empties
  /\ NextReadyOrNot
  /\ idle' = Idle
  /\ StreamUnchanged /\ UNCHANGED pc

(* It is skipped, and the deadline stands. *)
EmptyChunk ==
  /\ pc = "seek"
  /\ empties
  /\ NextReadyOrNot
  /\ StreamUnchanged /\ UNCHANGED <<pc, idle>>

StreamEnds ==
  /\ pc = "seek"
  /\ ~empties
  /\ pc' = "done"
  /\ StreamUnchanged /\ UNCHANGED <<idle, empties>>

IdleOver ==
  /\ pc = "seek" /\ idle = 0
  /\ ~empties
  /\ pc' = "done"
  /\ StreamUnchanged /\ UNCHANGED <<idle, empties>>

(* The kernel releases the read with the token once a poll of it is        *)
(* pending, which a skipped chunk is too (external).                       *)
ReadReleased ==
  /\ pc = "seek" /\ cancelled
  /\ pc' = "done"
  /\ StreamUnchanged /\ UNCHANGED <<idle, empties>>

-----------------------------------------------------------------------------
Cancel ==
  /\ ~cancelled /\ pc # "done"
  /\ cancelled' = TRUE
  /\ UNCHANGED <<stream, pc, hopVars, timeVars, bodyVars, answer, approved, sent>>

(* The clocks (external): what is due at zero does not wait for more. *)
DeadlineTick ==
  /\ pc \in {"ask"} \cup OnTheNetwork
  /\ deadline.set /\ deadline.left > 0
  /\ deadline' = [deadline EXCEPT !.left = @ - 1]
  /\ spent' = IF pc \in OnTheNetwork THEN spent + 1 ELSE spent
  /\ UNCHANGED idle

IdleTick ==
  /\ pc = "seek" /\ idle > 0
  /\ idle' = idle - 1
  /\ UNCHANGED <<deadline, spent>>

Tick ==
  /\ DeadlineTick \/ IdleTick
  /\ UNCHANGED <<stream, pc, hopVars, bodyVars, cancelled, answer, approved, sent>>

Gates == CheckEgress \/ Allow \/ Deny \/ Withdraw

Network ==
  \/ Send \/ Over \/ Cut \/ NetworkFails \/ Responds
  \/ RedirectRefused \/ Redirected
  \/ EmptyArrives \/ BodyChunk \/ EmptyBodyChunk \/ BodyEnds

Stream ==
  \/ Seek \/ Closes \/ Chunk \/ EmptyChunk \/ StreamEnds \/ IdleOver \/ ReadReleased

Next == Gates \/ Network \/ Stream \/ Cancel \/ Tick

Spec == Init /\ [][Next]_vars

(* Futures are polled, clocks run, and a timer that is due fires when a    *)
(* poll finds the source pending.  Nothing is assumed of the network or of *)
(* the operator but where a property says so.                              *)
Fairness ==
  /\ WF_vars(CheckEgress) /\ WF_vars(Withdraw) /\ WF_vars(Send)
  /\ WF_vars(Over) /\ WF_vars(Cut)
  /\ WF_vars(IdleOver) /\ WF_vars(ReadReleased)
  /\ WF_vars(Tick)

FairSpec == Spec /\ Fairness

OperatorAnswers == WF_vars(Allow \/ Deny)

(* The body is not for ever ready with one more empty chunk. *)
BodyParks == []<>~empties

-----------------------------------------------------------------------------
(***************************************************************************)
(* "Redirects are hops, and every hop is gated" (http_post): whatever goes *)
(* out is what the operator allowed, one answer for one request, and goes  *)
(* to a host the manifest names.                                           *)
(***************************************************************************)
HopsAreGated ==
  /\ Len(sent) <= Len(approved)
  /\ \A i \in 1..Len(sent) :
       /\ approved[i] = [url |-> sent[i].url, method |-> sent[i].method]
       /\ sent[i].url.server \in Granted

(***************************************************************************)
(* The far end chooses where a redirect goes, never what it gains: the     *)
(* plugin's headers have only ever been to the origin they were meant for, *)
(* not even back to it after a detour; https is not left; a body or a POST *)
(* that was dropped does not return (redirect_target, request).            *)
(***************************************************************************)
ChainOnlyNarrows ==
  \A j \in 1..Len(sent) : \A i \in 1..(j - 1) :
    /\ sent[j].headers => sent[i].headers /\ sent[i].url = sent[j].url
    /\ sent[i].url.scheme = "https" => sent[j].url.scheme = "https"
    /\ sent[j].body => sent[i].body
    /\ sent[j].method = "POST" => sent[i].method = "POST"

(* "timeout_ms bounds reaching a response, redirect chain included, and    *)
(* the body as well when it is buffered" (http_post): the time in which a  *)
(* poll is pending, for a body always ready meets no deadline (Over).      *)
BudgetBoundsTheChain == spent <= Timeout

(***************************************************************************)
(* A peer that is silent, that redirects for ever, or whose chunks,        *)
(* empty ones among them, leave a poll pending now and then, does not hold *)
(* the step if the operator answers its questions, nor the reader of a     *)
(* streamed body.  One always ready with empty chunks meets no deadline:   *)
(* the token ends it, and whatever else there is (guarded_body).           *)
(***************************************************************************)
NothingHangs ==
  /\ OperatorAnswers /\ BodyParks => <>(answer # "none")
  /\ BodyParks => (pc = "seek" ~> pc # "seek")
  /\ cancelled ~> answer # "none"
  /\ pc = "seek" /\ cancelled ~> pc # "seek"

(* CANCELLED_AT_APPROVAL: "the operator never answered, so nothing was     *)
(* done" (steps/mod.rs).                                                   *)
WithdrawnMeansNothingRan == answer = "withdrawn" => sent = <<>>
=============================================================================
