----------------------------- MODULE StreamRelay -----------------------------
(***************************************************************************)
(* A streamed round below the agent loop: the provider plugin's relay      *)
(* (relay_sse in provider-anthropic/src/lib.rs), which reads the vendor's  *)
(* event stream and writes contract events, one line each, and the loop's  *)
(* EventReader (agent/stream.rs), which reads the lines.  Between them is  *)
(* a bounded channel of the kernel; both sides watch the turn's token.     *)
(*                                                                         *)
(* A line is a run of fragments, the last of which holds the newline: the  *)
(* reader's buffer of 8192 bytes may cut a line anywhere.  Kernel streams  *)
(* are external: a read takes what is there before it looks at the end,    *)
(* the failure or the token, and a write is committed whole or not at all. *)
(*                                                                         *)
(* A step is the code between two awaits.  The token is read in it at most *)
(* once, so a token fired later in the step is one fired after it.         *)
(***************************************************************************)
EXTENDS Naturals, Sequences, FiniteSets

CONSTANTS
  Capacity,    \* lines the channel holds
  MaxLine,     \* bound: fragments in a line
  MaxRead,     \* fragments one read of the loop returns at most
  Cap,         \* SessionConfig::max_event_bytes, in fragments
  MaxItems,    \* bound: vendor events in one chunk of the body
  MaxChunks    \* bound: chunks the vendor sends before it falls silent

ASSUME ChannelAssumption ==
  /\ Capacity \in Nat \ {0}
  /\ MaxLine \in Nat \ {0}
  /\ MaxRead \in Nat \ {0}
  /\ Cap \in Nat
  /\ MaxItems \in Nat
  /\ MaxChunks \in Nat

VARIABLES
  relay,       \* where relay_sse is
  chunks,      \* chunks read from the vendor
  sent,        \* kinds of the contract events made of them, in order
  queue,       \* how many of those are not written yet
  channel,     \* fragments written and not read
  producer,    \* the writing end of the channel
  consumer,    \* the reading end of the channel
  reader,      \* where EventReader::next is
  buf,         \* EventReader::buf, from `consumed` on
  got,         \* numbers of the events the loop was handed
  outcome,     \* how the stream ended for the loop
  cancelled    \* the turn's token has fired

vars == <<relay, chunks, sent, queue, channel, producer, consumer, reader, buf,
          got, outcome, cancelled>>

relayVars == <<relay, chunks, sent, queue, producer>>
readerVars == <<reader, buf, got, outcome, consumer>>

(* Kinds of contract events; the stream ends with one of the last two.      *)
Terminal == {"end", "error"}
Kind == {"content"} \cup Terminal

Fragment == [n: Nat, last: BOOLEAN]

(* The line of event n in `size` fragments. *)
Line(n, size) == [k \in 1..size |-> [n |-> n, last |-> k = size]]

Newlines(fragments) == {k \in 1..Len(fragments) : fragments[k].last}

Outcome == {"reading", "end", "error", "ended", "source_failed", "cancelled", "too_long"}

(* Types, and the channel never holds more than it may. *)
TypeOK ==
  /\ relay \in {"excerpt", "poll", "read", "emit", "over"}
  /\ chunks \in 0..MaxChunks
  /\ sent \in Seq(Kind)
  /\ queue \in 0..Len(sent)
  /\ channel \in Seq(Fragment)
  /\ Cardinality(Newlines(channel)) <= Capacity
  /\ producer \in {"open", "closed", "failed"}
  /\ consumer \in {"open", "closed"}
  /\ reader \in {"scan", "wait", "gone"}
  /\ buf \in Seq(Fragment) /\ Len(buf) <= Cap + MaxRead   \* the comment on CHUNK
  /\ got \in Seq(Nat)
  /\ outcome \in Outcome
  /\ cancelled \in BOOLEAN

(* The relay starts on a body that is an event stream, or on the body of a *)
(* refusal, which it turns into one error event.                           *)
Init ==
  /\ relay \in {"poll", "excerpt"}
  /\ chunks = 0
  /\ sent = <<>>
  /\ queue = 0
  /\ channel = <<>>
  /\ producer = "open"
  /\ consumer = "open"
  /\ reader = "scan"
  /\ buf = <<>>
  /\ got = <<>>
  /\ outcome = "reading"
  /\ cancelled = FALSE

Cancel ==
  /\ ~cancelled
  /\ cancelled' = TRUE
  /\ UNCHANGED <<relayVars, channel, readerVars>>

-----------------------------------------------------------------------------
(* The relay. *)

(* The step is over and its output closed, or reported by the kernel as    *)
(* failed, with the text of the failure.                                   *)
RelayOver(how) ==
  /\ relay' = "over"
  /\ producer' = how
  /\ UNCHANGED <<chunks, sent, queue>>

RelayPoll ==
  /\ relay = "poll"
  /\ IF cancelled
     THEN RelayOver("closed")
     ELSE relay' = "read" /\ UNCHANGED <<chunks, sent, queue, producer>>
  /\ UNCHANGED <<channel, readerVars, cancelled>>

(***************************************************************************)
(* StreamTranslator over the vendor events of a chunk, which is kept to    *)
(* the contract events they complete: nothing after the terminal one.      *)
(***************************************************************************)
VendorChunk == UNION {[1..m -> Kind] : m \in 0..MaxItems}

(* Lengths to which a chunk may be read before a terminal event was met. *)
Live(chunk) == {k \in 0..Len(chunk) : \A j \in 1..(k - 1) : chunk[j] \notin Terminal}

Translated(chunk) ==
  SubSeq(chunk, 1, CHOOSE k \in Live(chunk) : \A j \in Live(chunk) : j <= k)

RelayReads ==
  /\ relay = "read"
  /\ chunks < MaxChunks
  /\ chunks' = chunks + 1
  /\ \E chunk \in VendorChunk :
       /\ sent' = sent \o Translated(chunk)
       /\ queue' = Len(Translated(chunk))
  /\ relay' = "emit"
  /\ UNCHANGED <<producer, channel, readerVars, cancelled>>

(* The vendor closed the body. *)
UpstreamEnds ==
  /\ relay = "read"
  /\ RelayOver("closed")
  /\ UNCHANGED <<channel, readerVars, cancelled>>

(* The body failed, was silent for the idle limit (guarded_body), or was   *)
(* no event stream.                                                        *)
UpstreamFails ==
  /\ relay = "read"
  /\ RelayOver("failed")
  /\ UNCHANGED <<channel, readerVars, cancelled>>

ReadReleased ==
  /\ relay = "read"
  /\ cancelled
  /\ RelayOver("closed")
  /\ UNCHANGED <<channel, readerVars, cancelled>>

(* A refusal's body was read as far as it went: however that ended, it     *)
(* becomes the error event.                                                *)
Excerpt ==
  /\ relay = "excerpt"
  /\ sent' = <<"error">>
  /\ queue' = 1
  /\ relay' = "emit"
  /\ UNCHANGED <<chunks, producer, channel, readerVars, cancelled>>

ChunkDone ==
  /\ relay = "emit"
  /\ queue = 0
  /\ relay' = "poll"
  /\ UNCHANGED <<chunks, sent, queue, producer, channel, readerVars, cancelled>>

(* The event to write next. *)
Due == Len(sent) - queue + 1

IsFull == Cardinality(Newlines(channel)) = Capacity

(* What the kernel may answer a write now; it is parked while there is nothing. *)
classify_write ==
  {delivery \in {"Delivered", "ReaderGone", "Cancelled"} :
     \/ delivery = "Delivered" /\ consumer = "open" /\ ~IsFull
     \/ delivery = "ReaderGone" /\ consumer = "closed"
     \/ delivery = "Cancelled" /\ IsFull /\ cancelled}

(* A line is one write: committed whole, or an answer that ends it. *)
write_all(answers) ==
  /\ relay = "emit" /\ queue > 0
  /\ \E delivery \in answers : delivery \in classify_write

(* The line is committed; after the terminal event the relay stops. *)
Emit ==
  /\ write_all({"Delivered"})
  /\ \E size \in 1..MaxLine : channel' = channel \o Line(Due, size)
  /\ queue' = queue - 1
  /\ IF sent[Due] \in Terminal
     THEN relay' = "over" /\ producer' = "closed"
     ELSE UNCHANGED <<relay, producer>>
  /\ UNCHANGED <<chunks, sent, readerVars, cancelled>>

(* The reader is gone, or the token released a write parked on a full      *)
(* channel.                                                                *)
EmitReleased ==
  /\ write_all({"ReaderGone", "Cancelled"})
  /\ RelayOver("closed")
  /\ UNCHANGED <<channel, readerVars, cancelled>>

(* The kernel stops the step at its ceiling. *)
RelayStopped ==
  /\ relay # "over"
  /\ RelayOver("failed")
  /\ UNCHANGED <<channel, readerVars, cancelled>>

-----------------------------------------------------------------------------
(* The reader, and the loop that drains it. *)

(* Mutant: the reader goes without closing its handle. *)
Leave_HandleOpen(how) ==
  /\ outcome' = how
  /\ reader' = "gone"
  /\ UNCHANGED consumer

(* The loop is done with the stream: dropping the reader closes the handle. *)
Leave(how) ==
  /\ outcome' = how
  /\ reader' = "gone"
  /\ consumer' = "closed"

HasLine == Newlines(buf) # {}

(* Mutant: the buffer is emptied with the line that is returned. *)
NextEvent_DropsRest ==
  /\ reader = "scan" /\ HasLine
  /\ got' = Append(got, buf[1].n)
  /\ buf' = <<>>
  /\ IF sent[buf[1].n] \in Terminal
     THEN Leave(sent[buf[1].n])
     ELSE UNCHANGED <<reader, outcome, consumer>>
  /\ UNCHANGED <<relayVars, channel, cancelled>>

(* A whole line is in the buffer: it is returned whatever the token says. *)
NextEvent ==
  /\ reader = "scan" /\ HasLine
  /\ \E k \in Newlines(buf) :
       /\ \A j \in Newlines(buf) : k <= j
       /\ buf' = SubSeq(buf, k + 1, Len(buf))
       /\ got' = Append(got, buf[k].n)
       /\ IF sent[buf[k].n] \in Terminal
          THEN Leave(sent[buf[k].n])
          ELSE UNCHANGED <<reader, outcome, consumer>>
  /\ UNCHANGED <<relayVars, channel, cancelled>>

TooLong ==
  /\ reader = "scan" /\ ~HasLine
  /\ Len(buf) > Cap
  /\ Leave("too_long")
  /\ UNCHANGED <<relayVars, channel, buf, got, cancelled>>

StartRead ==
  /\ reader = "scan" /\ ~HasLine
  /\ Len(buf) <= Cap
  /\ IF cancelled
     THEN Leave("cancelled")
     ELSE reader' = "wait" /\ UNCHANGED <<outcome, consumer>>
  /\ UNCHANGED <<relayVars, channel, buf, got, cancelled>>

ReadBytes ==
  /\ reader = "wait" /\ channel # <<>>
  /\ \E n \in 1..MaxRead :
       /\ n <= Len(channel)
       /\ buf' = buf \o SubSeq(channel, 1, n)
       /\ channel' = SubSeq(channel, n + 1, Len(channel))
  /\ reader' = "scan"
  /\ UNCHANGED <<relayVars, got, outcome, consumer, cancelled>>

(* Mutant: the code of the read is not checked against the token. *)
ReadOver_TokenUnread ==
  /\ reader = "wait" /\ channel = <<>>
  /\ producer # "open"
  /\ Leave(IF producer = "closed" THEN "ended" ELSE "source_failed")
  /\ UNCHANGED <<relayVars, channel, buf, got, cancelled>>

(* The end, or the failure, of the source: the cut once the token fired. *)
ReadOver ==
  /\ reader = "wait" /\ channel = <<>>
  /\ producer # "open"
  /\ Leave(IF cancelled THEN "cancelled"
           ELSE IF producer = "closed" THEN "ended" ELSE "source_failed")
  /\ UNCHANGED <<relayVars, channel, buf, got, cancelled>>

(* The token releases a read that waits. *)
WaitReleased ==
  /\ reader = "wait" /\ channel = <<>>
  /\ producer = "open"
  /\ cancelled
  /\ Leave("cancelled")
  /\ UNCHANGED <<relayVars, channel, buf, got, cancelled>>

-----------------------------------------------------------------------------
RelayNext ==
  \/ RelayPoll \/ RelayReads \/ UpstreamEnds \/ UpstreamFails \/ ReadReleased
  \/ Excerpt \/ ChunkDone \/ Emit \/ EmitReleased \/ RelayStopped

ReaderNext ==
  \/ NextEvent \/ TooLong \/ StartRead \/ ReadBytes \/ ReadOver \/ WaitReleased

(* Both sides are done; any other state without a successor is a deadlock. *)
AllOver ==
  /\ relay = "over" /\ reader = "gone"
  /\ UNCHANGED vars

Next == Cancel \/ RelayNext \/ ReaderNext \/ AllOver

Spec == Init /\ [][Next]_vars

-----------------------------------------------------------------------------
(* Safety. *)

(***************************************************************************)
(* The loop is handed the vendor's events each once and in order, whatever *)
(* the reads cut; the terminal event is handed out only after all others,  *)
(* and nothing comes after it (relay_sse, EventReader::next).  An early    *)
(* end tells the truth: the loop saw every event there was, and the vendor *)
(* never sent a terminal one.  What waits for the loop stays within the    *)
(* channel's capacity and the reader's cap and one read.                   *)
(***************************************************************************)
DeliveredInOrder ==
  /\ TypeOK
  /\ \A k \in 1..Len(got) : got[k] = k
  /\ \A k \in 1..(Len(sent) - 1) : sent[k] \notin Terminal
  /\ outcome \in Terminal => Len(got) = Len(sent) /\ sent[Len(sent)] = outcome
  /\ outcome = "ended" =>
       Len(got) = Len(sent) /\ \A k \in 1..Len(sent) : sent[k] \notin Terminal

(***************************************************************************)
(* The token decides: from when it fires the stream cannot end as ended or *)
(* failed, only as cut or with what was already whole in the buffer.       *)
(***************************************************************************)
TokenDecides ==
  [][cancelled /\ outcome' # outcome => outcome' \notin {"ended", "source_failed"}]_vars

(***************************************************************************)
(* What the loop is handed is an event stream, however lines are cut and   *)
(* whoever is held up: nothing is handed over after the stream has ended,  *)
(* it ends once, and from when the token fires it cannot end as ended or   *)
(* failed, only as cut or with what was already whole in the buffer.       *)
(***************************************************************************)
Handed == [k \in 1..Len(got) |-> sent[got[k]]]

S == INSTANCE EventStream WITH made <- sent, handed <- Handed

IsEventStream == S!Spec

-----------------------------------------------------------------------------
(***************************************************************************)
(* Both tasks run.  A parked read or write gives way to the token, and to  *)
(* the other side leaving; and the excerpt of a refusal's body ends with   *)
(* the body, which has an idle limit like every body.                      *)
(***************************************************************************)
TaskFairness ==
  /\ WF_vars(RelayPoll)
  /\ WF_vars(ChunkDone)
  /\ WF_vars(Emit \/ EmitReleased)
  /\ WF_vars(ReadReleased)
  /\ WF_vars(cancelled /\ Excerpt)
  /\ WF_vars(ReaderNext)

(* The idle limit of guarded_body: a read of the body ends. *)
IdleFairness ==
  /\ WF_vars(UpstreamFails)
  /\ WF_vars(Excerpt)

FairSpec == Spec /\ TaskFairness

(***************************************************************************)
(* A cancelled turn stops both sides though the vendor stays silent; and   *)
(* without the token both stop once the vendor has: nobody waits for a     *)
(* reader that left or for a relay that is over (EventReader's drop).      *)
(***************************************************************************)
BothStop ==
  LET stopped == relay = "over" /\ reader = "gone"
  IN /\ cancelled ~> stopped
     /\ IdleFairness => <>stopped
=============================================================================
