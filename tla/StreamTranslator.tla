-------------------------- MODULE StreamTranslator --------------------------
(***************************************************************************)
(* One vendor message told twice (provider-anthropic/src/wire.rs): as      *)
(* events folded by StreamTranslator, and as the document translate_message*)
(* reads.  The vendor composes the message as it streams it, its blocks    *)
(* interleaved as it likes, and may fail or forget to stop a block.        *)
(*                                                                         *)
(* A block is known by its index.  What it says is a number of pieces; two *)
(* pieces of tool input, or none, are a JSON object, and one alone is not. *)
(* A delta of a text may have nothing in it: the piece Blank.              *)
(***************************************************************************)
EXTENDS Naturals, Sequences, FiniteSets, SequencesExt

CONSTANT MaxBlocks    \* bound: blocks in a message

ASSUME TranslatorAssumption == MaxBlocks \in Nat

VARIABLES
  blocks,        \* StreamTranslator: the blocks in flight, by index
  usage,         \* the counters so far
  stop_reason,
  broken_call,   \* the first call whose input never parsed
  finished,
  emitted,       \* history: the contract events, in order
  document,      \* history: the message as one document would hold it
  told,          \* how many deltas of each block were sent
  stopped,       \* the blocks that were stopped
  part,          \* what the vendor sends now: start, content, delta, stop, over
  faulted,       \* history: it sent an error, or what is no JSON
  overlapped     \* history: it started a block while another was open

translator == <<blocks, usage, stop_reason, broken_call, finished, emitted>>
vendor == <<document, told, stopped, part, faulted, overlapped>>
vars == <<translator, vendor>>

Counter == {"input_tokens", "output_tokens"}
(* "end_turn" stands for the reasons passed on as they are, "pause_turn" for those refused. *)
StopReason == {"end_turn", "max_tokens", "pause_turn", "none"}
(* Bound: what is reported at the start, and later. *)
Early == {{}, {"input_tokens"}, Counter}
Late == {{}, {"output_tokens"}, Counter}

VendorBlock ==
       [type: {"text"}, pieces: 0..2, blank: BOOLEAN]
  \cup [type: {"tool_use"}, named: BOOLEAN, pieces: 0..2]
  \cup [type: {"thinking"}, pieces: 0..1, signature: BOOLEAN]
  \cup [type: {"unknown"}, pieces: 0..1]

Pieces(n) == [k \in 1..n |-> k]
Blank == 0
IsObject(raw) == raw \in {<<>>, Pieces(2)}

(* The deltas of a block, in order. *)
Deltas(block) ==
  LET of == CASE block.type = "text"     -> "text_delta"
              [] block.type = "tool_use" -> "input_json_delta"
              [] block.type = "thinking" -> "thinking_delta"
              [] block.type = "unknown"  -> "unknown_delta"
      pieces == [k \in 1..block.pieces |-> [type |-> of, piece |-> k]]
  IN CASE block.type = "thinking" /\ block.signature -> Append(pieces, [type |-> "signature_delta"])
       [] block.type = "text" /\ block.blank -> <<[type |-> of, piece |-> Blank]>> \o pieces
       [] OTHER -> pieces

Init ==
  /\ blocks = <<>> /\ usage = <<>>
  /\ stop_reason = "none" /\ broken_call = 0
  /\ finished = FALSE /\ emitted = <<>>
  /\ document = [content |-> <<>>, stop_reason |-> "none", usage |-> <<>>]
  /\ told = <<>> /\ stopped = {}
  /\ part = "start" /\ faulted = FALSE /\ overlapped = FALSE

-----------------------------------------------------------------------------
(* StreamTranslator::accept, one operator per kind of vendor event.  After *)
(* the terminal event it returns nothing.                                  *)

Accept(event) == IF finished THEN UNCHANGED translator ELSE event

Emit(events) == emitted' = emitted \o events /\ UNCHANGED finished
Nothing == Emit(<<>>)
Terminal(event) == emitted' = Append(emitted, event) /\ finished' = TRUE

Failure(kind) == [type |-> "error", index |-> 0, kind |-> kind]

Finish(kind) ==
  /\ Terminal(Failure(kind))
  /\ UNCHANGED <<blocks, usage, stop_reason, broken_call>>

(* Later counters win. *)
Extended(old, counters, value) ==
  [c \in DOMAIN old \cup counters |-> IF c \in counters THEN value ELSE old[c]]

message_start(counters) ==
  usage' = Extended(usage, counters, "early") /\ Nothing /\ UNCHANGED <<blocks, stop_reason, broken_call>>

message_delta(reason, counters) ==
  /\ stop_reason' = IF reason = "none" THEN stop_reason ELSE reason
  /\ usage' = Extended(usage, counters, "late") /\ Nothing
  /\ UNCHANGED <<blocks, broken_call>>

Block(block) ==
  CASE block.type = "text"     -> [is |-> "Text"]
    [] block.type = "tool_use" -> [is |-> "ToolUse", partial_json |-> <<>>]
    [] block.type = "thinking" -> [is |-> "Opaque", thinking |-> <<>>, signature |-> FALSE]
    [] block.type = "unknown"  -> [is |-> "Ignored"]

Without(index) == [i \in DOMAIN blocks \ {index} |-> blocks[i]]

block_start(index, block) ==
  IF block.type = "tool_use" /\ ~block.named
  THEN Finish("malformed_tool_use")
  ELSE /\ blocks' = Without(index) @@ (index :> Block(block)) /\ Nothing
       /\ UNCHANGED <<usage, stop_reason, broken_call>>

Text(index, text) == [type |-> "text", index |-> index, text |-> text]
ToolUse(index, input) == [type |-> "tool_use", index |-> index, input |-> input]
Opaque(index, thinking, signature) ==
  [type |-> "opaque", index |-> index, thinking |-> thinking, signature |-> signature]

(* A delta no block in flight is for is dropped. *)
block_delta(index, delta) ==
  LET is == IF index \in DOMAIN blocks THEN blocks[index].is ELSE "none"
  IN /\ blocks' = CASE is = "ToolUse" /\ delta.type = "input_json_delta" ->
                         [blocks EXCEPT ![index].partial_json = Append(@, delta.piece)]
                    [] is = "Opaque" /\ delta.type = "thinking_delta" ->
                         [blocks EXCEPT ![index].thinking = Append(@, delta.piece)]
                    [] is = "Opaque" /\ delta.type = "signature_delta" ->
                         [blocks EXCEPT ![index].signature = TRUE]
                    [] OTHER -> blocks
     /\ IF is = "Text" /\ delta.type = "text_delta" /\ delta.piece # Blank
        THEN Emit(<<Text(index, <<delta.piece>>)>>) ELSE Nothing
     /\ UNCHANGED <<usage, stop_reason, broken_call>>

(* A call goes out whole or not at all; the first that never parsed is     *)
(* remembered.                                                             *)
block_stop(index) ==
  LET block == IF index \in DOMAIN blocks THEN blocks[index] ELSE [is |-> "none"]
      broken == block.is = "ToolUse" /\ ~IsObject(block.partial_json)
  IN /\ CASE block.is = "ToolUse" /\ ~broken -> Emit(<<ToolUse(index, block.partial_json)>>)
          [] block.is = "Opaque" -> Emit(<<Opaque(index, block.thinking, block.signature)>>)
          [] OTHER -> Nothing
     /\ broken_call' = IF broken /\ broken_call = 0 THEN index ELSE broken_call
     /\ blocks' = Without(index)
     /\ UNCHANGED <<usage, stop_reason>>

(* map_stop_reason, contract_usage: how a message ends, fail-closed. *)
Ending(reason, counters) ==
  CASE reason = "none"       -> Failure("missing_stop_reason")
    [] reason = "pause_turn" -> Failure("pause_turn")
    [] OTHER ->
         IF Counter \subseteq DOMAIN counters
         THEN [type |-> "end", index |-> 0, stop_reason |-> reason, usage |-> counters]
         ELSE Failure("missing_usage")

(* Mutant: a broken call is dropped whatever ended the message. *)
message_stop_Dropping ==
  /\ Terminal(Ending(stop_reason, usage))
  /\ UNCHANGED <<blocks, usage, stop_reason, broken_call>>

(* A broken call is dropped only if the tokens ran out. *)
message_stop ==
  /\ Terminal(IF broken_call # 0 /\ stop_reason # "max_tokens"
              THEN Failure("malformed_tool_input")
              ELSE Ending(stop_reason, usage))
  /\ broken_call' = 0
  /\ UNCHANGED <<blocks, usage, stop_reason>>

-----------------------------------------------------------------------------
(* The vendor (external).  It says each block in order, and may leave one  *)
(* open when it ends the message.                                          *)

Open == 1..Len(document.content) \ stopped

MessageStart ==
  /\ part = "start" /\ part' = "content"
  /\ \E counters \in Early :
       /\ document' = [document EXCEPT !.usage = Extended(document.usage, counters, "early")]
       /\ Accept(message_start(counters))
  /\ UNCHANGED <<told, stopped, faulted, overlapped>>

BlockStart ==
  /\ part = "content" /\ Len(document.content) < MaxBlocks
  /\ \E block \in VendorBlock :
       /\ document' = [document EXCEPT !.content = Append(@, block)]
       /\ Accept(block_start(Len(document.content) + 1, block))
  /\ told' = Append(told, 0)
  /\ overlapped' = (overlapped \/ Open # {})
  /\ UNCHANGED <<stopped, part, faulted>>

BlockDelta ==
  /\ part = "content"
  /\ \E i \in Open :
       /\ told[i] < Len(Deltas(document.content[i]))
       /\ told' = [told EXCEPT ![i] = @ + 1]
       /\ Accept(block_delta(i, Deltas(document.content[i])[told[i] + 1]))
  /\ UNCHANGED <<document, stopped, part, faulted, overlapped>>

BlockStop ==
  /\ part = "content"
  /\ \E i \in Open :
       /\ told[i] = Len(Deltas(document.content[i]))
       /\ stopped' = stopped \cup {i}
       /\ Accept(block_stop(i))
  /\ UNCHANGED <<document, told, part, faulted, overlapped>>

MessageDelta ==
  /\ part = "content" /\ part' = "delta"
  /\ \E reason \in StopReason, counters \in Late :
       /\ document' = [document EXCEPT !.stop_reason = reason, !.usage = Extended(document.usage, counters, "late")]
       /\ Accept(message_delta(reason, counters))
  /\ UNCHANGED <<told, stopped, faulted, overlapped>>

MessageStop ==
  /\ part = "delta" /\ part' = "over"
  /\ Accept(message_stop)
  /\ UNCHANGED <<document, told, stopped, faulted, overlapped>>

(* An error event, or a payload that is no JSON. *)
Fault ==
  /\ part # "over" /\ ~faulted
  /\ \E kind \in {"vendor_error", "malformed_stream"} : Accept(Finish(kind))
  /\ faulted' = TRUE
  /\ UNCHANGED <<document, told, stopped, part, overlapped>>

Next ==
  \/ MessageStart \/ BlockStart \/ BlockDelta \/ BlockStop
  \/ MessageDelta \/ MessageStop \/ Fault

Spec == Init /\ [][Next]_vars

-----------------------------------------------------------------------------
(* translate_message: what the document of the same message amounts to,    *)
(* its contract blocks and its end.                                        *)

Malformed(i) ==
  LET block == document.content[i]
  IN block.type = "tool_use" /\ (block.named => ~IsObject(Pieces(block.pieces)))

contract_block(i) ==
  LET block == document.content[i]
      pieces == Pieces(block.pieces)
  IN CASE block.type = "text"     -> <<Text(i, pieces)>>
       [] block.type = "tool_use" -> <<ToolUse(i, pieces)>>
       [] block.type = "thinking" -> <<Opaque(i, pieces, block.signature)>>
       [] block.type = "unknown"  -> <<>>

(* Of the blocks in I. *)
Fetched(I) ==
  LET bad == {i \in I : Malformed(i)}
      kind == IF document.content[Min(bad)].named THEN "malformed_tool_input"
                                                  ELSE "malformed_tool_use"
      of(i) == IF i \in I THEN contract_block(i) ELSE <<>>
  IN IF bad # {} THEN <<Failure(kind)>>
     ELSE Append(FlattenSeq([i \in 1..Len(document.content) |-> of(i)]),
                 Ending(document.stop_reason, document.usage))

-----------------------------------------------------------------------------
(* A contract block as a stream says it: a text piece by piece, which one *)
(* without text has none of.                                              *)
AsEvents(block) ==
  IF block.type = "text" THEN [k \in DOMAIN block.text |-> Text(block.index, <<block.text[k]>>)]
  ELSE <<block>>

Told(message) == FlattenSeq([k \in DOMAIN message |-> AsEvents(message[k])])

About(index, events) == SelectSeq(events, LAMBDA e : e.index = index)

(***************************************************************************)
(* Whatever the vendor does and whenever it fails, what went out was said: *)
(* of each block a part, in order, of what the document would hold, a call *)
(* and a thinking block whole or not at all, no call that is malformed,    *)
(* and nothing behind the terminal event (StreamTranslator, Emitted).      *)
(***************************************************************************)
NothingPartial ==
  /\ \A i \in 1..Len(document.content) :
       IsPrefix(About(i, emitted), IF Malformed(i) THEN <<>> ELSE Told(contract_block(i)))
  /\ Len(About(0, emitted)) = (IF finished THEN 1 ELSE 0)
  /\ finished => Last(emitted).index = 0

(***************************************************************************)
(* A message streamed is the message fetched.  Nothing partial goes out of *)
(* any; a vendor that fails nowhere and stops its blocks is understood as  *)
(* translate_message understands the document, its failures included.      *)
(* Four things differ and only they: a call that never parsed is dropped   *)
(* if the tokens ran out; of several malformed calls another may be the    *)
(* one reported; a text block without text, which is a block of the        *)
(* message fetched, is not told at all; and blocks that overlap are told   *)
(* each in its own order, not one behind the other.                        *)
(***************************************************************************)
AgreesWithBuffered ==
  /\ NothingPartial
  /\ part = "over" /\ ~faulted /\ Open = {} =>
    LET all == 1..Len(document.content)
        unparsed == {i \in all : Malformed(i) /\ document.content[i].named}
        unnamed == {i \in all : Malformed(i)} \ unparsed
        dropped == IF document.stop_reason = "max_tokens" THEN unparsed ELSE {}
        whole == Told(Fetched(all \ dropped))
    IN /\ Last(emitted).type = Last(whole).type
       /\ unparsed = {} \/ unnamed = {} => Last(emitted) = Last(whole)
       /\ Last(whole).type = "end" =>
            /\ \A i \in all : About(i, emitted) = About(i, whole)
            /\ overlapped \/ emitted = whole
=============================================================================
