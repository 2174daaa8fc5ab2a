----------------------------- MODULE MCProvider -----------------------------
(* The provider plugin, one machine at a time: what it makes of a vendor's stream, its
   messages (StreamTranslator) and the bytes they come in (GuestStream), and a conversation
   as the vendor sees it (ProviderTurn).                                                 *)
EXTENDS StreamTranslator, ProviderTurn, GuestStream

VARIABLE subject   \* which machine runs

(* A machine that is not the subject stays where it is. *)
ParkedGuest == use = "excerpt" /\ body = <<>> /\ taken = 0 /\ parser = NewParser
                 /\ events = <<>> /\ ended = "going"

ParkedVendor ==
  /\ given = NoSettings /\ config = NoConfig /\ messages = <<>>
  /\ step = "idle" /\ turn = 0 /\ round = 0 /\ attempt = 0
  /\ backoff = 0 /\ waited = 0 /\ result = [is |-> "none"]
  /\ asked = <<>> /\ said = <<>> /\ failed = "none"

ProviderInit ==
  /\ Init
  /\ \/ subject = "translator" /\ ParkedGuest /\ ParkedVendor
     \/ subject = "guest" /\ GuestInit /\ ParkedVendor
     \/ subject = "vendor" /\ ParkedGuest /\ TurnInit

Translating == subject = "translator" /\ UNCHANGED <<subject, guestVars, providerVars>>
Reading == subject = "guest" /\ UNCHANGED <<subject, vars, providerVars>>
Conversing == subject = "vendor" /\ UNCHANGED <<subject, vars, guestVars>>

ProviderNext ==
  \/ Translating /\ MessageStart
  \/ Translating /\ BlockStart
  \/ Translating /\ BlockDelta
  \/ Translating /\ BlockStop
  \/ Translating /\ MessageDelta
  \/ Translating /\ MessageStop
  \/ Translating /\ Fault
  \/ Reading /\ Feed
  \/ Reading /\ Collect
  \/ Reading /\ Collected
  \/ Conversing /\ Turn
  \/ Conversing /\ Chat
  \/ Conversing /\ Answer
  \/ Conversing /\ FetchFails
  \/ Conversing /\ RetryRound
  \/ Conversing /\ GiveUp
  \/ Conversing /\ Wait
  \/ Conversing /\ NoCalls
  \/ Conversing /\ AnswerCalls

ProviderSpec == ProviderInit /\ [][ProviderNext]_<<subject, vars, guestVars, providerVars>>
=============================================================================
