------------------------------ MODULE MCSteps ------------------------------
(* Host steps that bring something in, one machine at a time: a request (HttpRequest), a file
   read or a directory listed (FsRead); and a tool made of a read and a write (EditTool). *)
EXTENDS HttpRequest, FsRead, EditTool

VARIABLE subject  \* which machine runs

(* A machine that is not the subject stays where it is: the request has been answered, the
   read has not begun, the edit is refused.                                              *)
RequestParked ==
  /\ stream = FALSE /\ pc = "done" /\ answer = "failed"
  /\ hop = CHOOSE r \in Request : r.method = "GET" /\ ~r.body
  /\ hops = 0 /\ deadline = [set |-> FALSE, left |-> Timeout] /\ idle = Idle /\ bytes = 0
  /\ empties = FALSE /\ cancelled = FALSE /\ approved = <<>> /\ sent = <<>> /\ spent = 0

ReadParked ==
  /\ rop = "read" /\ link = Gone /\ named = [e \in Entry |-> Gone]
  /\ ReadInit

EditParked ==
  /\ file = Absent /\ at = "read"
  /\ call = [old |-> <<>>, new |-> <<>>, replace_all |-> FALSE]
  /\ EditInit

StepsInit ==
  \/ subject = "request" /\ Init /\ ReadParked /\ EditParked
  \/ subject = "read" /\ RequestParked /\ ReadInit /\ EditParked
  \/ subject = "edit" /\ RequestParked /\ ReadParked /\ EditInit

Requesting == subject = "request" /\ UNCHANGED <<subject, readVars, editVars>>
Reading == subject = "read" /\ UNCHANGED <<subject, vars, editVars>>
Editing == subject = "edit" /\ UNCHANGED <<subject, vars, readVars>>

StepsNext ==
  \/ Requesting /\ CheckEgress
  \/ Requesting /\ Allow
  \/ Requesting /\ Deny
  \/ Requesting /\ Withdraw
  \/ Requesting /\ Send
  \/ Requesting /\ Over
  \/ Requesting /\ Cut
  \/ Requesting /\ NetworkFails
  \/ Requesting /\ Responds
  \/ Requesting /\ RedirectRefused
  \/ Requesting /\ Redirected
  \/ Requesting /\ EmptyArrives
  \/ Requesting /\ BodyChunk
  \/ Requesting /\ EmptyBodyChunk
  \/ Requesting /\ BodyEnds
  \/ Requesting /\ Seek
  \/ Requesting /\ Closes
  \/ Requesting /\ Chunk
  \/ Requesting /\ EmptyChunk
  \/ Requesting /\ StreamEnds
  \/ Requesting /\ IdleOver
  \/ Requesting /\ ReadReleased
  \/ Requesting /\ Cancel
  \/ Requesting /\ Tick
  \/ Reading /\ Start
  \/ Reading /\ Open
  \/ Reading /\ Canonicalize
  \/ Reading /\ Verify
  \/ Reading /\ Probe
  \/ Reading /\ CutRead
  \/ Reading /\ WithdrawRead
  \/ Reading /\ DenyRead
  \/ Reading /\ AllowRead
  \/ Reading /\ ListEntries
  \/ Reading /\ ReadPlain
  \/ Reading /\ ReadChunk
  \/ Reading /\ EndOfFile
  \/ Reading /\ Fire
  \/ Reading /\ Move
  \/ Editing /\ Read
  \/ Editing /\ Decide
  \/ Editing /\ Look
  \/ Editing /\ Rename
  \/ Editing /\ Change

StepsSpec == StepsInit /\ [][StepsNext]_<<subject, vars, readVars, editVars>> /\ Fairness
=============================================================================
