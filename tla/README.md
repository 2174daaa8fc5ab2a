# Gwennol in TLA+

Gwennol is a coding agent: an agent loop in Rust (`gwennol-core`) that drives a
model provider and tools, both of them plugins of the *gwead* kernel, on behalf
of a frontend (`gwennol-cli`: print mode or a terminal session).  What a plugin
may do outside its sandbox goes through *host steps*, and every host step asks
the *operator* (the frontend) first.

This directory models the parts of it whose correctness depends on order (a token fired,
a stream broken, a prompt answered as it is withdrawn, a file moved between two system calls)
and the parts whose correctness depends on an edge (caps, cuts, overlapping matches, paths
spelled in several ways).  Paths below are relative to `crates/` of the repository.

## 1. Inventory

| Component | State | Operations | Hard behaviour | What makes it correct |
|---|---|---|---|---|
| Agent loop, `gwennol-core/src/agent/mod.rs` | where the turn is, round, attempt, the round's message, results | `turn`, `round_with_retry`, `round`, `consume_stream`, `answer` | cut at any await; retries; partial rounds | the transcript can always be replayed; the cut is told truthfully; nothing starts after it; every turn ends |
| Transcript, `agent/transcript.rs` | messages | `push_user_text`, `push_assistant`, `push_tool_results` | turns that fail leave a user message last | roles alternate, every call answered in the next message |
| Event contract, `operator.rs` | the events a frontend hears | `Operator::emit` | retried text; calls never dispatched | one answer event per call, in order |
| Event reader, `agent/stream.rs` | a buffer over a kernel stream | `EventReader::next`, drop | lines cut anywhere; end, failure and token racing | events once and in order; the end means what it says |
| Provider relay, `provider-anthropic/src/lib.rs` | SSE parser, translator, a bounded output | `relay_sse`, `emit`, `chat` | parked on a silent vendor or a full channel | stops with the token, the reader, and the terminal event |
| Stream translator and requests, `provider-anthropic/src/wire.rs` | open blocks, usage | `accept`, `translate_message`, `build_request`, `http_failure` | interleaved, malformed and cut blocks; the vendor's own blocks; failures by kind and status | streamed and fetched agree; the vendor sees its own blocks again; a retry is the same request, where it may help |
| SSE parser, `gwennol-guest/src/sse.rs` | a partial line and event | `feed` | input cut anywhere; caps | the events of the whole input |
| Guest substrate, `gwennol-guest` | none | calls into the host, stream reads, `read_excerpt` | chunks of any size | an excerpt says that it is one |
| Edit tool, `tool-edit` | none | replace text between two host steps | overlapping matches, a file that changes | all but the match stays as it was |
| Host approval, `host.rs` | none | `approve` | the answer races the token | no step runs after the token |
| `host_fs`, `steps/fs.rs`, `steps/dir.rs` | a held handle, a temporary file | `fs_read`, `fs_write`, `fs_list` | others change the tree meanwhile; cancel between phases; ranges and caps met at once | bytes land, and are read, where it was approved; no torn file; a cut answer says so |
| `host_http`, `steps/http.rs` | hops, deadline | `request`, `guarded_body` | redirects, deadlines, idle bodies | each hop is approved; one budget |
| `host_process`, `steps/process.rs` | child, pipes | `process_run` | pipes full both ways; timeout; token | ends; output capped; no orphans |
| Kernel glue, `kernel.rs`, `spi.rs`, `context.rs`, `secrets.rs` | configuration | start-up | which plugin, which secret | one provider; the first source of a secret |
| Configuration, `gwennol-cli/src/lib.rs`, `config.rs`, `secrets.rs`, `plugins.rs`, `frontend.rs` | what flags, files and environment say | a start, step by step | three sources of rules in an order; faults | governed in the order given; nothing starts half-configured |
| Print frontend, `gwennol-cli/src/operator.rs`, `print.rs` | text held back, the interrupts | `emit`, `approve`, `run` | text of attempts that fail; Ctrl-C at any moment | stdout is the transcript's text; the status tells the run |
| Policy, `policy.rs` | rules, session rules | `compile`, `judge_with`, `remember` | one file spelled many ways; answers for a session | a rule means its path; an answer stays narrow |
| Terminal session, `tui/drive.rs`, `tui/prompt.rs`, `tui/operator.rs` | prompt queue, its gate, session rules, the turn | `drive`, `handle_key`, `Interactive::approve`, `PromptGuard` | keys race prompts that come and go | nothing is allowed by a key struck for something else; the session ends when told |
| Line editor, `tui/editor.rs`, `tui/keys.rs` | text, cursor, history, draft | keys, paste, Enter | history walked from a half-typed line; a prompt in between | what is typed stays |
| Terminal pane, `tui/ui.rs`, `tui/pane.rs` | entries, the open entry, cached rows, scroll, focus | `apply`, `push`, `render`, keys | text taken back at a retry; keys by a frame that is old | the pane shows what the transcript holds; the frame shows the entries |
| Prompt's box, `tui/prompt.rs` | scroll, last geometry | `height`, `render_prompt`, scroll keys | asked for by one function, filled by another | all that is asked can be read |
| Terminal screen, `tui/screen.rs` | what was entered | `enter`, `Drop`, panic hook | enters half-way, panics, other threads | the terminal is restored, once |
| Wording, decoding of terminal events, xtask | - | - | - | not modelled |

How they interact: a frontend calls `Session::turn` with a token; the loop invokes the provider plugin
through the kernel, whose relay step writes events to a bounded kernel channel
that `EventReader` reads; the loop invokes tool plugins, whose host steps call
`host::approve`, which polls the operator against the invocation's token; the operator asks the policy and then the
person, and may keep the answer as a session rule; the loop
emits events to the frontend.  The token is the one thing they all share.

## 2. Modules

| Module | Models | EXTENDS / INSTANCE |
|---|---|---|
| `Conversation` | what the loop promises of the transcript, and nothing of how | - |
| `AgentLoop` | `Session::turn` and what it awaits | INSTANCE `Conversation` |
| `OperatorEvents` | the event contract over `AgentLoop`'s log | `AgentLoop` |
| `HeadlessOutput` | the print frontend composed with the loop | `OperatorEvents` |
| `InteractivePane` | the terminal pane composed with the loop | `OperatorEvents` |
| `EventStream` | what the loop may take a streamed answer to be, and nothing of how it comes | - |
| `StreamRelay` | relay, channel and reader | INSTANCE `EventStream` |
| `StreamTranslator` | a vendor's message as events and as a document | - |
| `GuestStream` | the SSE parser and the excerpt, over bytes cut anywhere | - |
| `ProviderTurn` | a conversation as the vendor sees it: requests, failures, backoff | - |
| `InteractiveSession` | drive, keyboard, prompts and approvals | - |
| `LineEditor` | the line, its history, and where a key goes | - |
| `Wrap` | how text is wrapped into rows | - |
| `PaneView`, `PromptBox` | frames, the rows kept for them, the keys that move in them | `Wrap` |
| `Frames` | what is on the screen, of the two | `PaneView`, `PromptBox` |
| `TerminalScreen` | the terminal's modes, entered and undone | - |
| `Policy` | rules, judgement, session rules | - |
| `Startup` | a run of the command, flags to exit status | - |
| `FsWrite` | `host_fs.write` among others who change the tree | - |
| `FsRead` | `host_fs.read` and `host_fs.list`, the same | - |
| `EditTool` | a read, a decision and a write | - |
| `HttpRequest` | `host_http.get` and `host_http.post`, hops and bodies | - |
| `ProcessRun` | `host_process.run` and the child | - |
| `ConversationProofs`, `AgentLoopProofs`, `ProviderProofs`, `TerminalProofs`, `HostStepsProofs`, `FsWriteProofs`, `ProcessRunProofs` | proofs, of the component or of several | the modules and TLAPS |
| `SequenceFacts` | what the proofs need to know of numbers and sequences | TLAPS |
| `MC*` | what TLC needs: parameters, symmetry, several machines in one run | the modules |

**Steps.** A step is the code between two awaits (or between two acquisitions of
the `Ui` lock, in the terminal session; or one system call, in `host_fs`).  The token is read at most once in a
step, so a token that fires later in the step is one that fires after it.

**Conversation / AgentLoop.**  `pc` is where `Session::turn` is: `round` (about
to invoke the provider), `chat` (awaiting it), `stream` (reading its events),
`backoff`, `answer` (in the loop over `round.calls`), `tool` (awaiting a tool).
Each action is the code from one await to the next: `BeginRound`, `ChatMessage`,
`StreamText`, `StreamEnd`, `Failed`, `DispatchCall`, `SettleCall`, `StoreRound`
and so on; `Accept` is everything between a whole message and the first tool
call.  A message keeps its text as a sequence of chunks, its calls, and whether it
has a block the loop does not read (`opaque`).  The tool is a series of host steps,
each asking (`StepAsks`), allowed or withdrawn, working, over; `ran` counts those
let run, a history the code does not keep.  `log` is every event emitted.

**OperatorEvents, HeadlessOutput, InteractivePane.**  `HeadlessOutput` folds the log with the frontend's `emit`:
`stdout` is what it has written after the events so far.  `InteractivePane` has `entries` and
`open` as state; every step of the loop hands it the new events (`Applied`), and besides
it has the lines `drive` writes around a turn and the trace lines others write at any moment (`Interject`).

**EventStream / StreamRelay.**  `EventStream` has the events `made`, those `handed` over and how the stream ended: what the stream actions
of `AgentLoop` take for granted.  In `StreamRelay` a line is a run of fragments, the last with the newline; a read
takes any number up to `MaxRead` that is there, and a write puts as many down as the channel has room for
(`write_all`).  `sent` numbers the events the relay made,
`queue` are those it has not written, `channel` what is written and not read, `buf`
the reader's buffer, `got` what the loop was handed.

**StreamTranslator.**  The first six variables are the translator's and its output, the others the vendor's,
which composes the `document` it streams.  `block_start`, `block_delta`, `block_stop`, `message_start`, `message_delta`,
`message_stop` are the arms of `accept`; `Fetched` is `translate_message`, the other path of the code over the same
`document`.  A text of a fetched message is one block however little is in it; `Told` says the message as a stream would, a text piece by
piece, so that the two can be compared: a delta may be blank, a text may have no piece at all, and neither is an event.  `StreamRelay` keeps of all this only that a vendor event
yields an event, nothing, or the terminal one.

**GuestStream.**  A body of bytes, of the kinds the parser tells apart, is fed in chunks of any size (`Feed`) or
collected for an error message (`Collect`, `Collected`).  `parser` holds the partial line, the event's name and its data as the code does.  What
it must return is defined over the whole text, without a parser's state: the lines between two blank ones make an event.

**ProviderTurn.**  Rounds and retries again, this time for what they ask: `messages` are the transcript's with each
block marked by the answer it came in, `asked` the requests as the vendor gets them, `said` what it
answered.  `Answer` is the vendor's (up to `LongestAnswer` blocks, its own among them, or a refusal by status) and what `http_failure` and
`translate_message` make of it, `FetchFails` a network that fails; `RetryRound`, `Wait`, `GiveUp` are the loop's.

**Policy.**  A small fixed file system with a link out of the workspace, a link that leads nowhere, and a name that is a
star.  `PolicyInit` compiles rules as written (`CompileRule`: resolved against the workspace, refused if they cannot be), `Judge` lets a plugin ask by
any spelling, which the host resolves as it does (`Submitted`), `AnswerForSession` keeps a person's answer for the session.  Matching a glob is external.

**Startup.**  From `Main` on, each stage is a function of the code: the files read, the policy compiled, secrets collected,
plugins found, registered and configured; the turn of a print run, `Listen`, `Press` and `Interrupt` for Ctrl-C, the
transcript file opened and written.  Every input is in order or one of the `faults`.  `Rotate` changes the content behind a secret while the run goes on.

**InteractiveSession.**  `ask[s]` is a host step's `approve` future: judged under the
lock and about to open its prompt, open, sent an answer it has not read, or
*leaving*: its receiver dropped, its guard not run yet.  `prompts` is the queue,
`wait` the ticks until the gate `prompt_armed_at` opens, and `calm` a history: how many
ticks the first prompt has been first without a key.  It is set from the
queue and the keys alone, never from `wait`, so that `Deliberate` compares the code's
gate with what it is for.

**LineEditor.**  `text`, `cursor`, `history`, `browsing`, `draft` are the editor's; one action per kind of key, with the order in which `drive`
offers it to a prompt, the pane and the editor.  `composed` is a history: the line the person made, changed by
typing and never by walking.

**PaneView, PromptBox, Wrap, Frames.**  A text is its lines, a line the lengths of its words.  `Apply` is any change of the entries (text streamed, taken
back, an entry pushed), `DrawPane` one frame: the rows wrapped again or taken from `cache`, the window cut, `view` left behind for the keys.
Each key computes from `view` as the code does.  `PromptBox` has `height`, which lays claim to rows, and
`render_prompt`, which fills what it was given.  `Frames` states what the screen promises of both (`FrameIsTrue`).

**TerminalScreen.**  `EnableRaw`, `EnterScreen`, `EnterKitty`, `Flush` are the steps of `enter`, each of which may fail with what it
queued written in part; `DropLooks`, `DropUndoes`, `DropClears` the guard's; `Panic` the hook on the session's thread, `PanicElsewhere` and `HookUndoes` on
another, in two halves.

**FsWrite.**  One write of the file `f` in the directory `p` or `p/m`.  Directories are
objects in `tree`, so that one keeps its identity when its name is given to another; `held` is the
handle `fs_write` works through and `path` the name shown to the operator.  One system call is one step:
`FindAncestor`, `OpenAncestor`, `NameAncestor`, `VerifyAncestor` are `anchor`,
with `Canonicalised` for `canonicalize`, which ends at a file too where `Walk`, an open, must not;
`LookAtDestination` and `VouchName` the preflight, `MakeDir`, `EnterDir`, `Classify`, `CreateTemp` what is
done relative to the handle after the approval, then the fill, the comparison and the
rename, or the removal of the temporary.  `Meddle` is the others: between any two steps they change what stands
at `p`, `m`, `f` or the temporary's name, planting links that lead to `out`.
`late` and `swaps` are histories of when they did: whether `f` changed after the last look at it, and how often a name on the way to
the handle (`p`, or `m` in it) changed between its open and the look that compares the two.

**FsRead.**  A path that is a link (`link`), the names it may lead to and what they name (`named`); `Open`, `Canonicalize`,
`Verify`, `Probe`, then the question, then `ReadPlain`, or `ReadChunk` and `EndOfFile` for a range of lines: `scan` is where the scan stands.
`Move` is the others, `been` everything each name has named.

**EditTool.**  `Read` and `Decide` are the first two steps of its manifest; the write is two, `Look`, which compares the file with what was read, and `Rename`, which replaces
what is there by then.  The host steps are kept to what `FsRead` and `FsWrite` show of them; `Change` is anybody else, between any two of these, and `looked` the history of what the
look saw and of whether the file changed behind it.

**HttpRequest.**  `hop` is the request the loop of `request` is about to make: URL, method, whether
the plugin's headers and the body go with it.  A server stands for a host and a port, an origin is a
scheme and a server.  `CheckEgress` and `Allow` are the two gates, `Send` the request going out,
`Redirected` the rest of the loop's body; after the answer, `BodyChunk` reads a buffered body and
`Seek`, `Chunk`, `EmptyChunk` are a reader of the handle behind `guarded_body`.  `empties` says that the body has an
empty chunk ready for the next poll: `timeout_at` polls what it bounds before its timer, so neither `Over` nor `IdleOver` is seen then, and the code goes on
with `EmptyBodyChunk` or `EmptyChunk`.  Another may be ready at once (`NextReadyOrNot`) or come while a poll is pending (`EmptyArrives`).  `approved` and `sent` are
the histories of questions allowed and requests gone out, `spent` of the time they took.

**ProcessRun.**  The step's `select` (`Finishes`, `TimesOut`, `Cut`, then `Reaped` or `GraceOver`), the work
it polls (`Drain`, `DrainOver`, `DrainFails` for each output), the task that feeds stdin (`Feed`), and
the child: `next` is what it is about to do, so that one held up by a full or empty pipe is
held up there and nowhere else.  `heirs` are descendants that keep its output open, in its process
group or gone from it; `closed` the outputs that whoever ran on has let go of, whose end is seen while the child runs (`OutputCloses`).

**One machine at a time.**  Four MC modules hold several components each: `MCProvider` (`StreamTranslator`,
`GuestStream`, `ProviderTurn`), `MCSteps` (`HttpRequest`, `FsRead`, `EditTool`), `MCSession` (`InteractiveSession`, `Policy`,
`LineEditor`, and `PaneView` and `PromptBox` through `Frames`), `MCFrontend` (`InteractivePane`, `Startup`, `TerminalScreen`).  They do not interact in
the model: `subject` says from the start which of them runs, and the others are parked in one state.  The states of
such a run are the union of its machines' and not their product, and each property is checked on every behaviour of
the machine it is about.  A parked machine satisfies its properties and its fairness as it stands: nothing in it is enabled, or
nothing is due.  A module whose properties are proved as well is extended there and not instantiated, so that the run checks
the very formula of the theorem; this is why its `Init`, `Next` and `Spec` have its name in them (`LineInit`, `TurnNext`, `BoxSpec`).

## 3. What is checked

| Run | Bounds | Shows |
|---|---|---|
| `stream` | one streamed turn, 2 rounds, 2 attempts, 2 items a round, 2 host steps a tool, print mode listening, `CutFairness` | `TokenIsAuthority`: the token decides how the turn ends; `StdoutIsTranscript`; `CancelEndsTurn`: a cancelled turn ends though nobody answers; `TurnEnds`: a turn ends if everybody answers |
| `turns` | two buffered turns, 2 calls a round, 2 host steps a tool, limits configured 0 | `Replayable`: the transcript can be replayed at any moment; `AfterTheCut`: the calls after a cut told truthfully and not run; `CutIsFinal`: nothing starts after it; `AnswersShown`: every answer is shown once and in order, none is lost, and what acts was announced; `Implements`: the loop implements `Conversation` |
| `before_start` | tools of two host steps | **violation**, see below |
| `relay` | capacity 2, lines of up to 5 fragments, reads of 2, a cap of 1, 3 chunks of 2 events | `DeliveredInOrder`: events once and in order, the buffer bounded; `IsEventStream`: implements `EventStream`, so it ends once and truly, and after the token never as ended or failed; `BothStop`: after the token, and after the vendor's silence |
| `provider` | messages of 2 blocks, interleaved, malformed or cut, an error at any event; bodies of up to 8 bytes, a line's cap of 3, an event's of 4, an excerpt of 2; 2 turns, 2 rounds, 3 attempts, a backoff of 2 up to 3, 3 requests | `AgreesWithBuffered`: what goes out is whole and was said, and a message streamed is understood as the same message fetched; `ChunksCarryNoMeaning`; `VendorSeesItsOwn`: every block comes back unchanged, in its place, to the vendor it is of; `RetryRepeats`: the same request, after a longer wait up to the cap, where one was promised |
| `frontend` | a streamed turn, 2 rounds, 2 attempts, 2 chunks of text, one line from outside; up to 3 flags, 2 secrets, 5 installations, 3 Ctrl-C; 2 panics of other threads | `TranscriptIsShown`: no accepted text is lost from the pane, and without a line from outside it is the transcript's text; `GovernedInOrder`; `StatusTellsTheRun`; `TerminalIsRestored` |
| `pane_help` | as the pane above | **violation**, see below |
| `session` | 2 concurrent steps, 3 subjects (one denied by rule, one that cannot be remembered), a delay of 2 ticks; 2 plugins, 2 answers for the session; lines of 2, a history of 2; 3 entries, 3 changes, 3 sizes; prompts of 2 texts and 2 key lines on 4 screens | `PromptsAreOpen`: the queue is the open questions; `Deliberate`: no key answers a prompt it was not struck for, and rules are answers taken; `ExitEnds`; `RuleMeansItsPath`; `AnswersStayNarrow`; `LineIsKept`; `FrameIsTrue`: a frame is what there is now, a page skips no row, and all that a prompt asks can be read |
| `write` | 3 directories to make, 2 changes by the others | `OutsideIsApproved`: bytes land only where the approval says; `WholeOrNothing`: no torn file, no temporary left silently, permissions kept; `ExpectHonoured` |
| `steps` | 3 servers, one not granted, 2 redirects, a budget and an idle limit of 2 ticks, a cap of 2 bytes; 2 names, 4 files, a scan ceiling of 2, caps of 1 and 4, files of up to 4 bytes, 2 moves; an edit of files up to 5 with a read of 4, 2 changes | `HopsAreGated`, `ChainOnlyNarrows` (headers, body and protection are lost and never regained), `BudgetBoundsTheChain`, `NothingHangs` (the deadline, the idle limit, the token); `ReadsWhatWasShown`, `HonestAnswer`; `EditKeepsTheRest` |
| `http_withdrawn` | as the request above | **violation**, see below |
| `process` | pipes of 1 byte, 2 of stdin, 3 of each output, a cap of 1 | `RunEnds`: the step never deadlocks with the child, and its deadline ends it; `OutputIsTold`; `NoOrphans`: nobody of the group is left when it was cut off |

**Why the bounds are enough.**  Two rounds show what one leaves to the next; two
attempts a retry and the last attempt, three a wait that has grown; two items a text and a call (`stream`), or two calls with
a cut between them (`turns`: once a round is whole, how it came makes no difference to its calls); two turns a failed turn and the one that joins it.  Limits 0
are the edge `.max(1)` is for.  Lines of up to five fragments and reads of two let a read end
anywhere in a line and hold the ends of two lines; a channel of two fills while
the reader is between reads.  Eight bytes hold an event and the field that follows it, at, below and above both caps, every cut of them included.
Two steps are one prompt behind another; three subjects
are the three ways `judge_with` and `subject` can go; two answers are an older and a newer one.  A delay of two ticks separates
"some time" from "all of it".  Two changes by the others are one that redirects
a name and one that puts it back, or a change before the approval and one after it; three directories
are the one below `p`, the one the step makes and one the others put in its place.  A file of four bytes and a ceiling of two have the cap, the
ceiling and the end of the range met by the same chunk and by different ones.  Two redirects are a detour
and the way back.  More input and output than a pipe holds, and more output than cap and pipe together, are
what can hold a child up.  A pipe of one byte is drained a byte at a time; `OutputTold` (section 5) is for any size of both.  A history of two is walked past both its ends.  Three entries are one above the window, one in it and one
below; the sizes are with and without room.  Two panics are one that finds something to undo and one that does not.

**Fairness.**  `AgentLoop!CutFairness`: the executor polls a ready turn, and what
races the token (`host::approve`'s select, `or_cancelled`, the kernel between two
steps, `EventReader`'s read) gives way to it.  `AnswerFairness` adds that provider,
operator and tools answer; only `TurnEnds` assumes it, as its antecedent.  `StreamRelay!TaskFairness`:
both tasks are polled and a parked stream call is released by the token or the other
side's close, which the kernel does; `IdleFairness`, the antecedent of
`BothStop`, is the idle limit of `guarded_body`.  `InteractiveSession!Fairness`: futures are polled, and a turn whose
token fired returns, which is `CancelEndsTurn` of the loop.  Nothing is
assumed of the person.  `HttpRequest!Fairness`: clocks run, and a timer that is due fires when a
poll finds the body pending; `WF` of `Over` and `IdleOver` says no more, since both need `~empties`.  Two of the four parts of `NothingHangs` have `BodyParks` as their antecedent, that the body is not for ever ready with one more
empty chunk; the other two are the token's, and assume nothing of the network.  A silent peer and a trickle of empties satisfy `BodyParks`.  `ProcessRun!Fairness`:
futures and tasks are polled and the grace passes; a child that goes on as far as its pipes let it, or else the
deadline, is the antecedent of `RunEnds`, an operator who answers that of both.  The machines that have only safety properties
(`FsWrite`, `FsRead`, `EditTool`, `ProviderTurn`, `Policy`, `Startup`, the translator, the parser, the screen, the editor, the frames) assume none.

**Deadlock** is checked in `relay` (both sides over is the only end, `AllOver`); in the others the bounded number of turns, the step's answer,
the exit, or a policy that does not compile is an end.

## 4. What the code does not do

* `before_start` (`BeforeStartIsTrue`).  `Cut::from_error` reads every withdrawn
  approval as *nothing had happened*.  A tool whose first host step ran and whose
  second was withdrawn is reported to the model as not started.  Of the bundled tools
  `edit` makes two host steps; its first only reads.
* `http_withdrawn` (`WithdrawnMeansNothingRan`).  Every hop of a redirect chain asks through `host::approve`.  A token
  that fires while the second hop's question is open ends the step with `CANCELLED_AT_APPROVAL`, documented
  as *nothing was done*, although the first hop's request was allowed, sent and answered.
* `pane_help` (`PaneIsTranscript`).  A retry takes back the *open* entry; `/help`, or an
  input-read error, written while an attempt streams closes it, and the failed
  attempt's text stays on the pane beside the retry's.

The properties that hold leave a few histories out, each named in its comment.  What the code does in them:

* A body always ready with one more empty chunk meets no deadline, neither the request's nor the idle one: `timeout_at` polls it
  first, every time.  The token ends it, as the doc of `guarded_body` has it.  `BudgetBoundsTheChain` counts the time in which a poll is pending.
* An edit does not catch a change that lands between the write's look and its rename, and replaces it (the doc of `fs_write` says so).
  `EditKeepsTheRest` then holds for the text the look saw (`looked.late`), as `ExpectHonoured` does for the write (`late`).
* A message streamed differs from the same message fetched in four things, which `AgreesWithBuffered` names: a call whose input never parsed is dropped, not
  an error, if the tokens ran out; of several malformed calls another may be the one reported; a text block without text, a block of the
  message when fetched, is not told when streamed; blocks that overlap are told each in its own order.
* `verify_named` compares the held directory, or file, with its name
  once, so a name on the way to it (its own or one above) that was changed after the open and changed back before that look passes it.
  `OutsideIsApproved` leaves out those histories (`swaps >= 2`) and holds for all others; `ReadsWhatWasShown` says *was named*, not *is*.
  That a name above counts too came out of the proof: a history of changes of `p` alone is enough for two changes in all, which is
  what the run allows, and not for three.
* A vendor that ends a message with a block still open: `message_stop` looks at calls whose input did not parse
  (`broken_call`, set when a block stops), not at blocks in flight, so a call never stopped is left out and the
  turn ends normally for any stop reason, where the comment there would have it fail except for `max_tokens`.
* `SseParser::feed` returns an error without the events it completed in the same chunk, so there the cut of the input does matter.
* The scan ceiling of a range may cut a character in two, and the answer to a read of valid UTF-8 is then marked `lossy`; the
  byte cap does not (`HonestAnswer` tells the two apart).
* A pane scrolled up while an open entry shrinks (a retry) or the pane is widened may draw its tail
  without following it: `scroll` is still a row, past the last top, and rows that come later leave it there.
* A prompt's box does not clamp `scroll` when it draws; after a screen grew, the first keys up move nothing on it.
* Changing a line recalled from the history makes it the line composed: the half-typed one from before is gone at the next Up.
* The guard's look at `ENTERED` and its clearing are two steps.  A panic of another thread between them undoes the same
  bits, and for the keyboard's flags that takes somebody else's; so does a push that failed behind its mark.  A panic of another thread that
  does not end the process leaves the session drawing on a restored terminal.

## 5. What is proved

`ConversationProofs`: `AlwaysReplayable`, every conversation the abstract
specification allows can be replayed; its invariant is `Replayable` itself with types.

`AgentLoopProofs`, for all sets of chunks and calls, all limits and bounds:
`TypeCorrect`, `AlwaysEndsInUser`, `Refinement` (`Spec => Conversation!Spec`) and
`AlwaysReplayable`, which follows from the refinement and the theorem above.  The
inductive invariant is `IInv == TypeOK /\ LoopInv`; `LoopInv` adds what the invariants
need and do not say: the draft and the results are empty unless a round is read or
answered, the results are those of a prefix of the draft's calls, and the
transcript ends in a user message while a turn runs.  Without the second, storing an exchange could
not be shown to answer every call.

The token's properties need an invariant each, on top of `IInv`.  `TokenHasAuthority` and `NothingStartsAfterTheCut` are read off the steps: wherever
an outcome is decided the token is looked at in the same step.  `CutIsTold` adds (`CutInv`) that a cut answer among the results means the
token has fired and no tool runs: with the first the loop can only cut the calls that are left, and with the second nothing that
was dispatched earlier can still answer behind it.  `BeforeStartOfOneStep` marks off the violation `before_start` finds: with tools of one host step
(`MaxSteps <= 1`), a withdrawn approval has let nothing run (`StartInv`), and what the model is told is true.

`AnswersShown` compares the log with the transcript, so its proof is an induction over both.  `AnswerInv` says besides that the log ends in a `ToolCall` exactly while
that call's tool runs and that no results are held outside of answering; lemmas then say what one event more, or one message more, makes of the answers seen and owed.

`StdoutAlwaysTranscript` has a hypothesis: the process runs one turn (`MaxTurns <= 1`), as the print frontend does (`print.rs` drives one turn and exits).
`HeldInv` says what the frontend holds back at each place of the loop: a round's text until it is accepted, nothing between rounds.  A second turn would find the text of a turn that failed still pending; no
process has one.  `PaneAlwaysShows` is the same of the terminal's pane, for any number of turns, of lines from outside and of retries.  `PaneInv` follows the transcript's text and the round's through the entries
(`InOrder`), with the open entry and without it, because a retry takes the open entry away; and while no line came from outside it says exactly what the entries since the person's hold (`Exactly`).

`ProviderProofs`, for every capacity, length of lines, size of reads and cap: `EventsDelivered`, `Refinement` (`Spec => IsEventStream`), `TheTokenDecides`, `LinesStayWhole`.
The invariant follows the fragments wherever a read has cut them.  `InFlight` says that the buffer followed by the channel holds, each whole and in order, the lines of
the events written and not yet handed over; `RelayInv` and `ReaderInv` say what each side may still do, in terms of its own variables and of the two
ends of the channel.  `InFlight` is about positions, so that no sum over lines has to be computed: the induction over positions it needs is the least
(or greatest) element of a set of naturals (`LeastElement`, `GreatestElement`), from the library's `WFMin`.  For the
refinement `handed` is the kinds of the events `got`: what was handed over stays the same while more are made, because the loop never has more than were written (`HandedStays`);
the next line of the buffer is the next event (`HandStep`); and every other way the reader leaves is a `Break` that tells the truth (`BreakStep`).

Of `ProviderTurn`: `RetriesRepeat` and `VendorSees`, for every limit of rounds and attempts, every backoff, and answers of any length.  `RetryInv` follows the one request a round is about: between the vendor's
answer and the retry the last request is still what `build_request` would make (`Current`), the next wait is twice the last or the ceiling (`Doubles`), and a round started afresh differs from every
request before it.  `VendorInv` keeps books: the transcript as replayed shows the vendor its completed answers (`Ledger`, `Owns`), roles alternate, calls are answered first thing in the next message (`Sound`), and
the last request was made from such a transcript (`Seen`).  What a merged or replayed message says is an induction over its blocks.

Of `GuestStream`, for bodies and caps of any size and any cut: `ChunksNeverMatter`.  `Parses` says what the parser is in terms of the text alone: its line is what stands after the last line feed, its data and name
are those of the lines after the last blank one, what it returned are the text's events, and it has failed exactly if the text is past a cap.  Lemmas say what one byte more, one line more and one value more make of each of these
(`CapNext`, `EventsNext`, `DataStep`), and a chunk is its bytes one after another (`ChunkStep`); so where the chunks end is in no formula but the last.

`TerminalProofs`, first of `InteractiveSession`, for all sets of steps and subjects and every delay:
`TypeCorrect`, `AlwaysPromptsAreOpen` and `AlwaysDeliberate`.  The invariant adds to the types
that a queue holds a step once, that the prompts in it are those of the steps open or leaving, and that
the first prompt's calm and its gate together are at least the delay
(`prompts # <<>> => calm + wait >= ArmDelay`).  The last is what makes `Deliberate` an
induction: a key is only taken when the gate is open, `wait = 0`, and then the calm alone is the delay.

Of `TerminalScreen`, for every number of panics elsewhere: `AlwaysRestored`.  The invariant keeps the books: `owed` is what will still be
undone, by the guard (`entered`, until it has undone it) or by a hook at work (`hook`).  `Accounts` says that nobody else has a bit, and never two of
them the same one; `Kept`, that whatever is not as it was is owed, and of the keyboard's stack exactly what is owed.  The second half is what
a mode that may be reset twice does not need and a stack does.

Of `Startup`, for every command line, installation and fault: `ExitTellsTheRun` and `RunsAreGoverned`.  `StageInv` says stage by stage what a run has done and not done, `InterruptInv` that a press is taken once and
only by the task that listens, so that a turn ends as cancelled only after a press; `GovernInv` what is settled by each stage.  That the flags, which the parser sorts by decision, come out in the order
given is an argument about positions (`Upto`).

Of `LineEditor`, for lines and histories of any length: `LineIsAlwaysKept`.  The property is inductive with types and two facts about the exits asked for.  Of `Policy`, for any plugins and number of answers over the
module's file system: `AnswersAlwaysStayNarrow`.  `PolicyInv` says that the session rules are the answers: one rule for every question answered (`Distinct`), with the latest answer to it (`Stands`).

Of `PaneView` and `PromptBox`, for texts, entries and prompts of any length and terminals of any size: `FramesAreTrue`.  The wrapping and the joining of rows are recursive functions; a lemma reaches
each through the function it builds, which is shown to exist (`SomethingBuilds`).  `JoinedHas` is what the pane rests on: the rows of all entries are as many as theirs together, and an entry's first row
stands after all rows of those before it; the count `reveal` makes is then the place where the frame has that row.  `PaneInv` adds two things to the types.  `CacheInv`: while the counter of changes
and the width say so, the rows kept are those the entries would be wrapped to.  `ViewInv`: the keys go by what the last frame measured, and one key later the place scrolled to is at most a page
from the top row then, or where the entry begins.  `BoxInv` says the same of a prompt (`FrameInForce`): its keys go by the box last drawn, which leaves the scroll within a page of the row on top.

`HostStepsProofs`, first of `HttpRequest`, for all servers and grants, every redirect limit, timeout and cap:
`TypeCorrect`, `EveryHopIsGated`, `NothingIsRegained`, `OneBudget`.  `ChainOnlyNarrows` relates any two
requests of a chain but a redirect only looks at the last one, so the invariant adds that the hop about to be made is
`Narrower` than every request sent so far, and the proof that being narrower is transitive: this is why
dropping the headers for good, rather than comparing with the first URL, is what keeps them from
coming back.  For the gates it adds that the last answer was for the hop about to be sent, and for the
budget that what was spent and what is left never exceed the timeout together.

Of `FsRead`, for any names and files, every cap and ceiling: `AllReadsShown` and `AllAnswersHonest`.  `Faithful` follows the handle: from the check against its name on, what is held is what the path shown has named.  For the answer,
`Going` says how far a scan has come (whole lines before it, the bytes kept a prefix of the range's) and each chunk, whatever its size, either keeps that or ends the scan with an answer that is `Honest`.

Of `EditTool`, for any texts, limits and changes by others: `EditsKeepTheRest`.  The scan for matches is a recursive function; `FoundBefore` is what it has found when it comes to a place: every
occurrence before it that no earlier one reaches into, and none that reaches the place itself.  The text written is then the pieces between those places with the replacement in each (`Written`), and
`EditInv` keeps that the decision was made of the text read, that the look saw that very text, and that between the look and the rename the file is what was seen or `looked.late` says otherwise.

`FsWriteProofs`, for any set of directories to make and any number of changes by others: `OnlyWhatWasApproved`, `ReplacedWhole`, `ExpectedIsReplaced`.
The first is the argument for working through a handle.  `OneNameLeadsOut`: no directory but the root has an entry that is `out` itself, so a step from the handle
by a single name, which follows no link, never gets there; whatever is held was held before the question.  `HandleIsNamed` accounts for that, from the
open to the approval: each time what is held and what it is called part, a change has been counted in `swaps`, and the look that compares
them lets one through only if there was a second.  `ReplacedWhole` needs to know where the temporary is (`Temporary`: only in the directory held, only from its making to the
rename or the removal, whole from the last time the token is read) and that only the rename puts new bytes at `f` (`Answered`); `ExpectedIsReplaced` that
the last look is still true at the rename or `late` says otherwise (`Expected`).

`ProcessRunProofs`, for every size of pipe, input, output and cap: `NoneIsOrphaned`, `OutputTold`.  The kill comes before the reaping and the answer after, so
`GroupGone` says it of the reaping too.  For the output, `Flow` holds while the child writes: what a drain kept is what the child wrote less what is in the pipe, capped;
and `EndSeen`, that a drain saw the end only when nobody was left to write and the pipe was empty: the child is dead, or has closed that output and (`Bounded`) will not write to it.

`SequenceFacts` has what they share.  The provers cannot use a theorem of induction that takes an operator, so an induction over data goes through a set of numbers: the positions up to which the claim
holds contain 0 and, with each, the next (`BySteps`, from the least one missing, `WFMin`); `GreatestElement`, and what `FlattenSeq` makes of one sequence more, follow in the same way.

Assumptions are those the modules name (`ParametersAssumption`, `ChannelAssumption`, `SessionAssumption`, `HttpAssumption`, `ProcessAssumption`, `DirAssumption`, `ReadAssumption`, `EditAssumption`, `LineAssumption`,
`AnswersAssumption`, `TurnAssumption`, `GuestAssumption`, `CommandLinesAssumption`, `PressesAssumption`, `PaneAssumption`, `BoxAssumption`): limits and bounds are naturals, a pipe, a channel, a line and a read hold something, a directory that does not exist yet
is none of those that do, a command line is a sequence of flags, sizes of the screen are naturals (0 is one), a prompt's text and its key line have a line.  The screen's proof needs none.

`TypeCorrect`, `AlwaysEndsInUser` (what a turn that did not complete leaves ends in a user message), `TheTokenDecides` (which `IsEventStream` implies), `LinesStayWhole` and
`BeforeStartOfOneStep` are proved and not checked by a passing run.

Only model-checked:

* all liveness (`CancelEndsTurn`, `TurnEnds`, `BothStop`, `ExitEnds`, `NothingHangs`, `RunEnds`): fairness and ENABLED are beyond the prover;
* `AgreesWithBuffered`, which compares the fold of a stream with a definition over the whole message;
* `RuleMeansItsPath`, which compares two readings of a path over one fixed file system.

## 6. What is not modelled

Texts and wording, token usage, tool schemas; the layout of the whole screen, the lines a prompt is made of, and the decoding of terminal events.
The gwead kernel and the globset crate are not in the repository: what
the code relies on (token checks between steps, bounded streams that poll their source before
the token, an action ceiling; a match of a glob) is modelled from its use and marked external.
`Session::run`'s own input loop is not modelled: both frontends call `turn`.  The `sse-guest` plugin is used by tests only; xtask builds.
The guest substrate's marshalling keeps no state across calls.

Of `host_fs`: the build without directory handles, failures of the blocking pool, and a write's
future dropped in mid-write (a second `/exit`), which may leave a temporary.  Of `host_http`: parsing, header
values, the connect timeout (a failure like any other).  Of `host_process`: systems without process
groups, the environment, the exit code.  Of the configuration: its parsing.  Of the policy: reading its JSON.  Of the vendor's stream: an index it
starts twice.

## 7. Plan

Done: the conversation and the agent loop, its events, print mode; the relay and the reader; the terminal session, its pane, editor, boxes and
screen; the host steps and the edit tool; the provider's stream, parser and requests; the policy; the start and the exit.

Left:

1. A run that shows what becomes of a call still in flight at `message_stop`.
2. Proofs of what section 5 leaves to TLC.
3. That the stream actions of `AgentLoop` read an `EventStream` and nothing more.
4. `FsWrite` with its future dropped, and what a later write makes of the temporary left behind.
