# A formal model of smithers-nanocodex

`smithers-nanocodex` is a one-shot bridge: a parent process starts it, sends one
`turn.start` over stdin, may send `turn.cancel`, and reads JSON Lines from stdout
until one terminal record and an exit status. This directory holds TLA+ modules
for the parts of the bridge that run concurrently or keep state, the TLC
configurations that check them on small instances, and proofs that TLAPS checks
for every value of the constants.

`PROJECT.json` has the index: components, runs, the source lines of every
definition, the hazards and the properties that cover them, and one mutant of the
code for every property (an operator such as `TrySendForgetful`, next to the one it
mutates, under which the property fails).

    tlc -workers 2 -config ServerCommands.cfg MCServerEnvironment.tla
    tlapm ManagedAuthProofs.tla

## 1. Inventory

| Part | Source | State | Operations | What must hold |
|---|---|---|---|---|
| Turn coordinator | `server.rs` 138–1068 | accepted session, pending exact cancellation, cancellation cause, fatal error, command ids and count, open branches | one `select!` branch per event source, then settle, drain, emit, exit | each command answered once and before the terminal; one terminal, last; the reason and status are the truth |
| Output queue, writer | `server.rs` 60–100, 1153–1280, 1334 | queue, event slots, failure token | `send_control`, `try_send_event`, write and flush, the size check of a terminal | order kept, gaps marked, a failed writer ends the turn, a blocked one does not hold it back, no result is lost for its size |
| Input framing | `server.rs` 1282–1332 | partial record | `read_record`, dropped at its await | framing does not depend on chunks or on drops |
| Turn runner | `backend.rs` 79–442 | `exact_cancel_issued`, fallback task, event error | open, prompt, offer, stream, cancel, join, return | control called at most once; returns after cancellation |
| Event forwarder | `backend.rs` 1187–1393 | bytes charged, limit reported, marker owed | `forward`, `finish` | budget kept; drops marked in their place |
| Managed credentials | `backend.rs` 784–1077 | original, staged copy, baseline, reload flag, handle | `snapshot`, `recover_unauthorized` | never answer from a replaced document; do not overwrite what others wrote |
| Client frames | `protocol.rs` | none | validation | modelled only by its outcome |
| Strict JSON | `strict_json.rs` | node budget, open containers with their keys; the stack of `validate_value` | read a value, close a container; take a value off the stack | refuses at the first value over a limit; both agree on every document |
| Request validation, resume envelope | `backend.rs` 385–716 | the file system, the request in hand, the snapshot the client keeps | resolve, check the request, check the checkpoint, open, complete | a published snapshot can be resumed; model and workspace never drift |
| Error taxonomy | `error.rs`, `backend.rs` 1402–1674 | none | tables | only category → status |
| Capabilities, command line | `capabilities.rs`, `main.rs` | none | constants, start and shutdown | not modelled |

How they interact. The coordinator spawns the writer, the runner and, for a
`turn.cancel` after acceptance, a supervised task with a one-second limit. Runner
and coordinator share four things: a bounded notice channel (acceptance, events,
truncations), a cancellation token that only the coordinator cancels, the
`TurnControl` handle with its shared `issued` flag, and the runner's result. The
runner owns an event forwarder and, through Nanocodex, a credential source whose
file other processes may replace.

What is hard here: every branch of the `select!` loop may be ready at once; the
end of the turn races the cancellation of it; waiting reads are dropped and
resumed; two bounded queues drop events one after the other and must say so; the
writer fails silently, or blocks; two tasks may cancel the same turn; files are
shared with processes that take no lock; a snapshot is tested by one process and
resumed by another, through two implementations of the same limits. The "hazards" of `PROJECT.json` list each of them at its line.

## 2. Modules

| Module | Models | Run or proved by |
|---|---|---|
| `TurnProtocol` | what a client may see: the abstract specification | refined by `BridgeServer`, proved in `BridgeOutputProofs` |
| `BridgeServer` | the coordinator, queue, writer, client, signal, and the most general backend | `MCServerEnvironment`, `BridgeServerProofs`, `BridgeOutputProofs` |
| `NanocodexTurn` | `BridgeServer` with the real runner as its backend; the agent is external | `MCBridge`, `NanocodexTurnProofs` |
| `EventForwarder` | event classification, budget, backpressure | `MCEventForwarder`, `EventPathProofs` |
| `EventPath` | `EventForwarder` with `handle_notice`, the output slots and the writer: agent to stdout | `MCEventPath`, `EventPathProofs` |
| `StrictJson` | the strict parser and `validate_value` against the meaning of the limits | `MCStrictJson`, `StrictJsonProofs` |
| `ResumeChain` | validation, checkpoint and terminal size, from process to process | `MCResumeChain`, `ResumeChainProofs` |
| `ManagedAuth` | staged credentials and other writers | itself, `ManagedAuthProofs` |
| `RecordReader` | JSON Lines framing against the rules of spec 4.1 | `MCRecordReader`, `RecordReaderProofs` |

**BridgeServer.** One action is one step of the server task between two awaits.
`phase` is the place in `serve_with_backend`: `await_start` up to the first record,
`running` for the `select!` loop, `draining` and `finalizing` after the loop
(notices, then the exact cancellation, then late commands), `emitting`, and
`joining` for `finish_writer`. Most variables carry the name of the local they
stand for; `out` with `flushed` is the output queue and what the writer has
written of it. `ServerStep` is the coordinator; `WriterStep`, `ClientStep` and
`BackendStep` are everything beside it. A record is its type, correlation and one
datum; a cancellation reason is named by the command that carried it. Command
parsing is its outcome: a start, a cancel and its target, another well-formed
frame, a malformed record, an unreadable one.

**NanocodexTurn** extends `BridgeServer`. Each step of the general backend is taken
by a step of the runner (`OfferTurn` is `BackendAccepts`, `Return` is
`BackendFinishes`, the `Exact*` actions are `ExactSettles`), so its behaviours are
behaviours of `BridgeServer`: `BridgeImplementsServer` proves it. A call of
`TurnControl::cancel` may reach the agent and stop it before the reply comes back
(`AgentHears`). `HangingCalls` says which of the two
`TurnControl::cancel` calls the agent may leave unanswered; `LimitPasses` is the second
the server waits for the exact one, and `timedOut` records that it gave up. Forwarding is reduced
to a notice, an owed marker or nothing; `EventForwarder` has the detail.

**EventForwarder** keeps every notice ever sent with the number received (`sent`,
`taken`), the three fields of the struct, and two auxiliary variables: the weight
of what was sent, in which a backpressure marker counts although the code charges
nothing for it, and the event that met the aggregate limit.

**EventPath** extends `EventForwarder` by the stages behind it. `Receive` and `Handle`
are the two halves of `handle_notice` (flush the owed marker, then queue the
record), because the writer runs beside it and may free a slot in between. A slot
is taken from the moment a record is queued until it is written. `out` keeps the
whole output, so "named in its place" can be said of what the client reads. Records
that take no slot are left out, except the terminal, which the property is about.

**StrictJson** reads a record value by value; the client decides what comes next, so
every document within and just beyond the limits is read. A frame of `stack` is a
visitor on the call stack. `StartValidation` then runs `validate_value` on the same
document, also when the parser has refused it for a limit. Lexical syntax is one
step that fails (`SyntaxError`). `FitsLimits` and `KeysUnique` say what the limits
mean of a whole document, apart from both algorithms.

**ResumeChain** has one process after another, and between any two steps of them
others change the file system. `validate_request` is three steps, for it looks at
the file system three times: `Start` up to the resolution of the requested path,
`CheckRequest` from `is_dir` to the comparison of the path strings,
`CheckCheckpoint` from the resolution of the stored path to the model. Each check is
a pair of a condition and its code, and the first that holds decides, as in the
code. A snapshot is its model, its workspace and what the limits measure; `Complete`
tests it in `ResumeEnvelope` and then its terminal against the output limit. The
client may send the snapshot it holds unaltered, altered or outdated.

**ManagedAuth** has the original, the staged copy, the baseline, the handle and the
reload flag. The code compares files byte for byte, so a document is its content and
whether it loads as this account's; contents are reused, as an older file may come back,
and other processes may write for ever. The program counter `pc` has a value wherever
another process may write in between to an effect, in particular between the final
check and the rename. `unseen` and `raced` are auxiliary, for the operation that runs.
Nanocodex's own handle is external (`Refresh`).

**RecordReader** runs over every input and every chunking. `DropFuture` is the
`select!` that drops a waiting `read_record`. The rules are stated on the whole input,
apart from the algorithm: `LineTo` is the line before a position, `Framed` the records
of the first bytes, `FramedAtEnd` adds what follows the last line feed, and `Overlong`
says that a line exceeds the limit.

## 3. Runs

| Run | What it checks | Bounds |
|---|---|---|
| `server_commands` | `EveryCommandAnswered`, `OneVerdictPerCommand`, `CancelReasonAcknowledged`, `FatalErrorDecides` | any record kind, 3 ids, command limit 3, 4 records |
| `server_protocol` | `TypeOK`, `ExitAgreesWithOutput`, `NoSilentGap`, `RefinesTurnProtocol` | every kind of outcome, 2 sessions, command limit 1, 4 events, 2 slots |
| `bridge_safety` | `TurnTypeOK`, `CompletionIsRecognized`, `UncausedCancellationExplained`, `ControlCalledOnce` | one start and one cancel, both calls may hang, 3 event notices |
| `bridge_liveness` | `CancelledTurnSettles`, `StoppedProcessEnds`, `ExactCancelAnswered` | as above with a malformed record, no notice but the acceptance, the exact call may hang |
| `event_path` | `TypeOK`, `WithinBudget`, `GapsMarked`, `StdoutNamesEveryGap`, `StdoutWithinBudget`, `TurnEndsDespiteBlockedStdout` | 4 events of 6 size classes, channel of 2, 1 slot |
| `strict_json` | `TypeOK`, `RefusesExactly`, `ValidatorAgrees` | every document of at most 5 values and depth 3, and one value beyond |
| `resume_chain` | `TypeOK`, `PublishedIsResumable`, `ExplicitModelRuns`, `ResultNeverReplaced`, `ResumedPathIsReal`, `SessionKeepsModelAndPlace` | 3 paths, 2 models, 7 snapshots around the limits, any number of processes |
| `managed_auth` | `TypeOK`, `HandleMatchesStaged`, `AnswerIsCurrent`, `ExternalWinsTheCheck`, `OperationAdvances`, `OperationEnds` | 3 contents of 3 qualities, 3 attempts, any number of writes |
| `record_reader` | `TypeOK`, `FramingIsExact`, `LimitIsExact`, `InputIsRead` | all inputs of at most 5 bytes, limit 2 |
| `bridge_fallback`, `event_limit`, `server_overwrite` | one documented claim each, which the code violates (section 6) | |

Why the bounds are enough.

* One turn takes one start and, as a second cancellation is refused whatever came
  first, two commands after it show every order of accepted, refused and repeated
  commands; a third id lets a duplicate and a fresh command meet. `MaxUnread = 1`:
  the server reads one record at a time and nothing looks at the unread ones, so a
  longer queue adds only states in which the client wrote earlier. The ids are
  symmetric and `server_commands` uses that; no other run does.
* The command limit is 1 to 3 in the runs (256 in the code): the client can reach it,
  and exceed it, in the loop and in the drain. In `server_commands` two commands fit
  and a third record is in excess. In `server_protocol` the limit is 1, which leaves room
  for every outcome and four events but for no command: there the record after
  `turn.start` is already in excess, and the `Answer` step of `TurnProtocol` is covered
  by the theorem `ServerImplementsProtocol` and not by TLC.
* `server_protocol` has twice as many events as slots, so that the queue fills, a
  marker finds no room, room returns and fills again. Queue order does not
  otherwise depend on length.
* `bridge_safety` allows three event notices: one streamed, the terminal event, and
  the marker `finish` may send.
* `EventPath.cfg` and `EventLimit.cfg` have a reserve of 1, a per-event limit of 4 and
  a budget of 9: events exactly at and one over each limit, raw and projected, and a
  budget that the third event can meet, with an event that still fits afterwards.
  With one output slot and a channel of two, four events fill either stage, both at
  once, and drop the marker of the first in the second.
* `StrictJson.cfg` gives every limit a value that a document of five values reaches
  and exceeds: two members or elements, depth three, strings and keys of the limit
  and one byte more. The limits are compared one value at a time, so larger ones
  only delay the comparison. Two short keys let one be repeated or not.
* `ResumeChain.cfg`: a directory, a possible link to it, and a name no JSON string
  spells; a snapshot that is small, exactly at the byte limit, over it, and at and
  one over the node and depth limits of its envelope. 12, 6 and 19 bytes stand for
  24, 15 and 40 MiB: input limit, snapshot limit and one byte of frame fit the
  output limit exactly, which is what `OutputHoldsResult` assumes; the final text is
  at most the snapshot that contains it. Nothing bounds the number of turns.
* `bridge_liveness` has room for one notice, and so the only one is the acceptance; no
  event finds the channel or the slots full there. Its questions are about the token,
  the calls and the terminal; that a full channel and taken slots do not hold back the
  terminal is `TurnEndsDespiteBlockedStdout` of `event_path`.
* Three contents let the document of the bridge, the one another process wrote and a
  third one differ in each of the up to three attempts. Nothing bounds how often the
  file is replaced: an operation that started again without counting would never end.
* Five bytes with a limit of 2 hold a record of exactly the limit followed by
  another, blank lines, carriage returns inside and at the end, and overlong lines.

`EventPath.cfg`, `EventLimit.cfg`, `StrictJson.cfg` and `RecordReader.cfg` do not check
deadlock: a turn whose terminal is written, a document that is ruled on, and a
reader that has ended or failed stop. The server has the explicit stutter `Done`
after its exit instead, and in `ResumeChain` another process can always start.

## 4. Fairness

`FairBridgeSpec` of `NanocodexTurn` is the fairness of the composition, and so no
contract of the backend is assumed: the runner is the real one. `tokio::select!`
polls its ready branches in random order; one weak fairness condition for all
branches of the server is enough, because each is taken finitely often before it is
disabled. The runner has one too, and so has the supervised exact cancellation,
which has a timeout. The agent is assumed to answer the `TurnControl::cancel` calls
it does not hang on (`HangingCalls`) and to stop once it was told to. In `bridge_liveness`
it may leave the exact call unanswered: `ExactCancelAnswered` then rests on the limit
alone. The other two properties except the turns in which that limit had to be used
(`timedOut`), because those need not end: `FallbackRemainsAvailable` shows it. Nothing
makes a client write or close, a signal arrive, or an agent nobody cancels finish.

The writer has no fairness: nothing makes a client read stdout. `CancelledTurnSettles`
and `ExactCancelAnswered` therefore hold even if nobody ever reads; only
`StoppedProcessEnds`, that the process exits, has the premise `OutputDrains`, since
`finish_writer` waits without a limit and no signal is looked at then.

`FairPathSpec` of `EventPath` has the server's steps and `finish`, and likewise no
writer: the terminal is queued however long stdout is blocked. In `ManagedAuth`, an operation that has
begun goes on: no lock or file operation in it waits for another process, and
Nanocodex's handle is assumed to answer or fail (a caller that gives up is `Abandon`).
In `RecordReader`, a read that is dropped whenever input arrives may starve, which
random polling excludes: hence strong fairness for its steps.

## 5. Proofs

Every invariant and every action property that a passing run checks is proved for
every value of the constants, and so is the refinement of `TurnProtocol`. Most are
invariance proofs: an invariant that holds initially, that each action preserves (one
lemma or step per action or per conjunct), and that implies the property.

* `BridgeServerProofs!TypeCorrect`: `TypeOK` for any commands, sessions, capacities and
  limits, from `BoundsAssumption`, `NamesAssumption` and `EnvironmentAssumption`.
  `TypeOK` is not inductive: a terminal is typed only if an outcome is present
  wherever one is used (`OutcomeKnown`), and settling the exact cancellation only if
  a pending command and its task go together (`ExactTracked`).
* `BridgeOutputProofs`: the six properties of the server about its whole output
  (`AllCommandsAnswered`, `VerdictsAreSingle`, `ReasonsAcknowledged`,
  `FatalErrorsDecide`, `ExitCodesAgree`, `GapsAreMarked`), from one invariant `OutInv`.
  The proof first says what one step may add to the output (`OutputMoves`), do to the
  commands (`CommandMoves`) and to the notices (`ChannelMoves`); each conjunct then
  follows from these and not from 30 actions. What the properties need beyond
  themselves:
    * which phases have a turn, and that no notice is left when settling begins
      (`Lifecycle`); that the terminal is the last record and a failed writer left
      one unwritten (`OutputShape`);
    * that answered ids are spent and the pending command has no verdict yet
      (`AnswersKnown`), without which settling it could be a second verdict;
    * that a cause which is a client's was acknowledged, in any phase
      (`CauseAcknowledged`): the reason is used long after it was set;
    * that the verdict in hand agrees with the terminal already queued
      (`VerdictAgrees`), since the writer may fail between the two and the exit;
    * that the notices hold every event number up to the last produced
      (`NoticesInOrder`) and that, unless a marker is owed, the next of them follows
      the last event in the output (`NextEventFollows`).
* `BridgeOutputProofs!ServerImplementsProtocol`: the refinement of `TurnProtocol`. The
  initial states correspond, and each kind of step that `OutputMoves` allows maps to
  a step of the protocol or to none.
* `NanocodexTurnProofs!BridgeImplementsServer`: every step of the composition is a step of
  `BridgeServer` with its most general backend. All the theorems above therefore
  hold of the server with the real runner; `BridgeImplementsProtocol` is one of them.
* `NanocodexTurnProofs!TurnTypeCorrect`, `CompletionRecognized`, `UncausedExplained`,
  `ControlOnce`: what server and runner know of each other. The invariant carries
  that the session is one, accepted or still in a notice (`SessionShared`); that the
  `issued` flag is the permission to call and is taken only after the turn was
  offered (`ControlShared`); and that a token has a cause, and an issued call a cause,
  an error, a pending command or a refusal on the output behind it
  (`CancellationTraced`, `Explained`).
* `EventPathProofs!ForwarderTypeCorrect` and `BudgetKept`: for any event sizes,
  reserve and limits. The strengthening `Covered` says that the weight of what was sent
  and of the marker still owed (`Weight`) is at most the charges, plus one reserve
  once the limit was reported, and that the charges leave that reserve free. This is
  why `ExceedsBudget` adds the reserve although the marker of the limit is never
  charged, and why backpressure markers need no charge: each stands for an event
  that was charged at least as much and then dropped.
* `EventPathProofs!EveryGapIsMarked`: no event is lost in silence, whatever the sizes.
  `GapsMarked` is not inductive alone: that a marker goes in at exactly the place of the
  events it stands for follows only because nothing sent carries a later number, that
  the limit has left no number behind it is known only from where it was met, and a
  finished forwarder must be known to owe nothing (`Settlement`). `Gaps` states the
  property of a channel, a number and a debt, so that it can be followed through the two
  `try_send`s of one event.
* `EventPathProofs!PathImplementsForwarder`, `GapsReachStdout`: the forwarder is in the
  path as it is, and what it names in the channel the output names too. `HandedOn`
  says so of every notice handled so far: its event is in the output or covered by a
  marker in its place, or by the one that is pending; if the notice is itself a
  marker, the same holds of every number it stands for. `SettledLast` says that at the
  terminal nothing is left in the channel or pending.
* `EventPathProofs!BudgetReachesStdout`: the sum over the whole output. The notices
  handled pay for what is out and for the marker that is pending (`Paid`): a marker of
  the second queue stands for a notice that weighs at least as much and was left out.
* `ManagedAuthProofs!AuthTypeCorrect`, `HandleAlwaysMatches`, `AnswersAreCurrent`,
  `ExternalWins`: for any number of documents, attempts and external writes. The
  strengthenings:
  a bearer in hand is the staged document's unless something was adopted since
  (`InHand`), after an adoption the baseline is the staged document (`Adopted`), and
  between check and rename only a document counted as raced can differ from the
  baseline (`Interval`).
* `ManagedAuthProofs!OperationsAdvance`: each step of a running operation decreases
  `Remaining`, a natural number of at most six for each attempt, and what others write
  does not increase it. This is the safety half of `OperationEnds`; that a step is
  always taken is the fairness, and stays with TLC.
* `ResumeChainProofs`: `ChainTypeCorrect`, `PublishedCanBeResumed`,
  `ResultsArePublished`, `NamedModelRuns`, `SessionNeverDrifts`, `AdmittedPathIsReal`, for
  any names, snapshots and limits that satisfy `ResumeAssumption`,
  `NoCheckpointAssumption` and, for the results, `OutputHoldsResult` (a snapshot,
  an input record and the frame of a terminal together fit an output record; the limits
  of `capabilities.rs` are 24, 15 and 40 MiB). Others
  change the file system between any two steps, so the invariant may speak only of
  what this process has seen and passed: its prompt was allowed and the snapshot it
  resumes is the client's (`Chained`), its workspace is the stored one (`Admitted`), its
  model is the stored one (`ModelAgreed`); and of the last snapshot published, that it
  was measured and decodes in its envelope (`Tested`).
* `RecordReaderProofs!ReaderTypeCorrect`, `FramingKept`, `LimitKept`: for any bytes, input
  and limit. `ReaderInv` adds that no line consumed so far is overlong (`LinesFit`) and
  what the end of input means for positions (`EndIsReached`). The lemmas on `LineTo` and
  `Framed` say how a line and the records grow by a chunk with and without a line feed.
* `StrictJsonProofs!JsonTypeCorrect`, `RefusalIsExact`, `ValidatorsAgree`: for any limits,
  keys and documents. The parser's frames know depth, count and keys only of the open
  containers; `FrameOf` says that these are the `Depths` and `Members` of the whole
  document, and `NextFits` what one more value must not do to one that fits. Exactness
  is subtle in one place: an overlong key is refused before it is compared, and is no
  duplicate, because every key before it fits. For `validate_value`, `Seen` says that
  the values looked at grow from the root and the stack holds exactly their other
  children; at an empty stack they are all (`SeenAll`, by the least value not seen),
  and each has passed its checks, so the two agree although they go in different orders.

Facts about sequences of any length are proved by the least number at which they would
fail (`LeastNatural`, from the well-foundedness of the natural numbers). A recursive
function is used through its equation: one lemma shows that some function solves it, so
that the `CHOOSE` behind the definition does, and the others speak of solutions (`Sums`,
`Frames`, `SolvesDepths`).

Only model-checked: all liveness, that is `CancelledTurnSettles`, `StoppedProcessEnds`,
`ExactCancelAnswered`, `TurnEndsDespiteBlockedStdout`, `InputIsRead` and `OperationEnds`,
because TLAPS cannot reason about the `ENABLED` in a fairness condition here. No module
uses a `RECURSIVE` operator.

## 6. Where the code and its documents disagree

1. `bridge_fallback`. `docs/spec.md` 656: "Fallback cancellation remains available when
   that exact acknowledgement hangs, panics, or races completion." The exact call sets
   the shared flag before it waits (`backend.rs` 87), and the fallback calls nothing
   when the flag is set (`backend.rs` 328). If the exact call is never answered, the
   fallback does nothing, its `select!` branch stays ready, and the turn ends only if the
   agent ends it.
2. `event_limit`. `docs/spec.md` 576: "Emitted at most once; later events are
   suppressed." Only events that are over the budget themselves are (`backend.rs`
   1273–1292); a smaller one is forwarded after the marker of the limit.
3. `server_overwrite`. `docs/spec.md` 461: a cancellation that times out or panics
   "settles an accepted turn as `turn.failed`/`internal`". A fatal record that is read
   afterwards overwrites that error (`server.rs` 322, 342, 431, where 269 tests first):
   the turn fails as a protocol error and exits with 2.

One more, without a run, since no step of the code contradicts another: `docs/spec.md`
349 describes the envelope a snapshot is tested in as one with "all option keys
present". `maximal_resume_options` (`backend.rs` 522) writes every key but `model`.
`PublishedIsResumable` is therefore about the command that inherits the model; a
resume that repeats the option is larger than what was tested, and may exceed the
input limit by its length or the node limit by one. The specification leaves the
size of a later command to its caller.

Another, of `docs/spec.md` 463–466: "If backend completion or external EOF/signal/EPIPE
wins first, the bridge aborts the still-pending exact task and emits `command.rejected`
with `turn_not_cancellable` before the terminal. An external initiating cause still owns
the resulting cancellation reason." The code aborts the task only when the backend has
returned (`server.rs` 387). End of input, a signal or a lost output cancel the token and
leave the loop running (330–337, 353–371): until the backend returns, the agent may still
accept the command, and the limit may still pass. In the second case 269 sets the fatal
error and the terminal is `turn.failed` (442–448), although the cause stays the external
one. The model does what the code does (`SignalDuringTurn`, `ReadEndOfInput`,
`ExactCancelDone`). It has no run of its own, since the sentence can be read of a backend
that returns within the second.

## 7. Plan

Done, in this order: `BridgeServer` with its abstract protocol and its type theorem;
`EventForwarder` with its proofs; `NanocodexTurn`; `ManagedAuth` with its proofs;
`RecordReader`; liveness of the composition with an unfair writer; `EventPath`;
`StrictJson`; `ResumeChain` with its proofs; then the proofs of `GapsMarked`, of the
server's output and its refinement, of server and runner together, of both stages of
the event path, of the record reader and of the JSON parser.

Next:

1. The notice channel of `NanocodexTurn` is a reduction of `EventForwarder`, by hand: a
   refinement between the two would prove it.
2. `RecordReader` and `StrictJson` meet `BridgeServer` only in the outcome of a record.
   A theorem that a dropped read cannot lose a command needs one module for both.
3. `ResumeChain` compares sizes where the code calls `validate_value`. `ValidatorsAgree`
   is why one comparison stands for both implementations; a theorem would say so.

Not modelled, and why:

* Nanocodex itself (external), and the OS behind stdin, stdout and signals.
* Which characters an identifier or a cancellation reason may have (`protocol.rs` 112–134,
  93–97): functions of one string without state, which unit tests cover.
* The tables that map upstream errors to public codes (`backend.rs` 1402–1674, `error.rs`)
  and the fields an event projection keeps: data without state.
* The command line and the capability document (constants and I/O), and the bounded
  shutdown of the runtime, which happens after everything a client can observe of the
  protocol.
* Build scripts, schemas, packaging and release files.
