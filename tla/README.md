# ccmux-core in TLA+

ccmux-core follows Claude Code sessions that run inside tmux. It reads the hook
events that claude-tap appends to `events.jsonl`, keeps one of four states per
session, types prompts into the pane, answers permission dialogs over a socket, and
keeps `bindings.json`, the registry of which claude session sits in which tmux
session; `ccmux-core watch` shows one of them in a terminal. This directory models that
core, checks it with TLC and proves its safety properties with TLAPS. Paths below are
relative to `src/src/ccmux_core/`.

## 1. Inventory

| Component | State it keeps | Operations | Modelled in |
|---|---|---|---|
| Transition functions (`state_machine.py`, `state.py`) | none | `apply`, `apply_safety_net` | `SessionState`, `StateMachine` |
| Backend tasks (`backend.py`) | `_state`, `_primary`, `_known_session_ids`, five queues, `_pending`, `_live_phase_event`, `_stopped`, nine tasks | event consumer, live-phase entry, fallback timer, message and spinner consumers, grace timer, process probe, `send_prompt`, `interrupt`, `drop_to_tui`, `__aexit__` | `Backend` |
| Decision socket of a Backend (`backend.py`) | the listener, `Blocked.request_id`, `Blocked.expired` | `respond_permission`, `respond_question`, `respond_exit_plan`, `drop_to_tui`, `_decision_consumer` | `Decisions` |
| Binding fold (`bindings.py`) | one entry per tmux session | `_step` | `Binding`, `Mirror` |
| Registry (`bindings.py`) | `bindings.json`, its `.tmp` and `.lock`, the tracker's memory and file position | `BindingsTracker`, `snapshot`, `_atomic_write`, `load_bindings` | `Registry` |
| Discovery (`bindings.py`) | the names yielded, its fold and file position | `list_live_tmux_bindings`, `discover_tmux_sessions` | `Discovery` |
| Key injection (`keys.py`) | none | `send_keys` | two actions of `Backend` |
| Messages, errors (`message.py`, `error.py`) | none | data classes | no |
| Configuration (`config.py`, `__init__.py`) | the environment | loading of `settings.env`, aliases, readers | `Settings` |
| Watch (`cli.py`, `watch`) | the terminal, two panes, a status bar | four pumps over the iterators, resize handler, teardown | `Streams`, `Watch` |
| Other subcommands (`cli.py`) | none | `list`, `version`, `bindings snapshot` | no |

How they interact. All tasks of a Backend share its fields on one asyncio loop: what
lies between two awaits is atomic, and the hard behaviours are at the awaits. Key
injection is one of them (`asyncio.to_thread`, once per key), so a flush of queued
prompts suspends its task three times while others run. claude, claude-tap, tmux, the
user and the client run beside the loop. The tracker and `snapshot` are two processes
that share a file and an advisory lock. The state machine and the registry fold the
same log with two separately written functions, and discovery folds its end with one of
them. `watch` is a client of one Backend: four coroutines of one loop read four of its
iterators and paint one terminal, between them runs the handler of SIGWINCH, and the
end of the session, Ctrl-C or a broken pipe ends it all. The environment is filled
once, by the import order of three packages.

What makes each correct:

* transition functions: Dead absorbs every trigger, the primary is tracked through `/clear`,
  resumed sessions and subagents, only a visible change is emitted;
* Backend: prompts are neither stranded, lost nor typed twice, `states()` does not fall
  behind but for what `drop_to_tui` marks, the end of a session releases every consumer,
  leaving it terminates and silences it, and nothing happens to the state but the
  transition functions and that mark;
* decisions: a dropped request is never answered, an expired dialog is really in the
  terminal, the hooks of other sessions are let go as long as the session lives;
* registry: entries make sense, the file is always whole and changes atomically, a
  tracker keeps it exact, the lock is always freed;
* discovery: a session that attaches is yielded, as the registry and its future
  Backend have it;
* watch: the screen is what drawing it anew would give, panes hold the latest
  messages, the end of the session is shown and ends the command, the user's terminal
  is given back;
* settings: of the five places that may set a knob, the documented one wins.

The hazards behind these, each at its line, are in `PROJECT.json`.

## 2. Modules

| Module | What it is |
|---|---|
| `SessionState` | states, hook events, `Apply`, `ApplySafetyNet`; no variables |
| `StateMachine` | abstract specification: the triple (state, primary, known) under events, triggers and `drop_to_tui`, one at a time |
| `Backend` | the tasks of one Backend; implements `StateMachine` |
| `BackendClaims` | sentences of the documents that the code does not satisfy |
| `Decisions` | the decision socket, its two sides and its clients |
| `Binding` | the entry of a tmux session and the fold `Step`; no variables |
| `Mirror` | `Apply` and `Step` on the same log |
| `Discovery` | `discover_tmux_sessions` beside `Mirror`'s log and folds |
| `AtomicFile` | abstract specification: a file that goes from one whole document to another |
| `Registry` | `bindings.json`, tracker and snapshot; implements `AtomicFile` |
| `Streams` | the contents of the queues a client reads, from the live phase on |
| `Watch` | the watch command over `Streams` |
| `Settings` | the environment over the import of ccmux_core |
| `MCBackend`, `MCDecisions`, `MCDiscovery`, `MCRegistry`, `MCWatch`, `MCSettings` | instances for TLC |
| `SessionStateProofs`, `BackendProofs`, `DecisionsProofs`, `BindingProofs`, `MirrorProofs`, `RegistryProofs`, `WatchProofs`, `SettingsProofs` | theorems (`MirrorProofs` has those of `Discovery`, too) |

`Backend`, `Decisions`, `Binding` and `Streams` extend `SessionState`; `Mirror` and
`Registry` extend `Binding`, `Discovery` extends `Mirror`, `Watch` extends `Streams`;
`Backend` instantiates `StateMachine` and `Registry` instantiates `AtomicFile`.

### Backend

`state`, `primary`, `known`, `pending`, `live`, `stopped` and `statesQ` are the fields of
the same meaning; `ended` holds the queues with an `_END`; `pc[t]` says where task t is
suspended; `job[t]` holds the keys t has handed to its worker thread. An action is what
a task does between two awaits that suspend it:

* event consumer: `ReplayEvent`, `LiveEvent`, `EventEntered` and `EventFlushed` (after the
  two flushes it may be suspended in), `EventStop`;
* live phase: `FallbackFires`, `FallbackEntered`, `OnLive`;
* the tasks it starts: `MessageStop`, `SpinnerStart`, `SpinnerEnds`, `GraceTick`,
  `GraceFlushed`, `GraceStop`, `ProbeFails`, `ProbeStop`;
* `KeyDelivered` and `KeyFails` for every key under way, which end the task or the
  call when they fail;
* `SendPrompt`, `Interrupt`, `Return` of a client's coroutine, and `DropToTui`, which with
  a request id suspends with the state it has read in `held[c]`, and `DropMarks`, which
  writes that state back, marked, or raises with the listener;
* `ExitBegins`, `ExitSnapshot`, `ExitCancels` for `__aexit__`, with its order of
  cancellation. A cancelled task leaves the key of its thread under way;
* the world: `BacklogRead`, `ClaudeExits`, `PaneKilled`.

Abstractions: `tool_input` and `Dead.detail` are left out, so two states that differ in
them only are one; the contents of the events, messages, transcript and spinner
queues are left out, their ends are kept; what the grace timer reads of the spinner
monitor is nondeterministic; `EventStream` hands over the backlog without letting go of
the loop, so the fallback does not fire inside the replay; the decision consumer and
its listener are awaited in one step of `__aexit__`.

### Decisions

`hook[r]` says whether the hook of request r waits (external, claude-tap), `log` what the
event consumer has still to read, `queue` and `releasing` what `_decision_consumer` has,
`op[c]` which call a client is in, with the state it read before its await. `drop_to_tui`
is `Drop`, `DropReleases` (the listener has let the hook go) and `DropMarks`, which writes
back the state read before. A call whose guard fails raises and is not a step. The
listener may raise wherever it is awaited: in a call (`CallRaises`), or in the decision
consumer, which then ends (`ConsumerFails`). The consumer also ends when it takes a
request after `_stopped` is set, and does not let that request go (`ConsumerTakes`);
`consuming` says that it has not ended. Of the Backend's tasks only the fold is here, of
events (`EventRead`) and of the safety-net triggers in the constant `Pulled` (`Trigger`).
With `Serial` a session whose hook waits logs nothing meanwhile; without it, anything.

### Binding, Mirror, Registry

A timestamp is the number of its line in the log, 0 is `None`; pane and window change
together and are one. `Registry` has `_atomic_write` in the steps another process can
see (`TakeLock`, `OpenTmp`, `FillTmp`, `Replace`, and `WriteFails` in place of any of
them, the opening of the lock and the `os.replace` included), the tracker's start in the
two that `events.jsonl` can grow between (`TrackerLoads`, `TrackerSeeks`, and `TrackerOpens`
for a log that does not exist yet), `TrackerReads` for a line and the flush it may cause,
`TrackerExits`, `SnapshotReads`, and `Crash`. A flush of the tracker blocks its loop, so the
tracker reads nothing until the write is done. `all` is the fold of the whole log, kept
beside it; `missed` records that some line can have been lost for the file: logged
with no tracker at the log, left unread at an exit, lost in a crash or a failed write,
or overtaken by a snapshot. For `AtomicFile` the file of a reader is `file`, and what a
writer offers is every payload it may still put there: `RefinesAtomicFile` says that
neither the shared `.tmp` file nor a crash lets anything else through.

`Mirror` assumes that a `session_start` names its session. With an empty id `apply` makes
"" the primary (`state_machine.py:85-92`) and `_step` skips the line
(`bindings.py:193-194`), so the two folds differ from there on. Other events may lack it.

`Discovery` adds the generator: `Starts` (with or without `include_existing`), `Resumes`
after a yield, `Opens` at the end of the log, `Reads` for a line, which is folded into a
map that began empty. Each unread line carries the folds of the registry and of a
Backend at that line, to compare with; `clean` records that nobody was attached at the
seek. Without that the code misreads what follows: the next `session_start`, a
subagent's, attaches in its map. Three more things it does are in the model and judged
by no property: a session that starts between the listing and the seek is never
yielded; with `include_existing=False` a session known before is yielded at its next
`session_start`; a yielded session may have ended before its line is read.

### Streams, Watch

`Streams` is the complement of `Backend`: what `events()`, `messages()`, `spinners()` and
`states()` carry, with each consumer's step atomic, as it is for a client that sends no
prompt. The live phase begins with any state of the constant `Baselines`.

`Watch` has a `mode` for what the options and the terminal make of the output: a bar with
two panes, blocks below one another, or records. `screen` is a grid of rows by three
columns with the terminal's scroll region; `panes` are the two `Pane` objects; `out` are
the rows of a tty, with the marker that lets a spinner's block overwrite the one before;
`handler` is SIGWINCH. A pump's step is an item (`PumpState`, `PumpEvent`, `PumpMessage`,
`PumpSpinner`), `PumpEnds` or `PumpFails`; `OnResize` runs between any two of them, later
than the `Resize` of the terminal. `Interrupt`, `Gather`, `Returns` are the ends: all pumps
done, or one failed; then `Backend.__aexit__`; then `finally`.

The marker holds the number of the block's newlines (`cli.py:1059`), and a tty narrower
than the separator (`pretty_width`, 100 by default, `config.py:62`), a title or a text
breaks their lines. `Wraps` says by how many rows a block may be taller than its lines:
0 on a tty that is wide enough. What a terminal makes of its text when resized is `Junk`.
Words, colours, ages and other widths are left out. With a bar the panes are wide enough
for a title, and a terminal has at least 13 rows: below that the bar is drawn over the
header.

### Settings

One key of each kind (a knob, an alias, the upstream key behind it), five places that
may set it, two state directories. `Starts` forms the paths, `LoadCwd` and `LoadGlobal` read
the files, `MirrorAliases` and `ImportTap` follow. The path of the global file is formed
before `./settings.env` is read, so a `CCMUX_CORE_DIR` in the latter moves the state but
not the settings: `Priority` speaks of the file that was read. The docstring of
`_load_settings_env_files` has "later wins among files", which `setdefault` contradicts;
the order checked is that of the repository's README, "Resolution priority".

## 3. Runs

| Run | Checks | Bounds |
|---|---|---|
| `backend_prompts` | `NoStrandedPrompt`, `StatesFollowState`, `TypedOnce`, `PromptsKept`, `DeadTransitionEnds`, `DeadStays`, `RefinesStateMachine` | 3 events, a permission request among them, 2 calls, 1 fault, the pane may be killed |
| `backend_ends` | `TypeOK`, `EndsAreExplained`, `EventuallyLive`, `ClaudeGoneEnds`, `ExitCompletes`, `ExitQuiet` | 2 events, both kinds of dialog among them, 1 call, exit and claude's end at any moment |
| `decisions` | `TypeOK`, `ExpiredHookIsOver`, `DroppedStaysDropped`, `ForeignReleased` | 3 requests of 2 sessions, 2 clients, 2 other events, an end among them, 2 unread, the probe's trigger |
| `discovery` | `MirrorsUntilEnd`, `HistoryKnown`, `FoundExact`, `FoundEventually` | 2 sessions, 2 panes, logs of 5 lines |
| `registry` | `RecordsSound`, `FileWhole`, `TrackerExact`, `HistoryKept`, `LockFreed`, `RefinesAtomicFile` | 3 lines, 2 trackers, 1 snapshot |
| `watch` | `ScreenExact`, `PanesShowLatest`, `SpinnerBlocks`, `TerminalRestored`, `FinalShown`, `WatchReturns` | 3 baselines, 2 arrivals and the safety net's end, 18 or 22 rows, 1 resize, spinners wrapped by 0 or 1 rows |
| `settings` | `Priority` | every choice of places for three keys |

Why the bounds are enough. Three events are a turn with its start, its prompt and its
stop, its dialog, or its end; two calls are a queued prompt and one that meets its
flush, an interrupt, or a `drop_to_tui` that waits while the dialog is answered or the
session ends; one fault is one failed key in any place. Five lines take a session
through start, clear, restart, background exit and end, and an end may lack its id. Two
trackers and a snapshot are every pair of writers, and a restart over what the first
left. In terminals of 18 and 22 rows a pane has room for one block and for two, so two
messages fill a pane, overflow it, and are trimmed by a resize; two activities are a
block written over another of a different height or wrapped, and an item of another pump
may come between; only a spinner's block is ever written over, so a wrapped message
shows nothing else. The theorems of section 4 have none of these bounds.

Bounds are guards of the actions that use them up, so that liveness is not cut off by
a state constraint; deadlock is not checked because every model may stop when its
events, calls or starts are used up, and a dead session has nothing left to do.

Fairness. asyncio runs each task that is ready, a tmux command returns or fails, the
backlog is finite, the capture of a lost pane fails, and the probe is periodic: these
actions have weak fairness in `Backend!FairSpec`. claude, the user and the client owe
nothing. `ClaudeGoneEnds` therefore rests on the probe and the spinner consumer alone.
In `Decisions` only the decision consumer is fair, as long as it has not ended. In
`Registry` a writer goes on through `_atomic_write`, and a process that holds the lock
writes, fails or dies; that the system hands a free lock to a waiting process is the
weak fairness of `TakeLock`, which is enough as there are two writers and finitely many
writes. The generator of `Discovery` polls its file; its client may leave it suspended
for ever. In `Watch` the fairness is of the loop as a whole (`WF_tasks(Loop)`): some
ready pump or the end of the command goes on, not each of them; `WatchReturns` says
"when the session is over" and so needs nothing of the Backend.

Three properties name what the code does not keep:

* `StatesFollowState`: `drop_to_tui` stores a Blocked with `expired` set and puts nothing on
  `_states_q` (`backend.py:580`), so from there to the next transition `states()` shows
  something else: the same dialog without the mark, or the newer state that the mark has
  overwritten. `state.py:7-8` has a transition emitted when any field differs.
  `DeadStays` has the same exception, and one for the event held in `_enter_live_phase`.
* `ForeignReleased` holds while `_decision_consumer` runs. The first request after Dead ends
  it (`backend.py:612-613`), as any exception of the listener does (`620-621`). That request
  and the later ones are let go by nobody, and their hooks wait for their timeout.
* `SpinnerBlocks` says which rows stay where a spinner's block is written over the one
  before it: those by which that one was taller than its newlines (`cli.py:483`, `1059`),
  which are none on a tty as wide as the separator, title and text.

Where the code and a sentence of the repository disagree, a run with the expectation
"violation" has the counterexample:

| Run | What happens |
|---|---|
| `dead_baseline` | a Dead baseline is shown on `states()`, and no other iterator ends |
| `interleaved_keys` | a `send_prompt` on Idle mixes its keys with those of a flush |
| `fallback_dies` | a failed flush ends the fallback timer before the live phase begins |
| `stale_dialog` | `drop_to_tui` overwrites a newer state by the Blocked it had read |
| `entries_deleted` | a payload built before the lock is taken deletes an entry |

The sentences are quoted in `PROJECT.json`, under "findings".

## 4. Proofs

All proofs hold for every value of the constants that satisfies the named assumptions:
the ids that stand for `None` and for an empty string are no session ids, callers are
no tasks, events are hook events (in `Streams`, too, whose `Primary` is a session id and
whose `Baselines` are states other than `None`), a `session_start` in `Mirror`'s log names
its session, what `Pulled` has are safety-net triggers, a terminal has 13 to 200 rows,
blocks wrap by natural numbers of rows, what a place sets is a value, requests and panes
are apart from their "none", `Torn` is no document.

* `BackendProofs!TypeCorrect`: `Spec => []TypeOK`. One lemma per group of actions, over
  lemmas about the shared pieces (`GotoTyped`, `FlushTyped`, `HandleTyped`, `TriggerTyped`)
  and those of `SessionStateProofs` about `Apply` and `ApplySafetyNet`.
* `BackendProofs!PromptsFlushed`, `StatesFollow`, `DeadEnds`, `Refinement`:
  `NoStrandedPrompt`, `StatesFollowState`, `DeadTransitionEnds` and
  `RefinesStateMachine`. The invariant is `LiveInv`: the two properties hold only in the
  live phase, and are made true by whoever enters it, possibly suspended in the flush of
  the baseline. So it adds `Entered`: while a task is suspended there, its baseline is
  the last thing shown and the queue was emptied, and the backlog is over. A write of
  `drop_to_tui` leaves a Blocked with `expired` set, which `StatesFollowState` exempts
  and in which no prompt waits. The refinement needs no invariant but the types: each
  action leaves the triple alone, applies one event or one trigger to it, or marks the
  dialog in it or one that a waiting call holds.
* `BackendProofs!PromptsTypedOnce`, `NoPromptLost`, `QuietAfterExit`, `EndsExplained`:
  `TypedOnce`, `PromptsKept`, `ExitQuiet`, `EndsAreExplained`. `TasksInv` says where a
  task may hold keys at all; `OneHome` that a prompt is in one place, the queue, one
  sender's keys or the pane, which no flush or failure breaks; `ExitInv` that, once
  `__aexit__` has listed the tasks, each that could flush is done or about to be
  cancelled, or is the grace timer that was not created yet and will find `_stopped`
  set.
* `BackendProofs!EndStays`: `DeadStays`, action by action from the types alone: once live
  and stopped, the event consumer is at its flush or done, and each trigger is one that
  `apply_safety_net` ignores on Dead (`DeadAbsorbs`). `apply` has no such guard, so a live
  event held in `_enter_live_phase` while the probe finds the end turns Dead into a state
  again; the property names that one place, and TLC has the behaviour. A call that
  waits in `drop_to_tui` holds a Blocked state (`ClientsOK`), so what it writes is expired.
* `DecisionsProofs!DecisionsTyped`, `ExpiredOver`, `DroppedStays`: `TypeOK`,
  `ExpiredHookIsOver` and `DroppedStaysDropped`. `DecisionsInv` adds that a call holds a
  Blocked state with a request (`CallsInv`), that a request in the log is in there once
  and is not shown, held by a call or dropped yet (`LogInv`), and that a dropped request
  is shown as expired only (`MetInv`). `LogInv` is why a stale state written back does
  no harm here: a hook asks once, so no event shows an old request unexpired again.
* `MirrorProofs!Mirrors`, `HistoryForwarded`: `MirrorsUntilEnd` and `HistoryKnown`, from
  `MirrorInv`, which adds that entries are sound and that Dead means a fatal end.
* `MirrorProofs!FoundIsExact`: `FoundExact`. `DiscoveryInv` adds that the unread lines lead,
  each by one step, to the registry's fold of the log, and that the generator's own fold
  agrees with the registry's at its position if it began with nobody attached.
* `BindingProofs`: `_step` keeps an entry sound (`StepSound`), and whom it attaches
  (`StepAttaches`).
* `RegistryProofs!EntriesSound`, `ReadersSeeWhole`: `RecordsSound` and `FileWhole`. `RegInv`
  says that every copy, in memory, on disk or about to be written, is a `Book` (sound
  entries no newer than the log), that one writer is past the lock and its `.tmp` is its
  payload, and that the tracker's unread lines are newer than all it has folded. The
  last is what keeps times in order, and needs that no handle is open between trackers.
* `RegistryProofs!FileAtomic`: `RefinesAtomicFile`, from `RegInv`: `Replace` is the
  `Commit` of the writer that has the lock, since what it filled the `.tmp` file with is
  its payload.
* `RegistryProofs!TrackerKeepsFile`: `TrackerExact`. `ExactInv` says how file and memory lag
  behind the log while nothing is missed. That they catch up is a statement about a
  fold, which needs no induction here: `CatchesUp` says that a chain of registries, one
  step per unread line, leads from the tracker's memory to the fold of the log, and each
  action lengthens or shortens that chain by one.
* `RegistryProofs!HistoryGrows`: `HistoryKept`. `KeptInv` says that, as long as no snapshot
  was taken, a tracker knows from its load on all that the file knows (`Covers`), and
  that what it is writing is its memory: the file can then only gain ids (`StepHosts`).
  Without the condition the property is false, as `entries_deleted` shows.
* `WatchProofs!TerminalGivenBack`: `TerminalRestored`. The handler may run after the
  teardown, and then paints; it sets no region because `_teardown_status` has disabled
  the bar (`TerminalInv`).
* `WatchProofs!EndShown`: `FinalShown`, from `EndInv`: a pump is done only when its queue is
  empty behind an `_END`, and that of `states()` only when it has read Dead.
* `WatchProofs!SpinnersOverwritten`: `SpinnerBlocks`, for every width of the terminal.
  `SpinnerInv` adds that the marker, if there is one, is as high as the last kept block has
  lines, wherever its rows end. A block's rows are those the cursor goes up over and, above
  them, those it does not reach (`RowsSplit`); cutting the former off the text leaves the
  blocks before and the latter (`CutLast`). What is left is about `FlattenSeq`, which is
  recursive: appending a block appends its rows (`FlattenAppend`), so dropping the last
  block drops them. The induction that needs goes over a set of numbers
  (`SetInduction`) and has a least element where it fails (`Least`), in place of a rule
  that takes an operator.
* `WatchProofs!LatestShown`: `PanesShowLatest`. `PanesInv` keeps each pane a window on
  the end of what its side has seen (`Window`): an append and a trim move or narrow the
  window.
* `WatchProofs!ScreenIsExact`: `ScreenExact`, from `ScreenInv`, which splits the screen
  as the code paints it: header and bar (`HeadExact`), which every item may repaint, and
  the area of the panes (`AreaExact`), of which a push touches only the rows of its
  slot, or all rows when the pane is full and moves up. That the slots of one pane tile
  its rows is the arithmetic the lemmas before it do.
* `SettingsProofs!PriorityHolds`: `Priority`. `SettingsInv` says phase by phase what the
  environment has: each `setdefault` adds a last place to a list that is read from its
  head, and `FirstOfThree` reads that list.

So every safety property that a run checks and expects to hold has a theorem. Only
model-checked are the liveness properties (`EventuallyLive`, `ClaudeGoneEnds`,
`ExitCompletes`, `ForeignReleased`, `LockFreed`, `FoundEventually`, `WatchReturns`),
which are out of the prover's reach, and the five counterexamples.

## 5. Not modelled

The other subcommands of the command line and its argument parsing; wording, colours and
ages of what `watch` shows, and its widths but for the rows that a spinner's block takes
more on a narrow terminal; terminals of less than 13 rows, or too narrow for the panes;
message classes and errors, which have no behaviour; the parsing of `settings.env`; the
raw JSON of events, answers and entries; a `session_start` without an id; malformed and
half-written log lines, which every reader skips or waits for; copy mode of a pane;
`transcript_items()` beyond its end; the socket's own protocol.

Behaviours that the models have and no property judges, because no document says what
should happen, are listed with their reason in `PROJECT.json`, under "hazards".

## 6. What is left

1. `Decisions`: runs about the assertion on `request_id`, about hooks that time out and
   about `expired`, which `states()` never shows.
2. `Backend` with the contents of `Streams`, so that a client that both reads and types
   is one model: flushes then suspend between the state and the message of an event.
3. Runs about `Dead(pane_lost)` at an exit and about a probe whose tmux command fails.
