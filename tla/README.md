# A TLA+ model of heimdall-qa

heimdall-qa replays HTTP cases against an API, checks what came back, and walks a
reviewer through the results. The part of it that is hard to get right is not the
checks but the walk: a worker thread sends cases and writes evidence, request threads
hand it verdicts, cancellations and focus requests, a browser watches, and every one
of them believes what it last saw. These modules model that walk from both ends, the
engine's threads and the reviewer's window, TLC checks them on small instances, and
TLAPS proves their safety for every instance.

## 1. Inventory

Paths are relative to `src/`; `S/` is `src/heimdall_qa/`, `W/` is
`desktop/webapp/src/`.

| component | state it keeps | operations | what is hard | what makes it correct |
| --- | --- | --- | --- | --- |
| **run engine** `S/engine.py` | phase, the plan and its current unit, tallies, the live session and its view, one verdict slot, a cancellation flag, `_target`/`_reached`/`_revision` | `start`, `submit_verdict`, `cancel`, `focus`, `wait_settled`, `wait_for_change`; the worker's `_walk`, `_run_unit`, `_await_verdict`, `_work` | request threads against the worker; unlocked reads; a thread that ends late | one writer; every input acted on and acknowledged; a verdict reaches the step it was given for; tallies are the rounds'; the end is told truthfully |
| **round session** `S/session.py` | phase, next index, case in flight, pane (`follow`, focus), pending step, records, human verdicts, step directories | `start`, `apply_verdict`, `cancel`, `focus`, `view` | focus on another thread; crash between disk and screen; two copies of the loop (cases, suite steps) | cases in order and once; only a human decides what needs one; screen behind disk; summary says what was decided |
| **suite runner** `S/suite_run.py` | records, photographs (probe *begins*), the oracle's book, `_failed` | loops, probes, polls, snapshots | a photograph must precede what it observes; polls race their deadline | a probe's delta is that of the events it names |
| **run plan** `S/plan.py` | none | scope to a list of units | completeness of the scope | each round and suite of a scope once |
| **step execution** `S/runner.py` and the modules under it | captures, last idempotency key, saturation counter | one step, one loop | captures from three sources; replay of a key | a replay carries the key of the last accepted mutation |
| **run store** `S/run_store.py` | `runs/<stamp>`, `runs/latest`, shared captures | create, write, publish | several processes without a lock | no run lost or mixed |
| **oracle and packs** `S/oracle.py`, `S/packs/` | the oracle's book | price, observe | same event seen through two probes | an event is booked once |
| **workspace** `S/workspace.py`, `S/collection.py` | tree, selection, running project, the node a plan was started from, a reopened run | select, focus, start, refresh, read and write files, open and close projects | shared by request threads without a lock; facts noted before the engine may refuse | the pane is the selection's; the parked row can always be found; the selection is a row of the tree |
| **review API** `S/serve/` | none of its own (event stream cursor) | REST and SSE | the order of answers and events | translates, decides nothing |
| **desktop client** `W/hooks/useHarness.ts`, `W/lib/` | last snapshot, busy flag, stream | read, write, reconnect | an old answer lands after a new one | the screen converges to the server's state |
| **review desk** `W/App.tsx`, `W/components/` (StepPane, CampaignPane, UnitCard, DonePane, StatusBar, CommandPalette) | the screen, the comment box, the form's pending answer | what each pane offers: select, walk the steps, start, cancel, answer | a screen behind the run; answers lost or pressed twice; panes that remount | leaving a parked step loses nothing; a comment stays with its step; a verdict is for the step that was seen |
| **source editor** `W/hooks/useSource.ts`, SourcePane, JsonEditor; `S/source.py` | document, text, saving; the file | open, type, revert, save, close | answers that land on a text that went on; a save cut off; two projects with the same path | saved means on disk; no keystroke is lost; a save reaches its own file |
| **server dialog** `W/components/ServerDialog.tsx` | what was read, busy | two switches, add and remove a project, reload | a press is a write and three reads; presses overlap | it tells the truth and its controls come back |
| **collection tree** `W/components/CollectionTree.tsx`, `W/lib/tree.ts` | collapsed branches, filter | open, shut, filter, select, create a folder, move a campaign | files change behind it; three answers to what is open | what is sought is drawn; the run is marked where it is (not modelled) |
| **embedded servers** `S/mcp/runtime.py`, `S/demo/` | thread, server, state | start, stop | slow start, slow stop, double start | the state that is told is the server's |
| **project registry** `S/projects.py` | `projects.yaml` | add, remove | read-modify-write without a shared lock | an open project remains |
| **log collector** `S/logs/collector.py` | none between calls | poll the sources until told or deadline | a line later than the deadline | a source that owes nothing is not awaited |
| authoring, validation, command line, spring reader | none | one-shot generators and checks | nothing concurrent | not modelled |

How they interact: the client calls the API; the API calls the workspace, which
resolves a scope to a plan and calls `RunEngine.start`. The engine's worker builds a
`RoundSession` per unit and drives it with calls; the session calls back
(`on_progress`) before each case and after each decision, and the engine publishes the
view it returns. Verdicts and cancellations travel the other way through two fields
under the engine's lock and a condition variable. `focus` bypasses the worker: it calls
into the session from a request thread. The session writes `verdict.json` per step and
`summary.json` per round through the run store. The stream wakes on the engine's
revision and sends a snapshot. The window draws the snapshot: `App` mounts the pane the
server names, and each pane offers controls that become requests, so what the reviewer can
do next is decided by a screen that may be older than the run.

PROJECT.json lists each component with what is and is not modelled, and every hazard
at its line.

## 2. Modules

| module | models | kind |
| --- | --- | --- |
| `PlanRun` | what a front end may assume of a plan's life | abstract specification |
| `SessionLife` | what the engine counts on from a session | abstract specification |
| `RunEngine` | `engine.py`, its lock and its threads | detailed; implements `PlanRun`, its sessions step as `SessionLife` |
| `RoundSession` | `session.py`, with what `suite_run.py` leaves behind | detailed; implements `SessionLife` |
| `ClientSync` | the client's reads, writes and stream (`useHarness.ts`, `sse.ts`) against the API that answers them | detailed |
| `ReviewDesk` | the panes and controls of the window over the selection, the panes and the focus of `workspace.py` and `session.py` | detailed |
| `SourceEditor` | `useSource.ts`, `SourcePane.tsx`, `JsonEditor.tsx` over `read_source` and `write_source` | detailed |
| `ServerPanel` | `ServerDialog.tsx` over the embedded servers, the open projects and the registry file | detailed |
| `MC...` of each detailed module | the small instances | for TLC |
| `...Proofs` of each detailed module | theorems | for TLAPS |

`SessionLife` is the joint between the two detailed modules. `RunEngine` has its own
copy of a session's phase and count because it composes several; `SessionsFollowLife`
says its copies only move as `SessionLife` does, and `ImplementsSessionLife` says the
real session moves as `SessionLife` does, so the engine's abstraction of a session is
one the session honours.

### RunEngine

One action is one critical section of the engine's lock together with the thread-local
work that leads up to it, or one unlocked read. So `Check` and `After` (the two
unlocked looks at `_cancel` in `_walk`) are steps of their own, `focus` is two
(`FocusGrab` reads the session, `FocusPublish` takes the lock), and `Await`/`Wake` are
the two halves of `_await_verdict` around the condition's wait. `pc[w]` is where
worker `w` is. The variables are the engine's fields, in their names;
`_plan` is `plan[runs]`. `silent` is an auxiliary: true between a change that is
observable and the next `_touch`. `Crash` is an exception no handler below `_work`
catches, wherever the code can raise one; `RefuseUnit` is one `_guarded_start` catches.

What a case contains is abstracted to whether it decides itself (`Decide`), asks a human
(`Park`) or raises. A verdict carries, besides `continue`, the step that was parked
when it was submitted: the code does not keep that, and `VerdictAnswersItsStep` is
about exactly this link, so the stamp is a history variable.

Abstractions. `focus` reads the session in one step and `view()` is atomic. The feed,
the clock, the captures and the ring of events steer no decision and are left out.
What a returned thread held is forgotten at the next `start`.

**Patient callers.** `start` refuses while the phase is busy, but the phase turns
terminal before the thread has returned. `Spec` lets a caller in between; `PatientSpec`
is a caller that waits until the thread is gone. Everything is checked and proved for
`PatientSpec`, type correctness for `Spec`, and the run `engine_overlap` shows what an
impatient caller gets (section 5).

### RoundSession

`Init` chooses the mode and whether the unit is a suite. The worker's actions are
`Advance` (the case is announced), `ExecuteCase`/`ExecuteLoop`/`ExecuteProbe` (it came
back), `Park`, `WriteAuto`/`WriteHuman` (`verdict.json`), `EnterAuto`/`EnterHuman` (the
queue), `ClearPending` (nothing is pending any more), `NextStep` (the index), `Finish`
(`summary.json`), `Close` (the phase). `Focus` may run between any two of them, since it is
called from a request thread and takes no lock; so the three assignments that end a
decision (`session.py:328-331`, `319-322`) are steps of their own: between the first and
the second a focus still sees the form over the row just entered. `Abort` is an exception
anywhere on the worker, but between those assignments, where nothing is called that could
raise one. The operators `Row`, `MaxFocus`, `EffectiveFocus`, `Awaiting`, `Live` and
`Decided` are what `view()` computes, because what the reviewer sees is what the
properties are about.

What is still one step: `view()` itself, and with it a focus; the assignments that take a
step back from the wire (`_pending`, `_inflight` and the directory that `_remember` notes);
and the two of `Park` (the phase, then the pane). A focus between the last two moves a pane
that is about to be moved.

A round's cases are taken to be distinct and so are a suite's probe ids: the code looks
rows up by id, and a case included twice would share its row (a listed hazard).

### ClientSync

JavaScript runs one turn of its event loop at a time, so one action is what happens
between two awaits: `FrameLands` (`onState`), `ReadLands` and `ReadFailed` (the part of
`refresh` after the answer, with the next turn of its loop), `SendWrite` and `WriteLands`
(`act` before and after its await), `Reconnect`. The refs keep their names: `latest`,
`refreshing`, `again` (`refreshAgain`), `epoch` (`mutationEpoch`), `issued`, `applied`.
Between turns the server moves (`Move`), a read is answered or fails, and a write is
performed, refused or loses its answer, and answered, in two steps as `_mutate` does.
`Connect`, `Break` and `ConnectFails` with `Fall` are the retries of `openStream`;
`StreamWake` and `StreamSend` the two awaits of `event_frames`, between which the engine
may move again.

A screen is abstracted to a photograph of the server: the engine's revision and how many
writes were performed by then, which stand for what other actors and what the reviewer
changed (a click that selects a row moves no revision). `workspace.view` is taken to be
atomic. A restarted server is not modelled: the revision would start over.

### ReviewDesk

`View` is the part of the bootstrap that decides what the reviewer can do, computed by the
operators of `workspace.py` and `session.py` under their names (`Pane`, `PendingKey`,
`IsLive`, `EffectiveFocus`, `HistoricalFor`); `screen` is the one drawn last, and lags behind the run until
the next read. Each component is an operator from a screen to the set of controls it
offers (`StepFooterOffers`, `CampaignPaneOffers`, `StatusBarOffers`, ...); `Offered` is their
union and `Use` what a control does. So a property such as "the way back is offered" is
about the components' own conditions, evaluated on a screen. `Draw` is React's part: a pane
is keyed by its name, so another name mounts a new `StepPane` with an empty box that waits
for no answer, and a new step under the same name only empties the box. A verdict form's
POST is handed to the engine (`HandOver`), answered (`Deliver`) or lost on either way
(`Lose`); `seen` and `note` are history: the step on screen when it was pressed and the one
its comment was written about.

The run is the least that moves a screen: rows come back, park, are decided, end. Its
detail is `RoundSession`'s and `RunEngine`'s, the order of answers `ClientSync`'s: a screen
drawn here is never older than the one before. Each project has one campaign with one
round. Two projects name their rounds differently; `Name` gives each row of a project its
case id, which the rows of a suite may repeat, and `RowOf` then finds the first. Opening a file unmounts the pane, which empties
the comment box as another pane does; the editor is `SourceEditor`.

### SourceEditor

One file, whose path exists in every open project, as round files do. `text` is what
Monaco holds, `document` the last answer, and each POST of a save goes through the server in
steps: the project is looked up and the temporary written (`WriteTemporary`), the rename
(`Replace`), the answer (`LandSave`); `Interrupt` cuts it off before the rename,
`LoseAnswer` after. Closing the pane forgets the answers that are out, and a new pane meets
what they do to the disk. Two variables observe what the pane cannot see: `known` says that it read
its own project's file and that nobody but it wrote that file since, and `lost` is what the
last save was sent with when its answer was lost.

### ServerPanel

`task[k]` is one press and how far it is: its write, then for most the three reads of
`reload`. Add and remove look at the registry file and the open projects and replace them
in separate steps (`ReadFile`/`WriteFile`, `ReadTree`/`WriteTree`), since no lock spans
them; a server's start or stop is one step, since one does. `Started` is every outcome of a
start: up, dead of a taken port, or alive behind an error because it took longer than it
was waited for (`ComeUp` is when it does come up). Any request or answer may be refused or
lost. The first creation of the demo's runtime (`sample.py:154`) and the port a forgotten
thread still holds are outside; a start that meets such a port is one that fails.

## 3. What the runs check

| run | instance | asks |
| --- | --- | --- |
| `engine` | plans: a round of two cases; a unit that cannot run, alone and before a round; a suite of two and a round. Two plans in a row, three inputs per plan | thirteen properties, below |
| `engine_overlap` | one round of one case, three starts | may two workers be at work? Yes |
| `session` | three steps, the second gated; loops of one or two iterations; both modes; rounds and suites | nine properties, below |
| `session_gate` | the same | is a gated step always a human's? Not in a suite |
| `client` | two moves of the engine, one write, one break, one retry | six properties, below |
| `client_stale` | the same | does the screen catch up at rest? No |
| `desk` | two projects, one with a round of two cases, one with a suite of the same step twice; a run on disk and one live, one POST | four properties, below |
| `desk_trap` | the same | is a parked run always reachable? No |
| `desk_verdict` | one project, two rows, one POST at a time | is a verdict for the step that was seen? No |
| `source` | two projects, two texts, two saves | four properties, below |
| `source_owner` | the same | does a save reach the file that was opened? No |
| `server` | the client's own project and the demo, two presses at once, four in a row, a slow MCP server | three properties, below |

Engine, over 252,593 distinct states:

- `SettledMeansActedOn`: whoever `wait_settled` releases on an awaiting engine finds no
  input pending and the worker parked on the engine's own session.
- `TerminalTellsTheTruth`: no terminal phase over a worker that still has work
  (`TerminalMeansStopped`), and `done` only when every unit that could run was built
  (`DoneMeansWalked`).
- `VerdictAnswersItsStep`: a verdict is applied to the step it was given for, whatever
  overwrites and cancellations came between.
- `CountsAreTheSessions`: a tally stored under a unit is that unit's, final, and none
  that finished is missing at the end.
- `NothingRestsUnannounced`: the stream is never left on a change nobody announced.
- `ImplementsPlanRun`: refinement, including that no human is asked after a stop.
- `SessionsFollowLife`: sessions move as `SessionLife` does.
- `NoInputIsStranded`: an input that is not acknowledged has a worker that is alive and,
  where it waits on the condition, has a reason to wake.
- `WalkGoesForward`: every step of a worker takes it to a later unit, case or stage,
  whatever a caller does, and not past its plan or its cases (`WalkFits`).
- `ViewsAreOfThePast`: `focus` may publish an older view over a newer one, never one that is
  ahead of the round.
- `InputsAcknowledged`, `CancelEndsPlan`: liveness. `wait_settled` returns; a cancelled
  plan ends.

Session, over 129,169 distinct states:

- `RowsAreOnDisk`: a verdict that is shown is on disk, so a crash takes nothing back.
- `FormIsForTheStepOnScreen`: the verdict form and the mark that asks for it are drawn only
  for a step that ran and that nothing undecided precedes, itself undecided but for the
  moment in which its human verdict is being entered (`BeingEntered`, section 5); the mark of
  a running case is on the first undecided row. A parked step
  can be answered (`ParkedCanBeAnswered`): its form is on screen while the pane follows the
  run, and one focus away when it does not.
- `SummaryIsTheVerdicts`: a round's summary is what its directories say, and the
  rejection rate is over what humans decided.
- `NobodySkipsTheHuman`: what no human decided is no failure, is in walk a skipped case, and
  is in a round of cases no gated step unless skipped. Of the gates of a suite it says
  nothing: `session_gate` shows what the code does there.
- `OneCaseAtATime`, `DecidedStaysDecided`: order, and no row ever changes.
- `ImplementsSessionLife`: refinement.
- `WorkerComesBack`: liveness.

Client, over 215,776 distinct states:

- `ReadsMoveForward`: a read never takes the screen back, behind a write or a read.
- `BurstIsServed`: at rest, when a read spoke last, the screen is at the engine's
  revision, whatever was coalesced, skipped or lost.
- `ChangeIsUnderWay`: on a stream that is up, a revision the client has not seen is to be
  woken for, owed, or in the last frame on its way.
- `ChangesReachTheClient`: each move of the revision arrives in a frame, or the stream is
  given up. Frames lost in a break are covered by the first frame of the next stream.
- `RefreshEnds`: the loop of `refresh` ends once the engine rests.

Desk, over 689,500 distinct states:

- `LeavingIsSafe`: while a run is parked, the server's screen has the form, or offers the
  way to the row or the step, wherever the reviewer went.
- `JumpLeadsToTheForm`: who goes to the parked row lands on a row of its case id. Its form is
  there exactly when that is the first row of the id, and one press away when it is not.
- `CommentStaysWithItsStep`: what the box holds was written about the step on screen.

Source, over 559,680 distinct states:

- `SavedIsOnDisk`: between two saves, what the pane calls saved is what the disk has,
  however many saves were interrupted or are left over from a pane on another project; after
  an answer was lost the disk has what that save was sent with. A leftover of the same file
  that lands later (`known` is then false) is the one case it leaves out: no pane can see it.
- `KeystrokesOutliveTheSave`: no answer of a save changes the text.
- `SavingEnds`: liveness; the button comes back.

Server, over 1,828,312 distinct states:

- `LastProjectStays`: the list of open projects is never empty, though two removals may
  each find one left to keep.
- `DialogTellsTheTruth`: the controls are disabled only while a press that will enable them
  is on its way (`BusyIsReleased`); and at rest, when the last press was alone and lost
  nothing, a switch that is drawn on has its server up, one drawn off has no thread, one in
  error had a start that failed, and the projects are the ones there are
  (`SwitchTellsTheTruth`). The comparison is with the threads and not with what the runtimes
  say of them. Of an error it says no more: see the late server in section 5.

**Bounds.** `MaxUnits`, `MaxRuns`, `MaxInputs` and `Steps`, for the client `MaxMoves`,
`MaxBreaks`, `Delays` (five in the code) and the set of writes, for the window `Rows`, `MaxRuns`,
`Posts`, `Saves`, `Tasks` and `Presses`, are the only ones. Two plans
let whatever the first left behind meet the second; two units let a tally go astray;
three inputs are a start, a verdict and a cancellation, in either order, or a verdict
overwritten by a second one. The three-start run needs no inputs. Three steps give a
first, a gated middle and a last one. Two moves give a burst: one that a read covers and
one that came after it; one break and one retry lose a stream or find it again. Two rows
give a step to go back to and one to be asked next, and in the project that repeats the id
a row that a lookup by id mistakes for another (so the two projects are not symmetric, and no
symmetry is declared); two projects let a click lead away from
the run and from the file; two runs (one on disk) let a row have an old directory and a
live one; a second save is one that outlives its pane, and a POST whose
answer was lost makes room for another; two presses overlap in every
order and four let what two left behind meet two more. The models of the engine, the client
and the dialog
stop when the inputs or starts are used
up, when a human does not answer, or when a session is done or aborted, which the system
may do as well: `CHECK_DEADLOCK FALSE`.

**Fairness.** Weak fairness of each worker (`FairPatientSpec`) and of the session's own
steps (`FairSpec`): the operating system schedules threads, the HTTP client has a
timeout, a disk write ends. No fairness is assumed of humans, callers or browsers, nor of
exceptions. For the client: the server answers or fails each request, the event loop turns,
a waiting stream is woken and an attempt to connect ends; nothing is assumed of moves,
breaks, clicks or reconnections. For the editor: the server answers or fails each save and
the window takes up the answer (`FairSpec` of `SourceEditor`); nothing is assumed of the
reviewer. The other specifications of the window have no liveness property and no fairness.

## 4. What is proved

`RunEngineProofs`, for every set of plans that satisfies `PlansAssumption` (plans are
non-empty sequences of units, no longer than the table) and every bound that satisfies
`BoundsAssumption`:

- `TypeCorrect`: `Spec => []TypeOK`, impatient callers included. `TypeOK` is not
  inductive: that `unitIndex` is a unit and that `sess[w][at[w]]` exists needs
  `InsidePlan` (a busy worker has a plan and, where it touches a unit, is within it);
  `TInv` is the two together.
- For `PatientSpec`: `OneWriterAtATime`, `WorkerStopsBeforeTerminal`, `SettledIsHonest`,
  `VerdictsReachTheirStep`, `TalliesAreTheSessions`, `DoneWalkedThePlan`,
  `TerminalIsHonest` (the second and the sixth together), `RestIsAnnounced`, `SessionsLiveTheirLife`, and `EngineImplementsPlanRun` (initial state
  and every step).

The argument is one invariant, `IInv`. Its core is that only the last thread is alive
(`LastThreadOnly`) and that the phase tells where it is (`PhaseTells`: `awaiting` exactly
while it waits, terminal exactly from its last critical section on). From there, while it
has a session in hand the engine's session and current unit are that session's
(`SessionInHand`), so what is stored is stored in the right place (`Recorded`); a verdict
in the slot is for the parked step, or doomed by a cancellation (`VerdictInHand`); when
no session is in hand none is parked (`NothingLeftParked`), so the sweep in
`_finish_cancelled` never stores a unit twice; the units behind the worker were built
(`Walked`). None of these holds alone: a tally is right because the unit index is, which
is right because one thread moves it. It is checked by TLC on the run's instance too.
`SessionsLiveTheirLife` adds one conjunct (`Built`: a session that was never built decided
nothing, the one in hand was built) and shows that each move of a session is one of
`SessionLife`; with `RoundImplementsSessionLife` both sides of the joint are proved.

What the liveness of the engine rests on is proved too, though not the liveness itself:

- `NobodyIsStranded` (`PatientSpec`): an input that is not acknowledged has a worker that
  can act on it. `InGoodHands` is the invariant beside `IInv`: while something is owed the
  last thread is not gone, and where it waits on the condition the verdict or the
  cancellation is in the fields it looks at when it wakes.
- `WorkersGoForward` (`Spec`, impatient callers included): the triple of the worker's unit,
  the verdicts its session has and the stage its `pc` is at grows lexicographically with
  every step of it. The invariant is `AllOnward`: sessions ahead of a worker are untouched,
  a thread not born yet finds everything fresh, and a worker that is about to send or to ask
  has a case left. Other workers leave its sessions alone (`StepsLeaveOthers`), but for the
  sweep of `_finish_cancelled`, which closes sessions and takes back no verdict.
- `WalksStayInside` (`Spec`): that measure is bounded by the plan, unit for unit and case for
  case.

So a worker takes finitely many steps in any plan, and while an input is pending one of them
can be taken. That weak fairness then makes it be taken is the step left to TLC.

`ViewsAreNeverAhead` (`PatientSpec`) is about the two places a view can be: `sview`, and
`browse` between the unlocked read of `focus` and its publication. A view is true when a
worker publishes it (`PublishedIsTrue`) or a focus reads it, and since a session moves only
as `SessionLife` does it never counts less afterwards (`SessionsGrow`); so a view that was
not ahead never will be (`BehindStays`), however late it is published.

`RoundSessionProofs`, for every number of steps, every set of gated ones and whatever
loops come back with (`RoundAssumption`: a loop has at least one iteration). All safety
properties of the run `session` are theorems of `Spec`: `RoundTypeCorrect`,
`ShownIsOnDisk`, `FormIsHonest`, `SummaryIsHonest`, `HumansAreAsked`, the two action
properties `CasesInOrder` and `DecisionsStand`, `ParkedIsAnswerable`, `RoundsGoForward`,
and `RoundImplementsSessionLife`.

The invariant is `RInv`. What is on the wire or pending is the next step (`AtNextStep`);
the directories are those of the steps that came back, without a gap (`NoGap`), which is
what makes `_last_written` and the bound of `focus` meaningful; the queue has an entry
for each step that was entered and no other (`Queue`; `Entered` counts the one whose index has
not moved yet), whichever of its two forms it
takes, and the disk has the same (`OnDisk`); what decides itself may (`DecidesRightly`);
human verdicts and human directories are equally many (`HumanCounted`, by adding one to
each). `RowIsEntry` and `DecidedIsEntered` then say what the operators of `view()` compute
in any such state, and every theorem is read off from there. `Abort` is why the conjuncts
are stated over `pending` and `inflight` and not over where the worker is: a crashed
session keeps what it had, and a reviewer still looks at it. `ParkedIsAnswerable` is
`AtNextStep` and `NoGap` put together: the parked step is the last one that was written, and
that is where the bound of `focus` is (`FocusReachesTheStep`); with `FormFits` it makes
`FormIsHonest`. `RoundsGoForward` says that no verdict, cancellation or exception sends a
step again; with `TypeOK`, which bounds the index, it bounds a round's steps.

`ClientSyncProofs`, for every set of writes, any `Delays`, `MaxMoves` and `MaxBreaks` in
`Nat`: `ClientTypeCorrect`, `ReadsNeverGoBack`, `LastRequestIsServed`, `ChangesAreUnderWay`
and `LatchIsHeld`. The invariant is
`CInv`. Nothing on its way is ahead of the server (`FramesBehind`, `PhotosBehind`), so a
later photograph is a newer one; a read is overtaken by writes only (`OneRead`,
`Overtaken`), so one that will be shown is not behind the screen (`ReadIsNewer`), which is
`ReadsMoveForward`. For `BurstIsServed` the revision is followed from the engine to the
screen: the last frame sent carries what the generator woke for (`FramesCover`), a read
that came back knows the last frame or another is asked for (`ReadKnowsFrame`), and so
does a screen a read wrote last (`ScreenKnowsFrame`). The same argument shows why
`ScreenCatchesUp` fails: a write's answer is the one thing that reaches the screen without
knowing the last frame. What `ChangesReachTheClient` and `RefreshEnds` rest on is read
off the same invariant: on a stream that is up, a revision the client has not seen is to be
woken for, owed, or in the last frame on its way (`ChangesAreUnderWay`, from `FramesCover`
and `FramesBehind`), and the latch of `refresh` is set exactly while a read is out, behind
which alone a request is put off (`LatchIsHeld`, from `OneRead`).

`ReviewDeskProofs`, for any projects, rows, names and numbers of runs and POSTs
(`DeskAssumption`): `DeskTypeCorrect`, `LeavingStaysSafe`, `CommentsStay` and
`JumpsLeadToTheForm`. The invariant is `DInv`: `ServerOK`, the types of the run and the
workspace and that a run has an owner, and `WindowOK`, that what the controls of the screen
name exists and that a form is drawn under the review pane only. What a control does depends
on the screen it was offered on, which may be old; `WindowOK` says that even an old screen
names only rows that exist, and the bound of `focus` on the server does the rest.
`LeavingIsSafe` is then a matter of cases: the parked row is selected, and `_pane` gives
the form or the footer offers the step; or it is not, and the strip offers it. `RowOf`
returns the first row of a name by well-foundedness of the naturals, which is also where
`JumpsLeadToTheForm` has the form exactly then.

`SourceEditorProofs`, for any projects, texts and number of saves: `EditorTypeCorrect`,
`SavedIsHonest`, `KeystrokesStay`. `SavedIsOnDisk` needs to know what is out (`Shape`: a load
on its way has brought no document yet, an open pane waits for one save at most and a closed
one for none) and what the file holds on the way (`File`: while nobody else wrote it, the
disk has the document, or what the lost save was sent with, until the rename and the text
that was sent after it).

`ServerPanelProofs`, for any projects, any slow servers, any number of presses at once and
in all: `PanelTypeCorrect`, `AProjectIsOpen`, `ControlsComeBack`, `SwitchesAreHonest` and
`DialogIsHonest`, which is the last two. For
`LastProjectStays` the invariant `LInv` is about the copies: one that a removal is about to
write back holds another project than the one it removes, which stays true however stale
the copy is. For `SwitchTellsTheTruth` the invariant `TInv` follows a press that is alone:
what its reads have seen so far is what is there, since nobody else can change it, and a
server that comes up late changes nothing that is shown. That a switch drawn off has no thread
needs `ComingIsAnError`: a thread that is still coming was given up on.

Three theorems state what no passing run asks of TLC: `OneWriterAtATime`, `RoundsGoForward` and
`LatchIsHeld`. Each held on its run's instance before it was proved.

Only model-checked: liveness (`InputsAcknowledged`, `CancelEndsPlan`,
`WorkerComesBack`, `ChangesReachTheClient`, `RefreshEnds`, `SavingEnds`): reasoning from
weak fairness needs ENABLED, which is out of the prover's reach here. What each of the first
five rests on is proved, as above. What a violated statement's run shows is a trace, not a theorem.

## 5. Where code and documents disagree

Each of these is a run that finds the counterexample.

- **Two workers** (`engine_overlap`, `engine.py:359`). A plan ends, a second is started
  before the first thread reaches its `finally` clause, and that clause finds the phase
  `running` and declares the new plan `done`. The second worker walks on; a third start is
  accepted and two workers write `runs/`. "one worker, one writer" (`engine.py:14-15`).
- **A gate that is passed over** (`session_gate`, `session.py:445`). Review "stops on a failing
  pack, on a case marked `gate: human`, or at a probe whose `values.*` failed"
  (`README.md:546`). The loop over a round's cases does; the loop over a suite's steps asks for
  walk mode and for a failure only, and decides the pass of a gated case itself.
- **A screen that stays behind** (`client_stale`, `useHarness.ts:161`): a write's answer
  is applied whatever its age, drops the read in flight and asks for no other. If the
  engine moved after the answer was computed, its frame's read is overwritten or dropped,
  and the frame is not repeated ("the last request of a burst is always served",
  `useHarness.ts:97-98`).
- **A parked run out of reach** (`desk_trap`, `workspace.py:397`). `start` notes the
  selected node's project as the running one and then asks the engine, which refuses with
  `ROUND_BUSY`. The palette offers a start while a plan waits; used in another project it
  leaves the parked run without a row, a mark, a way back and a form ("safe rather than a
  trap", `StatusBar.tsx:178-180`). A second use in the right project mends it.
- **A verdict for a step nobody saw** (`desk_verdict`, `StepPane.tsx:66`): the form is
  guarded while its own answer is awaited and no longer. When that answer is lost, or the
  pane was drawn anew meanwhile, a second press decides whatever is parked when it arrives
  (`panel.py:439`).
- **A save into another project** (`source_owner`, `workspace.py:281`): the project is that
  of the node selected when the save arrives (`workspace.py:273-276`).

Met while modelling, described here and not run:

- A cancellation during an automatic stretch does not stop at the next case boundary
  (`engine.py:365`, `280-281`).
- A plan that ends with a unit that cannot run counts the round before it twice
  (`engine.py:594`, `584`).
- `focus` reads the session without the lock and may publish an older view over the parked
  step's (`engine.py:299`, `307`). It is never ahead of the session (`ViewsAreOfThePast`).
- A focus between the last verdict and the end of the round is bounded by an index that
  has moved on (`session.py:665`, `tests/test_run_engine.py:335`).
- A suite records a step when it comes back, and a cancellation counts it undecided
  (`session.py:526`, `358-359`).
- A focus between `session.py:328` and `330` (`319` and `321`) draws the form, and the mark
  that asks for a verdict, over the row whose verdict is being entered. Nothing is decided
  twice through it: the engine's phase is `running` by then and `submit_verdict` refuses.
- Every `refresh` ends by saying the client is live, also after the stream was given up
  (`useHarness.ts:148`, `sse.ts:15-17`).
- Parking moves a pinned pane (`session.py:420`) although `focus` says it stays; an
  exception in the constructor of a round ends the campaign although a refusal inside
  `start` costs only the round.
- `mutationEpoch` is redundant: a write's answer takes a number of its own, so an older
  read loses on `applied` alone, and `ClientSync` without the epoch has the same properties.
- The engine's own view names no row keys, so the row of a suite's third loop opens the
  first one (`workspace.py:658-682` promises the third); `find_step_dir` likewise finds the
  first directory of that name. `JumpLeadsToTheForm` says what the click does instead: it opens the
  first, and the form of the parked one is a press further.
- Two registrations at once may lose one another's entry in the registry file, and a
  project that is registered but not open cannot be removed from the dialog.
- A server that came up after it was given up on stays behind its error, though it listens.
  `ServerDialog.tsx:397-399` has it that a failed bind leaves the switch off since "the truth
  is that nothing is listening"; and the switch cannot stop it (`ServerDialog.tsx:220`).
- The tree offers `campaigns/` itself as a destination of a move, which the server refuses
  (`CollectionTree.tsx:150-159`, `source.py:384`).
- A branch the reviewer shut stays shut under a filter that matches inside it, which
  `CollectionTree.tsx:41-43` set out to prevent: `isOpen` lets the override win (174-178).
- Esc closes the editor, with its unsaved text, behind an open palette or dialog
  (`App.tsx:54-59`); the start of a plan is announced although it was refused, since the
  hook swallows the refusal.

## 6. What could come next

In this order:

1. `SuiteProbe`: begins, photographs, polls and the oracle's book of `suite_run.py`;
   refines the suite's steps of `RoundSession`.
2. `Captures`: the captures and idempotency key of `runner.py` over a run.
3. `RunStore`: run directories, `runs/latest` and shared captures under several processes.
4. `PlanScope`: the roll-up of statuses and the scope of a plan as pure functions against
   reference definitions.
5. The window as one: `ReviewDesk` over `ClientSync`'s screen instead of one that never
   goes back.

## 7. Not modelled

HTTP, YAML, diffing, redaction, pack contents, Java parsing and everything that generates
or validates documents in one pass: data transformations without state or interleaving.
Of the components, what they draw: charts, badges, resizable panels, toasts, Monaco. The
engine's feed of lines, which no decision reads; the log collector. The collection tree: what
it draws is a function of the tree, a filter and the branches shut by hand. The command line runs a
plan on one thread from start to end. `monaco-*.js` is vendored.

## 8. Running

    tlc -workers 2 -config RunEngine.cfg MCRunEngine.tla
    tlapm RunEngineProofs.tla

In each detailed module a section *Seeded faults* holds slips of the code, one per
property of a passing run; put in the place of the action it is named after, each makes
TLC find that property violated.
