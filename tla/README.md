# Terminal surface service: a verification project

TLA+ models of `wails-service-terminal-surface`, the service that opens shells, has render sidecars
draw them, and shows what they draw in native views. The models are translated from the Go and
Objective-C sources; TLC checks them on small instances and TLAPS proves the theorems listed below
for every value of the constants.

## The system

| Part | Source | State | Operations |
|---|---|---|---|
| Pane sessions | `pane.go`, `links.go` | `panes`, `failed`, one lock per pane, the `paneRecord`s | Start, Remove, Stop, RestartUnit, Resize; Input, Read, Forward, NoteFrame, State, Status |
| Surface channel | `channel.go`, `channel_darwin.m` | reply rights, one `paneRing` per pane, references to surfaces | Bind, BindView, UnbindView, SnapshotPNG, Close; the receive thread's hello, ring, frameReady, gap, ended |
| Backend | `backend.go` | `owners`, `nextLifecycleGeneration` | Apply, Deliver |
| AppKit driver | `native_darwin.go`, `terminal_darwin.m`, `place.go` | the views of a window | create, place, remove, on the main thread |
| Sidecars (external) | none | engines keep surfaces and mirrors, ptys keep sessions | what the service sends them |
| Compositor, host (external) | none | declarations, goroutines | Apply on every commit; Start, Remove and RestartUnit off that path |

A commit of the compositor reaches `Backend.Apply`, which plans creations, updates and removals of
host views, binds and unbinds them at the channel, and reports every pane that comes or goes to the
host (`ObservePanes`). The host runs `Sessions.Start` and `Sessions.Remove` off that report on
goroutines of its own, and `RestartUnit` when a sidecar process is replaced. Sessions talks to two
sidecars per pane, a pty and an engine, through `Links`, and tells the channel which engine may draw
the pane (`Bind`). The engine sends the channel a ring of surfaces, then frames; the channel shows
each in the bound view and returns the surface shown before.

What is hard here: every request to a sidecar is a point at which another goroutine can overtake,
and may fail or lose its answer half way through an operation; sidecars die while panes are opened on
them; starts, removals and restarts of one pane come in any order; the receive thread, the main
thread and the channel's lock wait on one another; references to surfaces are counted by hand.
`PROJECT.json` lists these hazards with the lines at which they bite.

What makes each part correct:

- *Sessions*: one operation at a time on a pane; the newest declaration wins; a removal closes only
  what it names; a phase that says live is true; every declaration ends up live, blocked or on record
  as failed; an open surface is one that a Stop or Remove of its pane will close.
- *Channel*: the newest frame is shown; a surface goes back once it is replaced and not before; no
  reference leaks or is dropped early; no thread waits on a sidecar or on another for ever.
- *Backend*: owners, views, bindings and reports of panes agree after every commit, also when the
  driver fails.

## The modules

| Module | What it is |
|---|---|
| `Sessions.tla` | `pane.go`: goroutines, records, locks, sidecars that crash, requests that fail |
| `PaneLifecycle.tla` | abstract: the life of one pane as Status tells it; `Sessions` implements it |
| `Verbs.tla` | Input and Forward, delivered by `backend.go`, over `Sessions` |
| `Channel.tla` | `channel.go` and its native half: receive thread, callers, mutex, sidecars |
| `Backend.tla` | `backend.go` over the AppKit driver and `place.go`: one commit after the other |
| `Declarations.tla` | abstract: what ObservePanes promises the host; `Backend` implements it |
| `System.tla` | `Backend` composed with `Channel`: Apply calls the channel beside the other threads |
| `MCSessions`, `MCVerbs`, `MCChannel`, `MCBackend`, `MCSystem` | constants for TLC |
| `SessionsProofs.tla` | types and locks of `Sessions` |
| `PhaseProofs.tla` | phases, tokens, failures and the steps of `PaneLifecycle`, on top of it |
| `TruthProofs.tla` | what the sidecars keep of a live pane, and open surfaces, on top of it |
| `VerbsProofs.tla` | theorems about `Verbs`: types, input written once, and grids that agree |
| `ChannelProofs.tla` | theorems about `Channel`: references and what is shown |
| `StreamProofs.tla` | the order of the port, where a surface is and that it comes back, on top of it |
| `SystemProofs.tla` | that `System` implements `Channel` and `Backend`, and what follows of both |
| `BackendProofs.tla` | theorems about `Backend`, and that it implements `Declarations` |

`Verbs` extends `Sessions`; `System` extends `Channel` and instantiates `Backend` with the channel's
views for `bound`. `Backend` and `Sessions` meet in the reports: `Backend` shows that they follow
`Declarations`, and `Sessions` takes declarations with growing generations, each gone at most once,
and the two orders in which a commit can report that one follows another: see below.

### Sessions

One action is one step between two points at which the code can be overtaken: a request to a
sidecar, or the wait for a pane's lock. The effect of a request on the sidecar and what the caller
does with the answer are one step, since only the caller reads the answer. `Sessions.mu` guards
sections without a request, which are atomic here.

| Variable | Code |
|---|---|
| `panes`, `failed` | the maps, holding generations; a `*paneRecord` is its lifecycle generation, 0 is nil |
| `record` | the heap: phase, session, grid and observer token (present or not) of each `paneRecord` |
| `lock` | `Sessions.locks` |
| `call` | what each goroutine runs: where it stands, its arguments and locals |
| `bound` | what `Bind` told the channel |
| `surface`, `shell` | what engines and ptys keep; gone when the process is replaced |
| `declared`, `source`, `movedTo`, `pending`, `due` | the compositor's declarations and which a commit put in the place of which, the reports no goroutine has taken up, the units the host has yet to report by `RestartUnit` |
| `spent` | the use of the bounds |
| `abandoned` | history: generations a Stop or Remove of which failed |

`Start` is `BeginStart`, `StartUnits`, `InstallStart` or `StaleStart`, then the opening it shares
with `restartPane`: `Rehydrate`, `Measure`, `Prepare`, `OpenShell`, `FitShell`, `Ensure`, `Bind`,
`OpenSurface`; every error return is `Block`. `RestartUnit` is `BeginRestart`, then per pane
`LockRestart` or `SkipRestart`. `Stop` and `Remove` are `LockClosing` or `SkipClosing`, then
`CloseSurface`, `Detach`, for a Stop that closes `CloseShell`, and `Drop`; every error return is
`Abandon`. `Resize` takes no lock: `ResizeSurface`, `ResizeShell`, `NoteGrid`.

A request is served, refused with nothing done, or served with its answer lost (`Faults`). A grid
is one number and 0 the empty one. A pty answers `pty.open` with the session it keeps for the
pane, or a new one; it refuses to resize a session it does not keep. Text, fonts, themes, scales and
pixel boxes are left out.

A pane's declarations follow one another in two ways. A surface declared anew is removed and created:
`Undeclare`, then `Declare`. A pane that goes to another surface in one commit is a `Move`: `planBatch` puts
the removals of absent surfaces after the creations (`backend.go:332-342`), and `Apply` reports in the order of
the batch, so the host is told of the new declaration first and then that the old one is gone.

How the host runs one pane's reports is not in the repository: `ObservePanes` only asks that the opening
run off the commit path. `OrderedHost` chooses between a host that runs them one after the other as they
are reported (`Turn` is their order: after a move, the Start of the new generation and then the Remove of
the old) and one that runs each on a goroutine of its own. Runs that ask what the sessions promise for
themselves use the second; runs whose properties need the order use the first. To a host without an order a
Move tells what an `Undeclare` and a `Declare` tell, the same two events for it to take up as it likes, so the
bound `MaxMoves` is 0 there.

`PaneLifecycle` has of this one declaration per pane and a phase (absent, opening, live, blocked). The
mapping takes `panes` for what is held and the record's phase for the rest, the code's unsettled phases
being one. Its promise that every opening settles is part of what `race` checks (`FollowsLifecycle`); with
a sidecar replaced, `verbs` checks the steps (`StepsOfLifecycle`), and that an opening comes to its end
is what the deadlock check of `restart` and `verbs` says, whose calls are bounded and do not loop.

### Verbs

A client is a goroutine that runs Input, or Forward of a wheel or a pointer: `Lookup` takes the
`*paneRecord`, `AskEngine` is the request to the engine, which may answer input for the pty; `Lookup`
again and `Write` are the Input that `writeReturnedInput` calls. None takes the pane lock, and `Write`
names the session the record has when the request goes out. The contract's validation is a refusal.
`crossed` is history, for the panes `GridsAgree` excepts.

### Channel

The steps are those at which a thread can be overtaken: before it takes `Channel.mu`, while it holds
it, before each message it sends, before it shows a surface, which only the main thread can do
(`dispatch_sync` waits until it is idle), and before `SnapshotPNG` reads the pixels.

| Variable | Code |
|---|---|
| `replies`, `pane` | the maps; a reply right is the process it reaches, a ring's surfaces are the ring they belong to, 0 for nil, which also says `held` |
| `open` | the registry entry and the receive right |
| `mu` | `Channel.mu` |
| `at`, `job`, `taken`, `sends`, `lease` | threads: where they stand, the call they run, the message in hand, the collected sends, the `displayLease` |
| `refs` | references the application holds to each surface |
| `layer` | `layer.contents` of each view |
| `inbox`, `returned` | the mach queues to the application and to each sidecar |
| `life`, `rings`, `current`, `away` | sidecars: their processes, the rings they sent, the one they draw in, the surfaces signaled and not given back |
| `refused` | history: rings the channel did not accept |

A sidecar draws only in surfaces it has not signaled or has had back since, and says hello before it
sends a ring. The wire names an index of a pane without its ring; the model resolves it, as a
sidecar does that counts what it is owed. Sequence numbers, cell sizes and the callbacks, which
change nothing in the channel, are left out. A message that does not decode, or with the wrong
number of rights, is refused without effect, as a gap is reported without effect.

### Backend

A step is one call that `Apply` makes, to the channel, the driver or the host. `Commit` plans;
`Unbind` unbinds each view that is to go; `DriveCreate`, `DriveUpdate`, `DriveRemove` are the driver's
operations in the order of the batch, `CreateFails` its error; `Record` updates the owners;
`ReportCreated` binds and reports, `ReportRemoved` reports; `Return` is the receipt.

| Variable | Code |
|---|---|
| `owners`, `next` | `Backend.owners`, `nextLifecycleGeneration` |
| `commit` | the `Apply` under way: snapshot, batch, what of it is left, the driver's results |
| `views` | the host views in the window, with their place and the content height it was computed from |
| `height` | the content height, which the user may change between commits |
| `bound` | the channel's view of each pane |
| `reported`, `newest` | what the host has been told through `ObservePanes` |
| `inventory`, `torn` | history: what was last committed, and the surfaces a failed commit had begun on |

A view is a number that is not used again, so that a pointer to a released one is recognised; using
one is the step `Crash`. Horizontal place, visibility and alpha go the way of the vertical place and
are left out, and so is the window, of which there is one. Three facts about the compositor are
assumed and not checked by the code: an id appears once in a snapshot, so does a pane, and a
generation fixes a surface's source.

### System

The committer is the main thread. Its `Unbind` and `ReportCreated` are the channel's calls with their
own steps (`Detach` and `Detached`, `Attach` and `Attached`); the receive thread shows a surface only
while the main thread is not in `Apply`. `DriveNext` needs the main thread as well. Nobody takes
pictures in these runs, and the channel is not closed during a commit.

## The runs

| Run | Question | Bounds |
|---|---|---|
| `race` | Starts and Removes of two declarations in any order, beside a Stop or a Resize: do lock, generations and types hold, does the pane follow `PaneLifecycle`, does every call return and every declaration settle? | 1 pane, 2 declarations, 2 goroutines, 1 Stop or Resize, refusals, fairness |
| `restart` | Is what the sessions say true when a sidecar of two panes is replaced at any moment, and will every open surface be closed, also that of a pane moved between surfaces? | 2 panes over one pty and 2 engines, 2 declarations, 1 move, 2 goroutines, 1 replacement, refusals, ordered host |
| `verbs` | Is input written once, do grids agree and is what Status says true, with Stops and Resizes that fail half way, and does the pane keep to the steps of `PaneLifecycle` when a sidecar is replaced? | 1 declaration, 2 Stops or Resizes, 1 Input or Forward, 1 replacement, refusals and lost answers, 2 grids |
| `display` | Are references, surfaces and what is shown accounted for? | 1 pane, 2 processes of a sidecar, 2 rings of 2 surfaces, 6 messages, 3 calls of 2 threads, surfaces that do not resolve |
| `commits` | Do owners, views, bindings and reports agree after every commit, and do reports follow `Declarations`? | 2 ids, 2 panes, 6 declarations, 5 commits, 7 views, 2 failures, 1 change of height |
| `system` | Are views alive while leased, is the newest surface drawn in the declared view, can any thread wait for ever? | 1 surface declared twice, 2 commits, 1 ring, ports of 1 message, 4 messages, 4 calls, a sidecar that may stop, surfaces that do not resolve, 1 failure of the driver, fairness |

Six more runs show where the code departs from what its docs and comments say; TLC finds the property
of each violated:

- `failure`: `Start` deletes the pane's failed record without comparing generations (`pane.go:192`),
  so a late older Start erases the failure of a newer one that Status promises to keep.
- `orphan`: a Remove that overtakes its Start, still starting units outside the lock, finds no record
  and does nothing; the Start then opens a surface nobody will close.
- `on_screen`: `consume` sends Released before it shows the next surface, so what it gives back is on
  screen still (`channel.go:395-398`).
- `closed`: a ring taken off the port before `Close` is installed after it and its references stay.
- `snapshot`: `SnapshotPNG` reads a surface after the unlock without a reference; a new ring or an
  Ended drops the last one meanwhile (`channel.go:181-189`).
- `resized`: a host whose declaration did not change is not placed again, though its place was computed
  from a content height that has changed since (`backend.go:325`, against the repository's `README.md:53`).

Why the bounds are enough: a hazard of the sessions needs two operations on one pane, at most two
declarations of it and one sidecar replaced between two of their requests; two goroutines and two
declarations give every such pair at every pair of points, and one move has the second take the place of the
first on the same engine or on the other. Two goroutines on two panes are what a
restart of a shared unit needs. An unlocked Input is disturbed by what changes its record or its pty
between its lookups and requests, which one opening, two verbs and one replacement do in every way. The
channel's bookkeeping compares a surface with the one before it and a ring with the one before it: two
indices and two rings have every case, and the six messages allow a hello, a ring and frames enough to
use an index again, or a second ring or process after the first frames. A commit is planned from the
owners and one snapshot: two ids give every order within a batch, and five commits every sequence of
declare, move, declare anew, drop and declare again, with a failure before or after any of them.
Deadlock is checked in every run; a system at rest stutters by `Rest`, which is enabled only when no
call is under way and nothing is queued (in `Backend` also after a crash, which `CrashOnlyAfterFailure`
judges).

How to read the exceptions in the statements:

- `NewestIsShown` and `DeclaredPaneIsDrawn` are of views bound on the main thread; off it, a frame can be
  shown between the unlock and the show of `BindView`.
- `EveryIndexGoesBack` excepts rings with a surface that does not resolve and the rings they were to
  replace, and is of panes that keep their sidecar
  (`channel.go:333-337` returns before the collected Released are sent; `channel.go:359` sends them to
  whoever the pane is bound to now).
- `GridsAgree` excepts panes of which a Resize failed half way or crossed another call: two Resizes that
  cross do leave the pty at the grid of one and the engine at that of the other (`pane.go:692-718`).
- `InputOnce` counts writes; that the shell they reach is the one meant rests on ptys that do not use a
  session number twice.
- `SurfacesTended` excepts what a failed Stop or Remove was to close, and what a pane leaves behind on an
  engine that a commit moved it off: the Start of the new declaration replaces the record, and the Remove of
  the old one, which comes after it, finds another generation and does nothing (`pane.go:536`, as
  `TestLateRemovalCannotCloseANewerDeclarationGeneration` has it). On the same engine the newer Start takes the
  surface over; on another nothing closes the older one, and the code does leave it open. `MovedAway` says so, and
  `NoOrphanSurface`, which has no such exception and which `orphan` checks, is violated by such a move even
  when the host keeps the order of the reports. A surface may pass through several generations of its pane before
  it is left, hence the later generation in `LeftOpen`.
- `LiveIsTruthful` excepts a generation of which a Stop or Remove failed half way (`pane.go:509`): its record
  stays live over a surface that is closed.
- `InventoryApplied`, `OneViewPerSurface` and `EveryPaneHasItsView` except what a failed commit had begun
  on: the code repairs nothing there, and a later commit may release a view a second time.

### Fairness

`Sessions!FairSpec`: each goroutine's next step is weakly fair, since goroutines are scheduled, a
sidecar answers or the relay refuses for it, and a Go mutex is handed to its waiters; the host is
weakly fair in taking up what is pending. Declarations, verbs and crashes need never happen.
`System!FairSystemSpec`: the committing thread, the receive thread and each caller are weakly fair. Weak
fairness of the lock suffices because calls and messages are bounded, so that nobody passes a waiter for
ever. Nothing is assumed of sidecars: `CallsReturn` and `CommitsReturn` hold though one never reads its
port, and `ReceiverReturns` assumes in its statement that their ports do not stay full.

## The proofs

Every theorem is of the component's `Spec`, for any panes, goroutines, sidecars, messages and bounds that
meet the assumptions its module names. Where a theorem needs more of the world than the code gives, the
hypothesis has a name and stands in the theorem. Each invariant below was checked by TLC before it was
proved.

`SessionsProofs.tla` and `PhaseProofs.tla`, of `Sessions`:

- `TypeCorrect`: `[]TypeOK`. The type is not inductive: a goroutine indexes `record` by its `gen`, which
  may be 0, and `source` by generations that must have been declared. `Typing` adds that every
  generation named by the records, the host or a goroutine has been declared, and that a goroutine at
  work has a record and a pane.
- `LockGuards`: `[]LockGuardsRecord`, and `RemoveClosesOwn`: `[]RemovesOnlyItsOwn`. `Locking` joins the
  lock, its holder and the record held: whoever stands at a holding point holds the lock of its pane and
  has the pane's record, whoever holds a lock stands at such a point, and a Remove at work has the record
  it names. Steps are grouped by what they do to the lock (taken at an acquisition, given back at a
  return, untouched otherwise), with one lemma per group; later proofs use the same groups.
- `NewestGenerationWins`: the action property `NewestWins`, from `Typing` and the guard of `InstallStart`.
- `UnlockedIsSettled`: `[]SettledWhenUnlocked`, and `TokensAreOwn`: `[]TokenOfThisOpening`. `Phasing`
  says what the phase and the token of a record are at each point where its lock's holder can stand; that
  no two panes share a record (`RecordsOwned`) is what keeps a step on one pane off the others.
- `FollowsStepsOfLifecycle`: `StepsOfLifecycle`, the safety part of the refinement of `PaneLifecycle`.
  Each group of steps changes the shown phase of one pane, by an action of `PaneLifecycle` or not at all.
- `FailuresAreShown`: `[]NoFailureHidden`. A failure is recorded for a generation that no record has, and
  an install drops the pane's failure; the invariant `Failing` adds that a declaration is started once, by
  one goroutine (`StartedOnce`).
- `FailuresStay`: `FailureKept`, if `OrderedHost`. `OrderKept` adds that the failure on record is older
  than everything of its pane still to be started. Without the hypothesis the run `failure` shows it wrong.

`TruthProofs.tla`, of `Sessions`:

- `LiveIsTrue`: `[]LiveIsTruthful`. The phase is set long after the requests it tells of, so `Truth` follows
  the opening: what `pty.open` and `Bind` answered stays with the sidecars until the phase is live
  (`OpeningHeld`), and from then on unless the pane awaits a restart (`LiveHeld`). A removal that is past
  its first request has closed the surface (`ClosedFirst`), and only a RestartUnit has panes left to do
  (`WorkListed`). Crashes are where this could fail: one takes from a pane what it had, and makes the
  restart it awaits pending in the same step.
- `NoOrphans`: `[]SurfacesTended`, if `OrderedHost`. `Queued` says what the order gives: a generation to be
  started, or in a Start that waits for its lock, has its Remove still to come; and all that is pending for the
  pane is newer than the Start under way, or is the Remove of the one it takes the place of. `MovesFollow` has a
  move lead to the pane's next generation. From that, `Wanted`: a held record is the declared one or is still
  to be removed, so a Start installs over a record only if it takes its place or a Stop or Remove of it failed
  (`InstallsOver`); and an open surface is at the engine of the held record, which has opened it or has it from an
  older one, or was left open. What is left open stays so (`WorldLeaves`, `StepLeaves`), which needs that a declared
  generation has not been moved away (`DeclaredStays`). Without the hypothesis the run `orphan` shows it wrong.

`VerbsProofs.tla`, of `Verbs`, for any clients beside any callers of `Sessions`:

- `VerbsTypeCorrect`: `VerbsTypeOK`. A verb at an engine or a pty has a record at hand, which the look-up
  tested, although the pane may be stopped, restarted or opened anew since.
- `InputIsWrittenOnce`: `InputOnce`. The inductive invariant is `Delivering`: until a verb ends nothing of it is
  written; only a `Forward` asks the engine, and only before the engine returned input; and what is written is
  Input or what an engine returned. Each of these is one step's guard, and together they say that no path
  writes twice and none that writes nothing succeeds with input at hand. The sessions' part rests on
  `Typing`: a step of `Verbs` is either a step of `Sessions` or leaves its variables alone.
- `GridsDoAgree`: `GridsAgree`. `Gridding` follows a grid on its way: who opens a pane brings the measured
  grid to the pty, then to the engine, and the record gets it with the phase; a Resize brings its own to the
  engine, the pty and the record in that order (`GridKnown`), and between Resizes a live pane has one grid
  (`LiveGrids`). A Resize has no lock, so what keeps two grids off one pane is `crossed`: outside it, who works
  on a pane is alone there (`WorksAlone`), and a pane leaves `crossed` only as the holder of its lock begins an
  opening (`ReopeningTakes`), when no grid is settled. A replaced sidecar keeps nothing and so agrees.

`BackendProofs.tla`, of `Backend`:

- `TypeCorrect`: `[]TypeOK`. `Typing` adds `Batch`: what is left is part of the plan, what was made is
  what has been created of it, and there are views and lifecycle generations for the rest. Counting them
  needs the ranks of a batch's creations, hence finite snapshots.
- `ReportsKeepPromise`: `ReportsInOrder`, the refinement of `Declarations`. The mapping is the identity on
  what was reported; the argument is `InOrder`: the batch is totally ordered, and the creations still to
  be reported have lives above `newest` that grow in the order in which they will be reported.
- `CommitsAreApplied`: `[]InventoryApplied`, `ViewsAreOwned`: `[]OneViewPerSurface`, and `CrashNeedsFailure`:
  `[]CrashOnlyAfterFailure`. Three invariants follow a batch through the driver: whose each host is
  (`Standing`), where it stands (`Placed`), and what the owners are the owners of (`Declared`), each with
  what the driver has done so far and with the surfaces a failed commit had begun on excepted.
- `BoundViewsLive`: `[]BoundViewsAreAlive`; `PanesHaveTheirViews`: `[]EveryPaneHasItsView`;
  `HostKnowsTheOwners`: `[]ReportsMatchOwners`. `Binding` says that the channel's views are living views
  of owners and that what the batch removes is unbound before the driver begins; `OwnersBound` and `Told`
  say what is bound and reported in the middle of a report. All three have the hypothesis `SourcesFixed`,
  that a surface which is not declared anew names the same pane: Apply compares only the place of such a
  surface (`backend.go:116`), so one that moved to another pane would leave its view bound under the old.

`ChannelProofs.tla`, of `Channel`:

- `TypeCorrect`: `[]TypeOK`. `Threading` says who stands where: one thread is under the lock, the receive
  thread has a message while it is at work, and only it and the committer borrow surfaces. That `refs` is
  never negative is part of the type and needs the next theorem's invariant.
- `ReferencesAreBalanced`: `[]ReferencesBalanced`. `Tallied` states the count without cardinalities: a
  surface has a reference of its ring, if a pane holds it, and one of each of the two leases. It is
  inductive because a ring belongs to one pane (`RingsKnown`: rings and messages about them keep the pane
  they were sent for) and because a thread borrows only when it had borrowed nothing.
- `NewestStaysShown`: `[]NewestIsShown`, if `CommitsOnMain`. `Screen` says that a bound view shows the
  pane's picture, or will when the leases have been shown, the receive thread's being the newer; and that
  views are not shared and are new when bound. The receive thread shows only while the main thread is
  idle, so the committer's older surface cannot come after it.

`StreamProofs.tla`, of `Channel`:

- `DisplayedStays`: `[]DisplayedIsKept`, if `OneSidecar`, that no two sidecars come to draw the same pane.
  The channel takes a frame for one of the ring its pane holds, whatever ring the sidecar meant, and
  gives back the surface before it; so the theorem rests on the order of the port. `Stream` is what the
  receive thread has yet to consume, the message in its hand first. `Ordered` says that whoever consumes
  the stream up to a frame or an end comes to the message's own ring or to none, and to its end with the
  ring the sidecar draws in. `Exclusively` follows one surface: signaled once and then neither displayed nor on its
  way back, displayed and then not on its way back; and while the sidecar draws in its ring, what is
  abroad is in `away` and comes back once, which keeps the sidecar from signaling it early. What a
  sequence holds after a message is added, taken or dropped is in lemmas about constants (`OrderAppend`,
  `OrderTail`, `SignalsTail`, `HoldsAppend` and their like).
- `IndicesGoBack`: `[]EveryIndexGoesBack`, under the same hypothesis. What is sent to a right nobody
  holds is lost (`SendReleased`), so it is not enough that an index is sent: `Reaching` has the process that
  waits hold the other end of the right, when it is sent. That is so because a process's hello comes before
  its rings (`Greeted`): once a ring of its is consumed, the right in hand is its own, and a surface of an
  earlier process is no longer awaited. `Arriving` has the ring come before its frames, and an end only for a
  ring that is no longer in use, so a frame is displayed and not dropped and the surface before it is given
  back; a ring whose place a refused one takes is refused with it. `Hosted` keeps the sidecar of a pane the one
  that draws it, `Awaited` is the property, and `Due` all four while the port is registered.

`SystemProofs.tla`, of `System`:

- `ImplementsChannel` and `ImplementsBackend`: every step of the composition is a step of the channel or
  none, and one of the backend, with the channel's views for `bound`, or none. So every theorem above of
  either holds in the composition. The first needs that Apply binds and unbinds panes and views the channel
  has (`BackendHolds`, the backend's own invariants), the second that nobody else binds views
  (`OthersBindNoView`) and that messages, other calls and sidecars leave them where they are (`ViewsKept`).
- `LeasesOfTheLiving`: `[]LeasedFromTheLiving`, if `SourcesFixed`: it is `BoundViewsLive` of the backend, whose
  proof TLAPS reuses through `INSTANCE BackendProofs`.
- `DeclaredPanesAreDrawn`: `[]DeclaredPaneIsDrawn`, if `CommitsOnMain` and `SourcesFixed`. `PanesHaveTheirViews`
  says which view is bound and `NewestStaysShown` what a bound view shows; neither part knows both.

TLC has checked the inductive invariants on the instances of `race` and `restart` (`Typing`, `Locking`,
`Phasing`, `Failing`; `Queued` and `Wanted` with three declarations and two moves of one pane), of `verbs` (`Gridding`), of `commits` and smaller ones, and on instances of the channel with one or two panes
and one or two sidecars (`Streaming`, `Hosted` and `Due` on those and on two panes of one sidecar). What TLC refuted there:
`DisplayedIsKept` does not hold if two sidecars draw the same pane at one time. A frame of one sidecar is
taken for a frame of the other's ring; a surface its own sidecar never signaled is displayed and then given
back, and a later true frame displays it while it is on its way back. The runs have one sidecar for a pane,
and so does a pane whose declarations keep their engine.

Every invariant the passing runs check is a theorem, some under the hypotheses named above. Only
model-checked is liveness, with `FollowsLifecycle`'s part of it, which the prover does not reach.

## What is not modelled

- `NoteFrame`, whose sequence number only `State` and Status report, and `Read`, `State`, Status and
  `PaneState`, which change nothing.
- The pixel boxes and scales of openings and Resizes: a grid is what an engine answers.
- `trimWire` and `asUint`, conversions without state; PNG encoding, layer drawing and the contract's wire
  format, pure input and output.
- The stacking of hosts (`terminal_darwin.m:51`), focus, and several windows.
- The driver's failure to place or remove: it fails for a nil view alone, which no owner has.
- `native_unsupported.go`, `channel_unsupported.go` have no state; `channel_peer_darwin.go` serves the
  tests; the build files are no part of the program.
- Which thread the compositor delivers verbs on, hence whether `Deliver` reads `owners` while `Apply`
  writes them.

## Plan

Every invariant and action property the runs check is proved. What could still be said:

1. `System`: `IndicesGoBack`, `DisplayedStays` and `NewestStaysShown` restated of the composition, which
   `ImplementsChannel` already carries over.
2. Where a theorem has a hypothesis on what is declared (`OneSidecar`, `SourcesFixed`, `OrderedHost`), the
   weakest one under which it holds.
