# Verification of the EveryAPI Edge agent

TLA+ models of the agent of this repository (`everyapi-edge`), checked with TLC on
small instances, and proofs about them checked with TLAPS. Paths are relative to the
repository's root, `src/` here. `PROJECT.json` lists the runs, the theorems, the lines
each definition translates, the hazards and the findings.

## 1. The system

A node runs one agent process (Go) beside local model runtimes. The agent dials the
gateway over a WebSocket, authenticates, serves inference requests by forwarding them to
the runtimes, and offers a Control Room (HTTP) to the operator on the LAN. It can replace
its own binary.

| component | source | state it keeps | operations | how it interacts |
|---|---|---|---|---|
| gateway session | `internal/client/client.go` | connection, `sendQ`, `done`, session context, wait group | dial and authenticate, read, write, probe runtimes, end | created per attempt by the reconnect loop; frames from the gateway; refresh signal from the Control Room and from auto-pull |
| admission and drain | same, `startHandler` to `handleDrain` | admission pools, `inflight`, `activeRequests`, `draining`, `drainChanged`, `drainCommandID` | admit, reject, finish, begin and cancel a drain, wait for it, report it | reader, handlers, heartbeat; drained by the Control Room, the updater and the gateway |
| request intake | same, `dispatch`, `cancelRequest`, `*RequestBody` | upload assemblies and their bytes, tombstones of cancelled ids | start, append, end, cancel, expire | frames and cancels arrive on two gateway queues |
| reconnect loop | `internal/app/lifecycle.go`, `lifecycle.go` | registration and attempt token, backoff | attempt, promote, retry, stop on a terminal error | session factory, updater, log sink |
| metadata refresh | `lifecycle.go` | generation, one-token channel | notify, discover until stable | model pulls and policy saves notify; Run and the factory consume |
| resource policy controller | `resource_policy.go` | `manualDrain`, policy file | save, drain, resume, maintenance | Control Room handlers and updater, on the session of the moment |
| updater | `internal/update/updater.go` | `state.json`, candidate binaries, settings with their version and wake-up token, the mutex of a run | check, drain, stage, exec, bootstrap, promote; save settings, wait for the next check and for the maintenance window | Control Room, gateway command, own goroutine; main at start |
| process start | `main.go` | revocation sentinel, console token | boot, stop | container restart policy |
| identity | `internal/identity` | key file in the state directory | load, create | every agent started on that directory |
| model library | `internal/console/model_pull.go`, `storage.go`, `model_library.go`; `internal/client/autopull.go` | the active download and its queue, the migration, the model directory | ask, cancel, download, delete; plan, start, copy | handlers and worker share one lock; a session's auto-pull shares the runtime and not the lock; all announce changes to the metadata refresh |
| store | `internal/console/store.go` | active requests and counters, receipts and their total | start, finish, settle | forwarder, playground, gateway frames; read by the Control Room's pages |
| pairing | `internal/console/auth.go`, `server.go` | token in memory and on disk, cookies signed with it | login, logout, rotate | browsers; `main.go` at start |
| forwarder | `internal/forward` | the GPU gate, one token for all sessions; per request a usage scanner | stream one response | called by request handlers; its observer is the store |
| playground and benchmark | `internal/console/playground*.go`, `model_runtime.go` | none between requests | chat, media, quick benchmark | the same runtimes, without the gate; the store |
| video and render runtimes | `video/app.py`, `render/app.py` (Python) | job files and outputs, a thread and an event per unfinished job | create, run, cancel, recover jobs after a restart | called by the forwarder; the render runtime queues workflows in ComfyUI and polls it |
| image runtime | `diffusers/app.py` | the selected editor (file), the resident one, one lock | select, warm up, edit, generate | called by the forwarder and the Control Room; edits run in its event loop, the rest in threads |
| other runtimes | `speech`, `transcription`, `rerank` | a loaded model | one request at a time | called by the forwarder |

The hard behaviours: reader, writer, monitor, handlers and drain controllers of a session
run concurrently and share no single lock; cancels overtake requests; sessions are
replaced while controllers act on them; the process is replaced while sessions come and
go; and every step that writes to disk can be the last one before a crash. What makes
each component correct is stated in the properties below; `hazards` in `PROJECT.json`
lists, at its line, everything we found that a test would hardly reach, with the property
that covers it or the reason none does.

## 2. The modules

| module | models | state of the code it keeps |
|---|---|---|
| `DrainContract` | what a session promises to whoever drains it (abstract) | drain flag, running inference, confirmed waits |
| `Admission` | admission and drain of one session (detailed) | every variable of the table's second row, one step per point where another goroutine may interleave |
| `Admission_proofs` | theorems about `Admission` | |
| `NodeControl` | reconnect loop with its session factory, metadata refresh, policy controller, updater's maintenance | stored policy and models as versions, generation and token, manual drain, the local variables of each controller |
| `NodeContract` | `NodeControl` with the history of confirmed drains; each session as `DrainContract` has it | which controllers had a drain confirmed that nobody cancelled since |
| `NodeControl_proofs` | theorems about `NodeControl` and `NodeContract` | |
| `RequestIntake` | single frames, uploads, cancels, expiry | assemblies, byte counter, tombstones with their age, the gateway's queues |
| `RequestIntake_proofs` | theorems about `RequestIntake` | |
| `Session` | the goroutines of `Run` and how they end | program point of each goroutine, error channels, contexts, send queue length |
| `Session_proofs` | theorems about `Session` | |
| `Lifetime` | restarts, bootstrap, promote, staging, credentials, revocation | `state.json`, candidate files, sentinel, image version, tokens |
| `Forward` | the forwarder, the playground and the benchmark on shared runtimes, and the record of their requests | gate, each request's place, context and fault, the store's active set and counters, the closing frame |
| `UsageScanner` | which usage block of a response is billed | buffer bounds and anchors by position |
| `Forward_proofs` | theorems about `Forward` and `UsageScanner` | |
| `ModelPull` | downloads, their queue and worker, cancel, migration, deletion, a session's auto-pull | active job and queue, cancels, the model directory and its copy |
| `Ledger` | receipts, their replay after reconnects, eviction, total | the store's map, list and total; what is on the wire |
| `Pairing` | login, logout, expiry and rotation of the token over restarts; several agents creating one identity | token file, running token, cookies, rotations in progress; key file and each agent |
| `ControlRoom_proofs` | theorems about `ModelPull`, `Ledger` and `Pairing` | |
| `AutoUpdate` | the loop of automatic updates, the settings, and the one run of either origin | settings, version, token, snapshot of the loop, mutex, what the Control Room shows |
| `MaintenanceWindow` | how long an update waits for the window | clock and the two ends |
| `Updater_proofs` | theorems about `Lifetime`, `AutoUpdate` and `MaintenanceWindow` | |
| `JobLife` | what a runtime promises about an asynchronous job (abstract) | the status a client sees |
| `VideoJobs` | the video runtime: jobs, workers, cancel, warm-up, crash, recovery | state files, outputs and drafts, events, each worker's place, `runtime_lock` |
| `RenderJobs` | the render runtime with ComfyUI's queue | state files, output files, events, each watcher's and cancel's place |
| `ImageEditor` | the image runtime's editor: selection, warm-up, edits, generations | selection file, resident editor, `runtime_lock`, who keeps the event loop |
| `Media` | the three media runtimes beside each other; what they promise and keep together | |
| `Media_proofs` | theorems about `Media` and the refinements of `JobLife` | |

`NodeControl` describes a session only as far as `DrainContract` does (a drain flag and
running inference); `Admission` is shown to implement that contract, and `NodeControl` to
treat every session of the node by it (`SessionsKeepContract` of `NodeContract`). `Lifetime` sees a
session as "online". `VideoJobs` and `RenderJobs` both implement `JobLife`. This is how the
modules compose: each one uses of the other what the other is shown to promise.

**Admission.** A task is one frame on its way through `startHandler`; its `stage` is the
next program point: `gate` (drain flag), `vram`, `acquire` (the pool's `select`),
`recheck` (`done` and context once more), `admit` (`admitInflight`, gate and increment
under `drainMu`), `register` (`activeRequests`), then `run` in a goroutine of its own and
the deferred calls in their order: `unregister`, `release`, `finish` (decrement and the
wake-up if drained), `signal`, `report`, and `state`, `send` of the status frame.
`WaitForDrained` is `checking`, `parked` on `drainChanged`, or `quiet` once it returned.
Heartbeats set which kinds lack their VRAM reserve. Definitions called *Deviation* in
comments are not part of the specification: they are plausible bugs, used to show that
the properties notice them.

**NodeControl.** The loop goes through `start`, `loaded`, `counted`, `discovering`,
`discovered` (the factory, back to `loaded` while a discovery is stale), `created`,
`activated`, `hooked` (the Active hook), `connecting`, `running`, `closing`, `backoff`.
Each Control Room request and the updater has a program counter and the client
it read from the log sink at its start, which may no longer be the session of the moment.
A discovery copies the installed models; what was installed later is stale. The
controllers share no lock and overlap as they like: `Turns`, which says that they do not, is
a premise of some properties and never a guard. `WaitForDrained` is two steps, a look
(`SaveWait`, `UpdateWait`) and the select after it (`SavePark`, `UpdatePark`), which takes
either side when the drain and the end of the context meet.

**RequestIntake.** The reader handles a frame at a time and is the only goroutine that
touches assemblies and tombstones, so a frame is a step. Bodies are counted in chunks and
time in ticks. The gateway never uses an id twice, so that no start finds an upload of its own id, and may
cancel a request at any time,
also after it was answered; a frame waits at most `Window` ticks in its queue, which is
what `requestCancellationReorderWindow` assumes of it.

**Session.** `run` follows `Client.Run` through its select and its defers in LIFO order:
`closeConn`, `<-readerDone`, `cancel`, `<-monitorDone`, `wg.Wait`. The goroutines the wait
group counts (handlers, updates, pulls) are `job`s that may be blocked sending. Frames
that arrived before the connection ended may be read after it.

**Lifetime.** `boot` is `Bootstrap`, `start` the look at the sentinel, then the loop. A
process can die at any step; candidate, state file and sentinel survive. A sentinel that
cannot be read, by a fault, is taken for none. Releases outside
`Good` end before they can connect, or stay without connecting.

**Forward.** A job is a request and its goroutine. A gateway request goes through `queued`
(the select on the gate), `calling` (`target.Do`), `opened` (a body, nothing read), then
`first`/`streaming`/`sending` (one turn of the read loop each) or `head` (an empty body),
and `closing`, `record`, `report`, `answering`: the deferred calls, the caller's one look at
the request's context, and its closing frame, which may take seconds to send. A
playground job takes the same places without gate and answer; a benchmark looks at the
store and is not recorded. A context is live, timed out or cancelled.

**ModelPull.** An ask goes `new`, `listing`, `listed` (the lock is given up between them),
then `queued` or `starting` (active, no context yet), `running`, and `succeeded` or
`broken` until `EndPull` settles it. A migration goes `new`, `planned`, `copying`, and
`complete` or `failed`. A file of the copy carries the migration that wrote it, so that
the property can tell a file this attempt copied from one it found.

**Pairing.** A token is a number, 0 the configured one; a cookie is the token that signed
it. `Persist` and `Swap` are the two halves of a rotation, so that logins, ends of the
process and the identity's race fall between them. Rotations overlap as they like;
`overlapped` remembers that two did in this process. An agent's key is its own name.

**AutoUpdate.** `loop` follows `RunAuto`: `top` (a snapshot), `wait` or `parked`,
`recheck`, `window`, `run`, `running`, `report`. `open` is whether the clock is inside the
window, whose arithmetic is `MaintenanceWindow`. `atTimer` remembers what the last timer met: the switch on, off, or off
with the wake-up of that save still in the channel (`tie`). A run here is checks, downloads and
staging as far as others see it; what it does to the disk is `Lifetime`.

**VideoJobs.** A worker goes `spawn` (on disk, not started), `begin`, `queue` (waits for
`runtime_lock`), `generate`, `made`, `move`, `publish`, with `except` and `final` for the
clauses of `run_job`. A draft is whole, broken, or left by a dead process. `Generator`
chooses between `generate_video` as the code has it, which raises, and what a generation
may do, as the tests replace it: the job's life is checked with the second, because with
the first no job ever gets beyond `generate`.

**RenderJobs.** A job begins as a workflow in ComfyUI (`prompted`), then on disk (`spawn`);
its watcher goes `begin`, `watch`, `download` (one output per step), `publish`, `except`,
`cleanup`, `final`. A cancel is three steps: state and event, removal of the files (both
under `state_lock`, which nobody else gets in between), and ComfyUI's queue after the lock.

**ImageEditor.** Selections, generations and the warm-up are threads; an edit keeps the
event loop from its wait for the lock until its answer, and requests are accepted only
while the loop is free.

## 3. What the runs check

Runs that pass:

| run | properties | what it shows | bounds |
|---|---|---|---|
| `MCAdmission` | `Accounting`, `DrainedMeansQuiet`, `NoLostWakeup`, `ReaderNeverParks`, `DrainContractSpec` | slots, counter and registry exact on every early return; a drain that was confirmed is real; no lost wake-up; refinement of the contract | three tasks, one inference pool of one slot and the control pool of two, two ids (duplicates), one waiter, drains from off the reader only |
| `MCAdmissionDrain` | `DrainWaitReturns`, `DrainCommandAnswered` | an uncancelled drain is confirmed and its command answered | two tasks, one pool of two slots, one gateway drain command, one waiter, no control requests |
| `MCNodeControl` | `ManualDrainHonoured`, `SnapshotFresh`, `ServingRestored`, `UpdateReturns` | a manual drain is on every session; a session with old models has its refresh coming; drains nobody asked for end; the updater leaves its drain | two installs, one save, one lost connection; behaviours in which drain controllers take turns; two cases, below |
| `MCNodeContract` | `SessionsKeepContract` | each session keeps the drain contract with all its controllers, which overlap | two handlers that drain, resume and save, an update, one save, one lost connection |
| `MCRequestIntake` | `CancelHonoured`, `BytesExact`, `NoSilentLoss`, `UploadsReclaimed` | no cancelled request runs; every request gets an answer unless it was cancelled; upload bytes exact and reclaimed | three requests of 0, 1 and 2 chunks; every limit (pending uploads, bytes, tombstones) is 1, so that each is reached |
| `MCAgent` | `RevokedStaysDown`, `NoCrashLoop`, `Recovers` (`Lifetime`); `ReturnsAfterWork`, `NoLateAdd`, `SessionEnds`, `ShutdownCompletes` (`Session`) | restarts run proven binaries only, come back online whatever is on disk, and never after a recorded revocation that could be read; no late `wg.Add`, no deadlock of the shutdown, no session that outlives its connection | three releases, the last one bad, two faults; two jobs, a queue of one frame; one description moves while the other waits, below |
| `MCForward` | `GateHeldOnce`, `DoneMeansWhole`, `CancelledStaysSilent`, `RequestEnds` | the gate is neither lost nor leaked; nothing incomplete is billed; a hanging runtime holds nobody for ever | `Crews`: two gateway requests behind the gate beside a chat; one beside speech and a benchmark; a chat and a benchmark; a refused request and a benchmark |
| `MCNodeParts` | `QueueSound`, `CancelSticks`, `CopyUndisturbed`, `CancelTakesEffect` (`ModelPull`); `LedgerExact` (`Ledger`); `UsageFound` (`UsageScanner`); `StoredIsUsed` (`Pairing`); `NotWedged`, `DisabledStopsChecks`, `SettingsTakeEffect` (`AutoUpdate`); `DelayExact` (`MaintenanceWindow`); `MediaKept`, `MediaContract` (`VideoJobs`, `RenderJobs`, `ImageEditor`) | the parts of a node that share no state | below |

The limits are small so that full pools, full queues and full tables happen; a second
task, waiter or controller is enough for each race because every shared structure is
touched by at most two parties at a time, except duplicates and drains, for which
`MCAdmission` has a third task. Type invariants are conjuncts of an invariant that needs
them (`GateHeldOnce`, `BytesExact`, `QueueSound`, `UsageFound`, `StoredIsUsed`,
`NotWedged`, `DelayExact`, `LedgerExact`) or proved (`TypeCorrect`, `SessionTyped`,
`TypesKept`, `ControlTyped`).

`MCNodeControl` starts in one of two cases. `"requests"`: two handlers that drain, resume
and install; nobody saves or updates, and nobody resumes while the Active hook is between
its look at the operator's drain and its `BeginDrain` (`resource_policy.go:105-109`):
that drain would stay although the operator ended it. `"saves and updates"`: one handler
that drains, saves or installs, and the updater; nobody saves while the operator's drain is set, because
a `Save` that fails cancels it (`resource_policy.go:53`), and nobody resumes. In both, no
controller begins beside another (`Turns`): the code does not prevent that, and what happens
then is `MCNodeContract` and the theorems `ManualDrainHolds` and `ReplacesWhenQuiet`. What is
left out are requests, never steps of one that was begun.

`MCAgent` holds the two descriptions of the agent that share no variable: `Lifetime` knows of
a session only that there is one. In a behaviour that moves `Lifetime` no session is dialled;
in one that moves `Session` the process is online, so that neither fairness asks for a step
of the description that waits, and no liveness property holds for want of behaviours.

`MCNodeParts` holds parts that share neither state nor lock. A behaviour moves one of
them, `part`, and the others wait in their initial states, so each part's states are all
met and no product is. Bounds: three asks for two models, or an ask beside a migration,
or two migrations, always beside an auto-pull (`Visits`); a store of two receipts and a
gateway that replays two of six, so that receipts are evicted and replayed over several
reconnects; a scanner that cuts at four bytes, writes of up to three, a response of nine,
so that it cuts twice; two browsers and two rotations, which may overlap, two agents; two
savers and two versions of the settings; days of six minutes of two parts, all windows; two
video jobs, and one render job of two outputs, with two faults each (a crash, a failed write,
a failed generation, request or download), so that a restart may fail again; two editors,
two selections, two edits and a generation, with two faults.

`MediaKept` says of what a runtime keeps that it is what it answers: a completed job has its
whole output, a failed render job and a cancelled video job leave nothing unless their
worker died or could not write, and the editor that serves is the one the next start loads.
`MediaContract` is the refinement of `JobLife` by both kinds of jobs, whose temporal part
says that each accepted job ends, and that the image runtime always answers again. An
exception of a write leaves a job that no thread looks at until the next restart: those
are the contract's `spoiled` jobs.

Runs that find a disagreement between the code and what the repository says of it:

| run | property | disagreement |
|---|---|---|
| `MCNodeControlPolicy` | `PolicyApplied` | a policy saved during a discovery is announced, and not applied until the next reconnect (`lifecycle.go:122`) |
| `MCNodeControlReplace` | `ReplacedWhenQuiet` | an update drains a session whose connection is closing; its successor is not drained and serves a request when the process is replaced (`internal/update/updater.go:714`) |
| `MCLifetimePromoted` | `PromotedSurvives` | a failed attempt at a newer release forgets the promoted one (`internal/update/updater.go:732`) |
| `MCVideoSeconds` | `FailsOnFault` | every video job fails: the length is kept as text and then calculated with (`video/app.py:180`, `:299`); the tests replace the function |

More of them are stated in the modules and have no run of their own:

- `ReplacedWhenQuiet` by a cancel (`NodeControl`, constants of `MCNodeControlReplace` with
  `Operation = {"save"}`, `MaxSaves = 1` and `MaxLosses = 0`): a save whose policy was refused
  cancels the drain it shares with an update (`resource_policy.go:53`) after the update had it
  confirmed; the session serves a request when the process is replaced.
- `ManualDrainKept` (`NodeControl`, constants of `MCNodeControlReplace` with `Operation =
  {"drain"}`): the end of an update's maintenance cancels a drain the operator asked for
  meanwhile (`resource_policy.go:98`).
- `TerminalReturned` (`Session`, constants of `MCAgent`): a revocation is lost to a
  pending refresh in Run's select (`internal/client/client.go:323`).
- `DisabledStopsEveryCheck` (`AutoUpdate`, constants of `MCNodeParts`): when the window opens
  while the wake-up of the save that switched automatic updates off is in the channel, the
  select may take the timer and the check runs (`internal/update/updater.go:556`), against
  `README.md:221`. `DisabledStopsChecks` allows for this tie and nothing else.
- `StoredIsUsed` without its exception for rotations that overlapped (`Pairing`, constants of
  `MCNodeParts`): two of them may be written in one order and swapped in the other, and the
  token the node accepts until its next start is not the one it accepts after.
- `CancelledStaysSilent` for a cancel that falls between the look at the context and the send
  (`internal/client/client.go:997-1005`): the closing frame is sent, and the gateway has
  to ignore it. No document promises otherwise; the property speaks of cancels before the look.
- `GateIsNodeWide` (`Forward`, constants of `MCForward` with `Crews <- TwoPipelines`): the
  playground and the quick benchmark use the GPU without the gate that
  `internal/forward/forward.go:31` describes as node-wide.
- `CancelledLeavesNothing` (`RenderJobs`, constants of `MCNodeParts`): a render job cancelled
  during its downloads, of which a later one fails, keeps the outputs downloaded after the
  cancel removed the others (`render/app.py:215`), against the assertion at
  `render/test_app.py:130`.
- An agent killed between creating the key file and writing it leaves a file that every
  later start refuses (`internal/identity/identity.go:143`): `Pairing` has the state, and
  no document promises otherwise.

Deadlock is checked in `MCAdmission` and `MCAdmissionDrain`; the other
configurations switch it off because a closed session, or a bounded model whose inputs are
spent, may stop.

## 4. Fairness

- Goroutines that can run do run (weak fairness of each goroutine's own steps): the Go
  scheduler is fair.
- Handlers end: `forward` bounds every upstream call by the request's context and its
  timeouts; in `Session`, where contexts matter, a job ends only once its context is
  cancelled.
- `sendFrame` gives up after five seconds: sending is never blocked for ever.
- The reader comes to the end of the bytes left by a connection that ended (strong
  fairness: other frames may be read first, finitely many).
- In `Lifetime` the container is restarted, and an attempt whose credential the gateway
  accepts succeeds if it is repeated (strong fairness). Nothing forces a bad binary to
  exit.
- In `Forward` the goroutines are scheduled, `sendFrame` returns and every context's
  timeout fires: one action each, for one job. A runtime need never answer; a call or a
  read ends once its context is over, as `net/http` promises.
- In `ModelPull` the worker is scheduled, and a cancelled context ends its HTTP call. The
  runtime need never answer here either.
- In `AutoUpdate` the loop and a save that wrote its file are scheduled. Timers need not
  fire, and runs need not end.
- In `VideoJobs` and `RenderJobs` the threads are scheduled, generations and the load of the
  model return, requests to ComfyUI have timeouts and the polling loop a deadline, and the
  container is started again. ComfyUI need not finish anything.
- In `ImageEditor` whoever holds the lock goes on. Nobody who waits for the lock is promised
  it: an edit that waits is served or refused once it is free for good, because everybody
  else needs the event loop to ask for it again.
- Nothing forces the gateway, the operator, the network, a signal or a fault.

## 5. What is proved

`Admission_proofs` holds for every set of tasks (finite), ids, kinds, commands and
waiters and all pool limits (`AdmissionAssumption`).

- The inductive invariant `Base` is `TypeOK` with the two accounting equations of slots and
  counter and `TaskShape`, which says what a task carries at each stage. The type invariant
  alone is not inductive: that `inflight` and a pool never go below zero needs the equation
  that counts the tasks holding them. `BaseInit` and `BaseNext` (one step per action) give
  `TypeCorrect` and, with the registry, `AccountingExact` (`Accounting`).
- `ImplementsContract`: under `Base` each step maps to a step of `DrainContract` or to a
  stutter (`ContractInit`, `ContractNext`), with the admitted tasks as the contract's
  running work. `AdmissionStops`, `ConfirmedDrainHolds` and `DrainedNodesAreQuiet` follow
  from the contract and `Base`.
- `WakeupsNeverLost` and `RegistryExact` are inductive relative to `Base`.

`RequestIntake_proofs` holds for any requests, sizes, limits and times to live, as long as
no frame waits longer than a tombstone lives (`RequestIntakeAssumption`; the code computes
the one from the other, `src/internal/client/client.go:635`). The invariant `Intake` adds
to the types:

- `InOrder` and `Opened`: a request's opening frame is its first, so that one with an upload
  or a handler has none left in the queue;
- `Doomed` and `Buried`: while the opening frame of a cancelled request is still queued its
  tombstone is no older than that frame, hence has not expired when the frame is read
  (`TombstonesLast`). `CancelHonoured` alone is not inductive: it says nothing of requests
  still in the queue. They give `CancelsHonoured`;
- `Pending`: a request sent whole is answered or has its final frame queued
  (`NothingIsLost`, for `NoSilentLoss`);
- `Counted`: the byte counter and the caps (`BytesAreExact`, for `BytesExact`). The bytes of
  uploads are the cardinality of the set of chunks they hold, which the theorems about
  finite sets split and join without induction.

`Session_proofs` holds for every set of jobs and any queue size; its invariant `Order`
says how far each goroutine must have come at each point of Run's defers: `OrderKept`
gives `WorkEndsFirst` (`ReturnsAfterWork`) and `AddsComeFirst` (`NoLateAdd`).

`Updater_proofs` holds for any number of releases, faults, savers and changes, and for days
of any length.

- Of `Lifetime`, the invariant `Proven`
  says that an active candidate was welcomed and that a process about to promote was, and
  `Disowned` that the sentinel exists only once the loop is over, or where a process could not
  read it. From it follow `TypesKept`, `NoLoops`
  (`NoCrashLoop`) and `StaysDown` (`RevokedStaysDown`).
- Of `AutoUpdate`, `Held` says that who holds the mutex is who runs, that the loop and the
  console's goroutine are each at their run exactly then, and that nothing is shown as in
  progress otherwise: `UpdatesAreNotWedged` (`NotWedged`). `NotWedged` alone says nothing of
  where the loop is, and a second run could start under the first.
- `Noticed` follows a change of the settings to the loop: a newer version has left its token
  or is written by a save that will, and a timer that found the switch off reads again.
  `SwitchedOffIsNotChecked` (`DisabledStopsChecks`) has no premise. A Go select may prefer a
  timer to a wake-up that is there too (section 3); the property excepts that one case, and
  the theorem says that there is no other.
- `DelayIsExact` compares the minutes the code tests for with those the operator means, by
  arithmetic on the day's remainder, with a window over midnight or not; it gives
  `WaitsForTheWindow` (`DelayExact`), which holds by calculation in each state and not by
  what the steps do. `MCNodeParts` has days of six minutes.

`NodeControl_proofs` holds for any number of handlers, sessions and changes.

- The type invariant is inductive with `UpdateHasTarget` (the updater reads the drain flag
  only of a session it took): `ControlTyped`.
- `Honest` follows a change of the models from `Install` to the session: it is still to be
  counted, or the discovery that missed it will see the generation moved, or the session
  that missed it has the token. It gives `SnapshotsFresh` and `SnapshotsCurrent`.
- `Placed` says which session is published at each point of the loop (`Published`), what a
  controller carries at each of its steps (`Shaped`) and that only the last session has
  inference (`Worked`). It holds however the controllers overlap, and all that follows rests
  on it.
- `SessionsKeepTheContract` (`SessionsKeepContract`, over `HSpec` of `NodeContract`): with the
  controllers for its waiters, each session of the node behaves as `DrainContract` allows,
  whichever sessions replace it and whoever cancels whose drain. `Confirmed` says that a
  session with a confirmed drain is drained and quiet: a wait is confirmed in a state where
  both hold, nothing is admitted under the drain, and who ends it ends the confirmation.
  `NodeImplementsContract` is the same as an implication of the two specifications. Neither
  assumes that controllers take turns. What the contract cannot give is that a controller
  notices a cancel: see `ReplacesWhenQuiet`, below.
- `DrainComes`: a session that can serve has the operator's drain or a `SetDrain` that will
  reach it. `ManualDrainHolds` (`ManualDrainHonoured`) lets saves and updates overlap with it
  and with each other, and leaves out the three ways to undo the operator's drain: a resume
  that overlaps a drain, so that flag and session hear of them in different orders
  (`OneSetDrain`); a failed `Save`, which calls `CancelDrain` whatever the operator asked
  (`SavesYield`, `src/resource_policy.go:53`); and the end of an update that looked for the
  operator's drain before it was set (`OperatorWaits`, `src/resource_policy.go:90`). The
  invariant `UpdateYields` behind the last one also gives `MaintenanceKeepsTheDrain`.
- `Taken` adds to `Placed` that the controllers take turns (`Turns`), which the code does not
  see to; `TurnsApart` says that the first and third of those ways are then closed.
- `Giving` says who gives a drain back that the operator does not want: a request or an update
  that holds it, or the refresh that a stored policy announced and that replaces the session;
  that an update which will not give a drain back found one somebody else has to; and that no
  session is drained before it is created. `DrainsAreGivenBack` (`ServingRestored`) covers
  saves, updates, installs, drains and resumes, and assumes `Turns`, because an update keeps a
  drain that it found begun and that its owner gives back meanwhile, and `HookAgrees`: nobody resumes
  between the look of the Active hook at the operator's drain and its `BeginDrain`
  (`src/resource_policy.go:105`), which would then outlive the operator's.
- `ReplacesWhenQuiet` and `PoliciesApplied` are below, under the findings.

`MCNodeControl` runs its two cases under conditions at least as strong as these; the theorems
allow every other request beside them, at any number.

`Forward_proofs` holds for any number of requests, of any route, from the gateway, the
playground and the benchmark.

- `Served` is `TypeOK` with three parts. `Gate`: the gate is taken exactly when some request
  is at a place where it must give it back, and at most one is. `Queued`: only requests that
  need the gate wait for it, so that who leaves the queue with it must return it.
  `Remembered`: what was lost of a response is remembered as a fault, and a Done frame is
  the last thing done. They give `GateSafe` (`GateHeldOnce`), `NothingPartIsBilled` (`DoneMeansWhole`)
  and `SilentOnceCancelled` (`CancelledStaysSilent`), for which a request whose cancel comes
  before the look at its context never gets to `answering`.
- `RecordKept`: the store's active requests are exactly those between `Start` and `Finish`,
  failures are among the completed, and none is counted twice (`RecordExact`).

- Of `UsageScanner`, `Scanned` says that what was seen lies in the response and that a cut
  leaves at least half a buffer behind it: `LastUsageIsBilled` (`UsageFound`), for responses
  and buffers of any length. That a set of positions has a last one is the library's
  well-foundedness of the natural numbers.

`ControlRoom_proofs` has three parts.

- For any set of downloads, models and migrations, `QueueStaysSound` (`QueueSound`) follows
  the active download and the queue; `CancelsAreKept` (`CancelSticks`) and `CopiesAreWhole`
  (`CopyUndisturbed`) rest on it.
- For any number of browsers, tokens and agents, `Fresh` says that a token in a rotation is
  one nobody has, `Kept` relates file and running token, and `OneKey` says every agent that has
  an identity has the one in the file. `NodeUsesWhatItStored` (`StoredIsUsed`) has no
  premise: the property excepts a process in which two rotations overlapped (section 3), which
  ends with the process. `AgentsAgree` is the identity's part of it, and `RotationSignsOut`
  proves `RotationRevokes`, which follows in one step from the types and `Fresh`; no run is
  spent on it.
- For any number of receipts, amounts, lost sessions and replays, `LedgerIsExact`
  (`LedgerExact`). Its invariant `Books` has the list in the order of settlement, each
  receipt once (`Listed`), the map and the total as the list's
  (`Summed`), each receipt counted at most once (`Once`), the receipts on the wire as those the
  session has still to read (`Carried`), and what of the gateway's window is shown
  (`Replayed`). The property alone is not inductive: that a replayed receipt which was evicted
  is not counted again rests on the order of the list and on the window, which is no larger
  than the store (`LedgerAssumption`; both are 200 in the code). A total is the
  cardinality of the units its receipts pay, because a sum over a set is a recursion that
  the provers cannot unfold.

`Media_proofs` holds for any finite sets of jobs and requests, any number of outputs and of
faults.

- `VideoSound` and `RenderSound` say at which places a worker can be with each state of its job
  on disk, and what of the job's files is there then, unless its worker died or could not
  write; `EditorSound` says whose turn it is with the image runtime's editor and which one is
  resident. They give `MediaIsKept` (`MediaKept`), whose parts alone say nothing of a job that
  is still running.
- `VideoImplementsJobs` and `RenderImplementsJobs`: under them each step of a runtime is a step
  of `JobLife`, or none. That is the safety of `MediaContract`; that every job ends is left to
  `MCNodeParts`.
- `EndsAreFinal` uses those steps: what the contract says of a job that has ended (its state
  never changes again) then holds for videos and renders, whatever worker, cancel or restart
  still writes of the job.

Five of the properties that section 3 finds refuted hold as soon as what the table names is left out. A theorem for each says that nothing else refutes it; what it leaves out can happen in
the code, which is the finding, and what remains is everything else the module has.

| theorem | property | what is left out |
|---|---|---|
| `ReplacesWhenQuiet` | `ReplacedWhenQuiet` | the two causes that section 3 names: the session that has the request is not the one the update drained, or that one's drain was cancelled after it was confirmed (`ReplacedUnderWork`) |
| `MaintenanceKeepsTheDrain` | `ManualDrainKept` | `OperatorWaits`: the operator does not ask for the drain between the update's look at it and the update's end |
| `PoliciesApplied` | `PolicyApplied` | `SavesOutsideDiscovery`: no `Save` stores a policy between the factory's read of it and the end of its discovery; controllers may overlap |
| `PromotionsSurvive` | `PromotedSurvives` | `NothingRolledBack`: Bootstrap abandons no attempt at a release that follows a promoted one |
| `CancelsLeaveNothing` | `CancelledLeavesNothing` | `DownloadsNotCut`: no download fails on a render that was cancelled meanwhile |

`PoliciesApplied` rests on `Applied`: a snapshot is built from the stored policy, and a session that has
another one has a refresh announced. `PromotionsSurvive` rests on `Surviving`: what a
process runs once Bootstrap chose, and what the state file names (the image, if it names
nothing), are no older than any promoted version; an active candidate can be run; and an
update goes forward. Of the video runtime,
`FailuresHaveFaults` says that with a generation as the tests have it (`Generator = "stub"`)
a video job fails only after a fault (`FailsOnFault`): cancels and restarts alone fail none.

Model-checked only:

- liveness, which is out of the prover's reach under fairness: `DrainWaitReturns`,
  `DrainCommandAnswered`, `UpdateReturns`, `UploadsReclaimed`, `SessionEnds`,
  `ShutdownCompletes`, `Recovers`, `RequestEnds`, `CancelTakesEffect`, `SettingsTakeEffect`
  and the temporal part of `MediaContract`;
- `ReaderNeverParks`, which is about ENABLED. `ReaderIsReady` proves what it means: the guard
  of the reader's next step (`CanStep`) holds in every state.

Every other property of a passing run is stated by a theorem, of `MediaContract` the steps.

## 6. Not modelled, and the plan

Contents of frames, JSON, HTTP, logging and metrics are abstracted everywhere. Download
and checksum of a release are one step that succeeds or fails. Backoff lengths, timeouts
other than those of uploads and tombstones, and the fingerprint debounce of the runtime
monitor are nondeterministic.

Not modelled, because nothing in them interacts: the speech, transcription and rerank
runtimes, the discovery clients, the wire protocol's types, configuration files, installers
and the web client, which hold no state that another part could find changed. Left out of
modelled parts: the cache of model capabilities, log lines, performance averages and the
history of observations; the display of the next check; changes of the clock and a settings
file that cannot be read; file modes and power loss before a directory is synced; nodes
without a console token, and the Host and origin check; the directories of video frames
and the validation of render templates and descriptors; an unreadable editor selection.

Next: the fingerprint debounce of the runtime monitor and auto-pull's progress frames in
`Session`; the capability cache beside the metadata refresh in `NodeControl`.
