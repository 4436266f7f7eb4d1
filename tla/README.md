# Verification of Varin

TLA+ models, TLC runs and TLAPS proofs kept beside the Varin sources
(`src/`). Every definition is translated from the code named for it in
`PROJECT.json` under `map`.

## 1. The system

Varin is an application around coding agents. A React renderer talks to an
Application Host (`packages/web/application-host`, TypeScript, one event loop).
The host keeps one *runtime generation*: a `PiRuntimeBroker`
(`packages/runtime-broker`) that spawns Pi session workers as child processes and
talks to each over an ordered JSON channel (`PiHostClient`). A private Rust kernel
(`kernel/crates/varin-kernel`) stores branches, checkpoints and file leases.

| Part | State it keeps | Operations | Talks to |
| --- | --- | --- | --- |
| Runtime broker (`runtime-broker.ts`) | workers, catalog and workspace clients, session bindings, execution admissions, disposal | create, open, close, fork, archive, delete a session; requests for a session or workspace; package mutation; dispose | host clients (requests, events, exits), Application Host (admission and event callbacks) |
| Host client (`host-client.ts`) | pending requests, last event sequence, pinned session, deferred snapshots, terminal error, disposal promise | start, request, pin, begin transition, dispose | worker process (lines in and out), broker (callbacks) |
| Runtime lifecycle and manager (`runtime-lifecycle.ts`, `runtime-manager.ts`) | generations with their brokers, the active one, update in progress | ensure broker, retire idle generation, stop for update, dispose | broker |
| Metadata store, settings store | a JSON file, a lock file | read, update under the lock, removal of an abandoned lock | other processes through the file system |
| Workspace leases (`recovery/workspace-lease.ts`) | shared and exclusive holders, waiters | acquire, release, dispose | recovery service, broker admission |
| Path locks (`harness/path-lock.ts`) | one queue per path, leases | acquire with timeout, release, drop a holder | agent threads |
| Kernel request window (`kernel/request-window.ts`) | slots in use, waiters | acquire, release, close | kernel client |
| Kernel storage (`storage/*.rs`) | SQLite tables, blobs | branches, checkpoints, leases, garbage collection | kernel client |
| Recovery service (`recovery/durable-file-operation.ts`, `integration-coordinator.ts`) | operation rows and file phases in the kernel, files, editor buffers | merge a thread's result, compensate, undo, reconcile after a crash | kernel, document surfaces, parent turn |
| Scheduled tasks (`scheduled-tasks/runtime.ts`) | timers, queue, running keys and counters; task records on disk | start, stop, synchronise, run, run now | project configuration, session automation |
| Documents, threads, knowledge, extensions | see the component list | | |

`PROJECT.json` lists every component, the ones that are not modelled with the reason.

What makes the system hard: the host is one event loop, so between two `await`s
code is atomic, but every `await` is a point where any other handler may run; the
worker may die at any such point; requests are retried and time out while late
answers are on their way; several processes share files.

## 2. Modules

### ExecutionAdmission — who may write the workspace

Source: `packages/runtime-broker/src/runtime-broker.ts`, the admission methods
(2288-2417) and all their callers.

A request that may write the workspace runs inside an *admission*. The map
`#sessionExecutionAdmissions` holds at most one per worker. The first request
creates it and asks the Application Host for a lease (`await onExecutionAdmission`);
requests of the same phase share it and are counted in `holders`; requests of another
phase wait for its `done` promise and try again. `agent_start` and `agent_settled`
events mark it as running. The lease is closed when nobody holds it and no agent runs,
or by force when the worker goes away.

| State | Code |
| --- | --- |
| `adm[a]` | the admission objects: phase, awaitsAgentSettlement, running, holders; `stage` is the life of the promises `ready` and `done` and of the lease; `released` says that `closePromise` is set |
| `current` | the worker's entry in the map |
| `pc`, `on` | the `await` at which each request stands, and the admission it refers to |
| `worker`, `agent`, `agentOn`, `started` | the worker process and Pi's agent loop |
| `broker` | progress of `dispose()` |
| `undercut` | history, not in the code: since the agent run began, a request of its admission has failed or been refused, which resets `running` |

Each action is a handler up to its next `await`. The map is keyed by the worker
and no operation relates two entries, so one worker is modelled. Emission and handling
of a worker event are one step because one ordered channel carries events and responses.
The agent's behaviour (when a run starts and settles) belongs to the external Pi
package and is nondeterministic within what `pi-host/src/session-host.ts` does with it: a prompt is
acknowledged after its `agent_start`, or when Pi is through with it and no run has begun
(1434-1457, extension commands); a prompt whose run has begun does not fail any more; a steer or a
follow-up is acknowledged when it is queued.

Properties: `OneLease`, `ExecutionUnderLease`, `HoldersExact`, `DisposedHoldsNothing`,
`AgentLeaseKept`, `ClosedOnce`, `EveryRequestSettles`; the comment above each states it.
`AgentUnderLease` (the lease of an agent run stays open until `agent_settled`) is what the code's comment
and test say; the code keeps it only while no request of the same admission fails or is refused during the
run, and `AgentLeaseKept` says exactly that. `EveryRequestSettles` has one exception too: after an
acknowledgement that no run follows, `running` stays set, and requests of another phase wait for an
`agent_settled` that does not come (`Stranded`), unless a later run settles.

Runs:

* `admission`: a worker start, a prompt, a steer and a mutation with 4 admission
  objects (771,893 states). Every pair of phases meets, an admission is replaced
  while a waiter of the old one is still asleep, and dispose and exit strike anywhere.
* `admission_settles`: `EveryRequestSettles` under `FairSpec`; 6 admission objects, so that
  the bound is never what stops a request. Fairness: promise continuations run
  (the JavaScript event loop), the host's admission callback and `lease.close()` settle,
  a worker answers or dies, a running agent settles, `dispose()` runs to its end. That a run
  begins is not assumed. A prompt and a mutation are the fewest that wait for each other's phase.
* `admission_sibling`: expected to fail. A request that
  fails during an agent run sets `running = false` on the shared admission
  (runtime-broker.ts:1096) and, as the last holder, closes the lease of the run, against
  "a sibling request failure must not release the active writer"
  (test/session-execution-admission.test.ts:121).

Proved (`ExecutionAdmissionProofs`, for all finite sets of requests and any set of
admissions): the safety properties of the run `admission`. `IInv` is the inductive invariant.
`OneLease` is not inductive: a second admission could be granted next to an open one,
so `Registered` ties the lease to the map entry (an admission is registered exactly while
its lease is asked for, open or closing). `ExecutionUnderLease` needs `Held`: while the
worker lives nothing is released under a request that counts as a holder; this needs
`HoldersExact` (a release that is not forced sees `holders = 0`, so nobody is inside) and
`Startup` (the `finally` of `createSession` looks the admission up again and finds its own).
`AgentCovered` (`AgentLeaseKept`) uses the additional invariant `Attached`: the admission of a run that was
not undercut is open, running and not released, so that no release but a forced one can touch it, and a
forced one ends the run. `Fresh` stands for object allocation.

### SessionWorkers — which process serves which session

Source: `packages/runtime-broker/src/runtime-broker.ts` (create, open, close, fork,
delete, compaction, removal, exit, dispose) and, for when a request is refused and
when a disposal settles, `host-client.ts`.

The broker keeps `#clients` (registered workers), `#sessions` (session id to worker),
`#sessionAuxiliaries` (compaction workers of a session) and `#knownSummaries`. Calls run
concurrently on one event loop: each stands at an `await` while the others go on, and what it
read before the `await` may be stale after it.

| State | Code |
| --- | --- |
| `clients`, `sessions`, `aux`, `known` | the maps above |
| `retiring` | clients on which `dispose()` was called |
| `pin` | `client.sessionId`, set by `pinSession` |
| `proc`, `role`, `serves` | the child process: not started, up, exited; session or compaction worker; the session active inside it (external, from how the broker uses the answers) |
| `files`, `born` | session files on disk; ids in use |
| `pc`, `arg`, `wk`, `parent`, `aborted` | the calls: the `await` they stand at and their local variables |
| `broker`, `stopping` | progress of `dispose()` |
| `displaced` | history, not in the code: sessions whose `#sessions` entry a fork deleted although it named another worker |

An action is the code of a call from one `await` to the next; the answer of a worker and the
continuation it resumes are one action. `Fail` is the rejection of an `await`, for whatever
reason; calls that started a worker of their own remove it, the others only throw. `Exit`
is `#handleExit`, at any moment. `RemoveWorker` is the synchronous part of `#removeWorker`; its
`await client.dispose()` is a label of `Leaving`. `Drop` contains the `dropWorker` callback, which is
synchronous in the Application Host, and the microtask its `await` yields for.

Properties: `Routed`, `OneWorkerPerSession`, `NoOrphan`, `DisposedClean`, `OrphanedTaskRetired`,
`DisposeSettlesCalls`, and `CancelledStaysCancelled`, which the code does not keep.
`ReopenReusesWorker` is the strengthening used in a proof. `OneWorkerPerSession` excepts the
sessions in `displaced`: with three workers the code lets a second worker be bound to such a session.

Runs:

* `sessions`: two opens (by id or by file), a fork and a delete of one session, with worker deaths
  and `dispose()`: both opens pass the check for an active worker before either binds, the
  session is forked from and reopened, and a delete overlaps them.
* `session_settles`: a create, a close and a compaction task: `OrphanedTaskRetired`, and
  `DisposeSettlesCalls` under `FairSpec`: once `dispose()` was called, it returns
  and so does every call under way. The broker gives its requests no timeout, so a worker is not
  assumed to answer. Fairness: file operations, admissions and the start of a worker (which
  has a timeout) settle, a request is rejected when its process has ended, the process of a disposed
  client ends (host.shutdown, then SIGKILL after a timeout).
* `session_cancel`: expected to fail; the finding of `PROJECT.json` quotes the line it contradicts.

Two things the code does not exclude are listed as hazards without a property: a fork answered
after its worker was removed deletes the binding of its successor (runtime-broker.ts:1246, recorded
in `displaced`), and a session opened while its deletion waits stays active (1307).

Proved (`SessionWorkersProofs`, for any sets of sessions, workers and calls): type
correctness, `Routed`, `NoOrphan`, `DisposedClean`, `OneWorkerPerSession` and
`OrphanedTaskRetired`. The inductive invariant `IInv` adds what each
label implies about the variables of a call (`Kinds`), that a worker is known only to the call
that spawned it until it is bound (`Private`, `TaskPrivate`), so that no other step can change
what it serves, and that ids in use are never given out again (`PinBorn`, `ArgBorn`): a fork
never binds its worker to a session another worker is pinned to. `#sessions` names the registered
worker of every pinned session not in `displaced` (`ReopenReusesWorker`), which is the strengthening
`OneWorkerPerSession` needs; the only step that breaks it is the late fork answer of the hazard at
runtime-broker.ts:1246, and that step puts the session into `displaced`. `TaskHeld` is the
strengthening of `OrphanedTaskRetired`: a task that is not retired is filed under its session, and the
worker it works for is up as long as it is pinned there. A worker that was forked away meanwhile is
pinned to the new session, and `#handleExit` looks under that id only: such a task is outside the property,
and the hazard at runtime-broker.ts:2239 says so. The run has no fork (with one TLC does not finish within
its bounds); the theorem covers forks.

### HostClient, RequestChannel — one worker process and its requests

Source: `packages/runtime-broker/src/host-client.ts`, whole class `PiHostClient`; its users in
`runtime-broker.ts` (createSession and openSession as `bind`, forkSession as `Forks`,
`classifyWorkerEventIdentity`). The worker process is external: it may answer in any order, hang,
die, or break the protocol.

| State | Code |
| --- | --- |
| `pending`, `timers`, `promise` | `#pending` with the timers in it; the promises handed out |
| `terminal`, `exited`, `connected`, `killed` | `#terminalError`; the close event was handled (`#child` undefined, `onExit` called); `child.connected`; SIGKILL sent |
| `boot`, `ready` | where `start()` stands; its `ready` promise |
| `stop` | where `#performDispose` stands |
| `expected`, `sessionId`, `depth`, `deferred` | `#lastSequence + 1`, `#sessionId`, `#sessionTransitionDepth`, `#deferredSessionSnapshots` |
| `forwarded` | events the broker's `onEvent` has accepted and emitted |
| `pc`, `arg`, `answer` | the binding and forking calls, and the session their response names |
| `proc`, `wire`, `inbox`, `serves`, `used`, `next`, `claim` | the worker and the channel from it |

Atomicity is finer than in the other modules. Node hands the IPC messages of one read to
`#handleMessage` one after the other and runs promise continuations after the last of them: a
handler settles promises, the code after an `await` is an action of its own (`ReadySettled`,
`HandshakeSettled`, `BindSettled`, `ForkSettled`, ...) that further messages may precede. `Drained`
says that no continuation is waiting, which is when timers, calls and exits run.
(In `ExecutionAdmission` an answer and its continuation are one action; an `agent_start` read
together with a refusal is handled before the continuation of the refusal, which is the order
in which the refusal falls into the run, see `undercut`.)

`RequestChannel` is the abstract specification: a request is issued, refused, answered or
rejected, each at most once, and a channel that closes rejects what waits and issues nothing
more. `ImplementsChannel` is the refinement, with `status <- promise` and
`closed <- exited \/ disposed`. It matters because `#sendRequest` itself looks at neither
`#disposed` nor `#terminalError`; that nothing is sent after the end follows from where it is called.

Runs:

* `host_client`: a bind, one request with a timeout, `host.ready` as the only event, no forks; the
  worker may send garbage, hang or die. `PendingExact`, `NothingPending`, the refinement, and
  `DisposeSettles` and `TimedRequestSettles` under `FairSpec`. Fairness: timers fire and promise
  continuations run. Nothing is assumed of the worker, which may hang for ever.
* `host_client_forks`: a fork that overlaps the bind, three events, two sessions, lost events:
  `ForwardedOnce`, `DepthExact` (for more forks, the theorem), `FailureKills`.

Between `pinSession` and `flushDeferredSessionSnapshots` metadata is read and other calls share the
list of deferred snapshots. A newer snapshot can overtake deferred ones, the flush of one call
drops those of a fork that still waits for its response, and it publishes snapshots of a worker
that has exited. The code does not exclude this; it is listed as a hazard, and `ForwardedOnce` claims
only that nothing is emitted twice.

`MaxSeq` bounds the events of a worker, not the code: with three of them one can precede the
response, one follow the pin, and one be `host.ready`.

Proved (`HostClientProofs`, for any sets of requests and sessions, any finite set of forks, any
`MaxSeq`): `TypeOK`, `PendingExact`, `NothingPending`, `FailureKills`, `ForwardedOnce`, `DepthExact`
and the refinement `ImplementsChannel`. The inductive invariant adds `Unsent` (a request that
is still to be sent has not been sent, so that no promise is settled twice), `Life` (which process
states go with which states of `start()`) and `Closed` (after the end nothing is pending and
`start()` will not send its handshake). `DepthExact` rests on `CountedStep`: a step opens or
ends at most one transition.

### DurableIntegration — merging a thread's result into the workspace

Source: `packages/web/application-host/lib/recovery/durable-file-operation.ts` (apply,
compensation, dispatch, finalisation, undo, reconciliation),
`harness/working-state/integration-coordinator.ts` (the requests to the editor in `mergeResult` and
`undoIntegration`), `kernel/kernel-recovery-store.ts` (`recordIntegrationChanges`).

One operation writes paths on disk itself and asks the editor to change paths that are open
there. The operation row and one phase per path are kept by the kernel and survive the Host;
everything else is lost in a crash, and reconciliation decides from the row, the phases and the
files what became of the operation.

| State | Code |
| --- | --- |
| `spec` | which paths go to the editor, and whether the merge is bound to a parent turn (`requireTurnBinding`) |
| `op`, `phase` | the operation row (state and `appliedPaths`), `recovery_operation_files` |
| `disk`, `buffer` | the files and the editor buffers; a content is `safety` (captured before the first write), `target` (to be written) or `other` (somebody else's) |
| `turn`, `recorded` | status of the parent turn; paths whose change its checkpoint has |
| `pc`, `todo`, `cur`, `applied`, `attention`, `goal`, `results`, `stale` | the running call: place, loop, `data.appliedPaths`, `data.needsAttentionPaths`, what a compensation ends in, the answers of the editor, whether its revision of the row is out of date |
| `touched`, `abandons` | paths edited by somebody else, crashes so far (bounds `Edits`, `Abandons`) |

Each write to the kernel, to a file and each request to the editor is an action of its own, so
that a crash (`Abandon`, which is also an exception that leaves the call) falls between any two
of them. The path loops are modelled in any order, which contains the code's (`orderForStates`
sorts by depth). Calls exclude each other by the workspace lease; `Gated` is the resource gate of a
path, which keeps other writers of the Host out while the code checks and writes; processes outside the
Host take no gate and are not modelled. The branch of the reconciliation for a parent turn that is not found
(968-972) is left out: a bound merge begins with a turn, and nothing deletes turns. A phase and the
completion of a row are compare-and-set on a revision; only the running call writes them, so
the comparison fails only after a lost answer (`stale`). Two loops that mark several phases before
the row is completed (`UndoRequested`, `UndoUnresolved`) are one step.

Properties and what makes them hard:

* `RolledBack`: an aborted, compensated or undone operation has left no target content, except
  on a path whose phase says that its compensation was cut off.
* `RolledBackClean` (run `integration_rollback`, expected to fail): the same without the exception.
* `CompleteIsWhole`: a complete merge is on every path, in files and buffers, that nobody else touched.
* `CheckpointAgrees`: a bound merge completes only when the turn's checkpoint has every file it wrote, and
  what the checkpoint has is never compensated. Paths in an editor are not recorded: the state of
  their file is the same before and after (`integrationTurnChanges`). The status of the turn is read
  once, so it may settle between two records.
* `EditsKept`: no write falls on somebody else's edit, except in `compensateKernel`, which takes no gate.
* `EveryOperationSettles`, under `FairSpec`: weak fairness of the steps of the Host. Crashes are bounded by
  `Abandons`; reconciliation runs at start and before every later merge or undo, which is why its
  beginning counts as a fair step.

Run `integration`: two disk paths and two that may be in the editor, every choice of `spec`, two
crashes, one foreign edit (381,954 states). Two paths of a kind are the fewest for a group that
is applied in part; two crashes let the second one hit the reconciliation of the first.

Run `integration_rollback`: one crash between the phase `compensate-intent` and the restoring write.
Reconciliation has no case for this phase with target content, does not count the path as applied
and ends the operation as aborted, with the content of the abandoned merge left in the file.

Proved (`DurableIntegrationProofs`, for any disjoint sets of paths and any number of crashes and
edits): `TypeOK`, `RolledBack`, `CompleteIsWhole`, `CheckpointAgrees`, `EditsKept`. The inductive
invariant `IInv` adds `Cursor` (which path is in a loop body), `Control` (which row goes with which
place of the call), `Progress` (`appliedPaths` are paths of the operation that were written),
`DiskPhase` and `SurfacePhase` (what a phase says about the content), `Visited` (what a loop has
established of the paths it has left behind; without it the end of a loop proves nothing),
`Recorded` and `Whole` (the same for the checkpoint and for a merge about to complete).

### ScheduledTasks — timers, queue and runs of scheduled tasks

Source: `packages/web/application-host/lib/scheduled-tasks/runtime.ts` and the write lock and task
updates of `projects/project-config.ts`.

| State | Code |
| --- | --- |
| `store`, `lock` | the task records on disk; `writeLocks`, a first come first served queue per project |
| `mem`, `timer`, `started`, `lifecycleGeneration` | `tasksByProject`, `timersByTaskKey`, the flags of the runtime |
| `queue`, `queuedTaskKeys`, `runningTaskKeys`, `runningGlobalCount`, `runningCountByProject` | the same names |
| `run`, `sync`, `advance` | activations of `runTask`, of `syncProject`/`syncAllProjects`, and of `syncTaskSchedule` for a missed slot, with the `await` they stand at |
| `calls` | what became of each `runNow` |
| `busy`, `index` | the code between two awaits that takes several steps here (`pumpQueue`, the second loop of `syncProject`) |
| `now` | time in slots: a recurring task is due in every slot, a one-time task in slot `Due` |
| `fired`, `lost`, `excused` | history: scheduled executions since an edit enabled or deleted the task; one-time tasks whose run the configuration could not record; tasks the code has knowingly left without a timer |

An action is the code from one `await` to the next. An update of the configuration waits in
`lock`; the update and the continuation that copies its result to memory are one step, because
the next writer gets the lock only behind them. `Crash` forgets all but `store`. A run that throws, an
update that fails, `stop()` and a route that edits or deletes a task may happen between any two steps.

Properties:

* `SlotsExact`: the counters are the runs that are there and keep the limits, whatever fails.
* `OneRunPerTask`: a task is queued or running once, and the two key sets are exact.
* `LiveRunKept`: `syncProject` decides that a run is dead before it waits for the lock; its mark
  never falls on a run that is being executed.
* `OnceOnly`: until an edit enables it again, the schedule executes a one-time task at most once, over
  crashes, restarts and resynchronisations. `lost` lists the cases the code gives up: the update that
  consumes the task fails, or it was deleted or disabled under the run and enabled again.
* `Armed`: an enabled recurring task has a timer, a run or a synchronisation on its way. `excused`
  lists the cases the code gives up: a failing update, a run of an older generation, an
  edit that overtook the list of a synchronisation.
* `ManualAnswered`, under `FairSpec`: code that was called goes on (weak fairness of `Step`: promise
  continuations run and the executor ends). Timers, time and callers are not assumed to move.

Runs: `scheduled` (one project, one slot in it, two overlapping synchronisations, one event of any
kind; 331,080 states) and `scheduled_faults` (two projects, one global slot, two events, liveness;
438,986 states). `Events` bounds edits, resyncs, runNows, failing updates, stops and crashes together.
`Horizon = 2` lets a slot be reached, missed and followed by another.

Proved (`ScheduledTasksProofs`, for any tasks, projects, limits, runs, synchronisations and bounds
that satisfy the named assumptions): `TypeOK`, `SlotsExact`, `OneRunPerTask`, `LiveRunKept`. The
inductive invariant adds `Pumping` and `Looping` (who holds the thread), `Admitted` (the counters as
cardinalities), `QueueKeys`, `Apart`, `Locked` (a run waits in the lock of its project only while it
updates, and once) and `Waiting`: while a synchronisation waits to mark a task, every run of
the task waits behind it in the same queue, at its first update. This is why the early check is
safe, and it needs the lock to be first come first served. `RunAssumption` (enough activation
names) stands for allocation.

`OnceOnly` is proved in `ScheduledTasksOnceProofs`. Its inductive invariant says of a one-time task
that was executed once and not lost (`Recorded`) that it is in one of three situations:

* `Live`: its run is under way and the record on disk is already disabled or says that it ran, so a
  restart has nothing to catch up with; when the run is in its last update, every synchronisation
  that still holds a list from before waits in front of it in the lock, so the last update overwrites
  whatever it copies;
* `Done`: the task is disabled on disk and in memory, and no synchronisation is about to copy it as
  it was;
* `Known`: the process died since; whatever is read or kept of the task, in memory, in lists, in
  timers, says that it ran.

It rests on `StoreMortal`, `OnceSlots` (the slot of a one-time task is its due time or none, wherever
it is kept), `Clocked` and `SyncLocked`. The lemmas about one step (`StoreFromStep`, `MemFromStep`, ...)
say from where a record, a timer, a list or a run may come, over all actions at once.

`Armed` is proved in `ScheduledTasksArmedProofs`. Two steps can leave an enabled recurring task without
a timer: a synchronisation copies a list in which the task is still disabled, or a run ends while memory has
missed that it was enabled, computes no next slot and overwrites the one on disk. Both are repaired
only by a synchronisation that comes later, and "later" is the order of the write lock. Besides
`ArmedTask` (the property for one task, with a slot on disk too) the inductive invariant has:

* `Noticed`: a task that is enabled on disk and not in memory is excused, or a synchronisation comes to it;
* `Corrected`: behind a list in which the task is still disabled waits one in which it is enabled, or a
  synchronisation that has not read its list yet;
* `Renewed`: while memory has missed that the task was enabled, somebody will show it, or nobody will
  schedule it as enabled, so that its excuse stands;
* `Followed`: behind a run that ends without a next slot waits a synchronisation that schedules the
  task as enabled, or nobody in front of the run pardons it, and it is excused or somebody comes;
* `Basis`: the facts about places and lists these rest on (`SyncPlaces` and `RunWaits`: who waits in
  which queue, and once; `SeenGone`: a recurring task missing in a list stays away; `LeftStarts`:
  only `start` visits several projects, and its failure stops the runtime; ...).

Simplified: `TASK_DUE_SLACK_MS` (5 s) is left out, since a slot is much longer; two advances of a task
to the same slot are one element of `advance` (with the bounds of the runs they do not occur together); a
synchronisation whose discovery of loop files fails waits for the lock before it uses its old list, which the code
does not. `OnceOnly` says nothing about a one-time task that is never run.

Not modelled here: the removal of a project in `syncAllProjects`, the watchers of Markdown loops
and what they contain, and the re-arming of timers longer than 2^31 ms.

## 3. Plan

Done: `ExecutionAdmission`, `SessionWorkers`, `HostClient` with `RequestChannel`,
`DurableIntegration`, `ScheduledTasks`, each with runs and a proof module.

Left, in this order; each step adds a module, its runs, and where it is worth it a proof module.

1. `WorkspaceLease` (`recovery/workspace-lease.ts`), composed with `DurableIntegration` (which assumes
   its exclusion) and with the admissions of the broker; `PathLock` (`harness/path-lock.ts`) and
   `RequestWindow` (`kernel/request-window.ts`): exclusion, no lost wakeup, bounded slots.
2. Branch integrations of the recovery service, and its mutation checkpoints and rewind.
3. The rest of the broker: catalog worker, workspace contexts, package mutations, trust.
4. `RuntimeLifecycle` (`runtime-lifecycle.ts`, `runtime-manager.ts`): generations of the runtime.
5. The kernel's lease table (`storage/file_resource_leases.rs`) with kernel restarts, and its garbage collection.
6. Agent threads, document authority, extension activation.

Theorems worth proving next: exclusion of the leases, and that a workspace is given
up only when nothing runs in it.

## 4. What stays with TLC, and what is not modelled

Liveness under fairness (`EveryRequestSettles`, `DisposeSettlesCalls`, `DisposeSettles`,
`TimedRequestSettles`, `EveryOperationSettles`, `ManualAnswered`) is checked by TLC only. Every
invariant and every other action property of a passing run is a theorem. The properties of the runs that are expected to fail are not theorems.

Not modelled:

* of the broker: catalog worker, workspace contexts, package mutations, configuration watches, trust;
* of the recovery service: branch integrations, checkpoints and rewind, retention, the workspace lease
  (taken as exclusive);
* of the scheduled tasks: project removal and loop files;
* path locks, request window, runtime lifecycle, settings locks, document authority, agent threads,
  kernel storage and its garbage collection: state machines that could be modelled, in the plan;
* the user interface, shells, translations, adapters around external programs, and the pure text
  algorithms: no protocol state, or out of TLC's reach. These are most of the repository's lines.

Every component is listed in `PROJECT.json` with its status and the reason.
