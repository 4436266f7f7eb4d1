--------------------------- MODULE ScheduledTasks ---------------------------
(***************************************************************************)
(* The scheduled task runtime of the Application Host: timers for the next *)
(* slot of every enabled task, a queue with a global and a per project     *)
(* concurrency limit, the runs it admits, and the synchronisation with the *)
(* project configuration, which alone survives the process.                *)
(*                                                                         *)
(* The code is single threaded; it gives way only at an await.  `busy'     *)
(* names the piece of code between two awaits that takes several steps     *)
(* here.  Updates of the configuration of a project wait for its write     *)
(* lock, first come first served; an update and the continuation that      *)
(* copies its result to memory are one step, since the next writer gets    *)
(* the lock only behind them.                                              *)
(*                                                                         *)
(* Time is counted in slots: a recurring task is due at the beginning of   *)
(* every slot, a one-time task at that of Due.  Tasks are numbered in the  *)
(* order of the configuration.                                             *)
(***************************************************************************)
EXTENDS FiniteSets, Naturals, Sequences

CONSTANTS
    Task,                   \* task keys, numbers in the order of the lists
    Once,                   \* the tasks whose schedule.kind is 'once'
    Projects,               \* the tasks of each project
    maxGlobalConcurrency,
    maxProjectConcurrency,
    Run,                    \* activations of runTask
    Sync,                   \* calls of syncProject / syncAllProjects
    Manual,                 \* calls of runNow
    Due,                    \* due time of the one-time tasks
    Horizon,                \* bound on time
    Requests,               \* bound on edits and resyncs asked for
    Events,                 \* bound on requests, runNows, failing updates,
                            \* stops and crashes together
    None

ASSUME ProjectsAssumption ==
    /\ Projects \subseteq SUBSET Task /\ {} \notin Projects /\ Projects # {}
    /\ \A t \in Task : \E p \in Projects : t \in p
    /\ \A p, q \in Projects : p = q \/ p \cap q = {}
ASSUME TaskAssumption == Task \subseteq Nat /\ IsFiniteSet(Task) /\ Once \subseteq Task
ASSUME RunAssumption ==
    IsFiniteSet(Run) /\ Cardinality(Run) >= maxGlobalConcurrency + Cardinality(Task)
ASSUME LimitAssumption == {maxGlobalConcurrency, maxProjectConcurrency} \subseteq Nat \ {0}
ASSUME BoundAssumption == {Due, Horizon, Requests, Events} \subseteq Nat /\ Due <= Horizon
ASSUME NoneAssumption == None \notin Nat \cup Run \cup Sync \cup Manual
ASSUME WriterAssumption ==
    /\ "pump" \notin Sync /\ None # "pump"
    /\ Run \cap Sync = {}
    /\ (Run \cup Sync) \cap (Nat \X ({None} \cup 0..(Horizon + 1))) = {}

VARIABLES
    now,                    \* Date.now()
    store,                  \* the persisted task records
    lock,                   \* writeLocks: who waits for each project's lock
    mem,                    \* tasksByProject
    started, lifecycleGeneration,
    timer,                  \* timersByTaskKey: the slot of each timer
    advance,                \* missed slots being advanced: <<task, next slot>>
    queue, queuedTaskKeys,
    runningTaskKeys, runningGlobalCount, runningCountByProject,
    run,                    \* the activations of runTask
    sync,                   \* the activations of syncProject
    calls,                  \* what became of each runNow
    busy,                   \* who holds the thread, or None
    index,                  \* the loop variable of pumpQueue
    requests, events,       \* how many there were
    fired,                  \* history: scheduled executions of each task since
                            \* an edit enabled or deleted it
    lost,                   \* history: one-time tasks whose run was not recorded
    excused                 \* history: tasks the code has left without a timer

config == <<store, requests, lock>>
scheduler == <<mem, started, lifecycleGeneration, timer, advance>>
admission == <<queue, queuedTaskKeys, runningTaskKeys, runningGlobalCount, runningCountByProject>>
thread == <<busy, index>>
history == <<fired, lost, excused>>
vars == <<now, config, scheduler, admission, run, sync, calls, thread, events, history>>

Slots == {None} \cup 0..(Horizon + 1)
Statuses == {"idle", "running", "ended", "interrupted"}
Records == [present: BOOLEAN, enabled: BOOLEAN, next: Slots, status: Statuses, ran: Slots]
Reasons == {"scheduled", "manual"}
Items == [task: Task, reason: Reasons, call: Manual \cup {None}]

Fresh == [present |-> TRUE, enabled |-> TRUE, next |-> None, status |-> "idle", ran |-> None]
Absent == [present |-> FALSE, enabled |-> FALSE, next |-> None, status |-> "idle", ran |-> None]

IdleRun == [pc |-> "idle", task |-> None, reason |-> "manual", call |-> None, gen |-> 0,
            was |-> Absent, at |-> 0, next |-> None]
IdleSync == [pc |-> "idle", left |-> {}, project |-> {}, seen |-> <<>>, todo |-> {},
             cur |-> None, next |-> None, at |-> 0, start |-> FALSE]

Runs == [pc: {"idle", "begin", "execute", "consume", "finish", "settle"}, task: Task \cup {None},
         reason: Reasons, call: Manual \cup {None}, gen: Nat, was: Records, at: 0..Horizon,
         next: Slots]
Listed == {"set", "schedule", "reconcile", "interrupt"}
Syncs == [pc: {"idle", "edit", "list"} \cup Listed, left: SUBSET Projects, project: SUBSET Task,
          seen: {<<>>} \cup [Task -> Records], todo: SUBSET Task, cur: Task \cup {None},
          next: Slots, at: 0..Horizon, start: BOOLEAN]

Held(r) == run[r].pc \in {"begin", "execute", "consume", "finish"}

TypeOK ==
    /\ now \in 0..Horizon
    /\ lock \in [Projects -> Seq(Run \cup Sync \cup (Task \X Slots))]
    /\ store \in [Task -> Records] /\ mem \in [Task -> Records]
    /\ started \in BOOLEAN /\ lifecycleGeneration \in Nat
    /\ timer \in [Task -> Slots]
    /\ advance \subseteq Task \X Slots
    /\ queue \in Seq(Items)
    /\ queuedTaskKeys \subseteq Task /\ runningTaskKeys \subseteq Task
    /\ runningGlobalCount \in Nat /\ runningCountByProject \in [Projects -> Nat]
    /\ run \in [Run -> Runs] /\ \A r \in Run : run[r].pc # "idle" => run[r].task \in Task
    /\ sync \in [Sync -> Syncs]
    /\ \A y \in Sync :
        /\ sync[y].pc # "idle" => sync[y].project \in Projects
        /\ sync[y].pc \in Listed => sync[y].seen \in [Task -> Records]
        /\ sync[y].pc \in {"edit", "interrupt"} => sync[y].cur \in Task
    /\ calls \in [Manual -> {"idle", "waiting", "answered"}]
    /\ busy \in Sync \cup {None, "pump"} /\ index \in Nat
    /\ requests \in 0..Requests /\ events \in 0..Events
    /\ fired \in [Task -> Nat] /\ lost \subseteq Task /\ excused \subseteq Task

Init ==
    /\ now = 0
    /\ store = [t \in Task |-> Fresh]
    /\ lock = [p \in Projects |-> <<>>]
    /\ mem = [t \in Task |-> Absent]
    /\ started = FALSE /\ lifecycleGeneration = 0
    /\ timer = [t \in Task |-> None] /\ advance = {}
    /\ queue = <<>> /\ queuedTaskKeys = {} /\ runningTaskKeys = {}
    /\ runningGlobalCount = 0 /\ runningCountByProject = [p \in Projects |-> 0]
    /\ run = [r \in Run |-> IdleRun]
    /\ sync = [y \in Sync |-> IdleSync]
    /\ calls = [m \in Manual |-> "idle"]
    /\ busy = None /\ index = 0
    /\ requests = 0 /\ events = 0
    /\ fired = [t \in Task |-> 0] /\ lost = {} /\ excused = {}

\* The thread is free: no code runs and no settled promise waits for its
\* continuation, which goes first.
Free == busy = None /\ \A r \in Run : run[r].pc # "settle"

\* One of the bounded events.
Event == events < Events /\ events' = events + 1

ProjectOf(t) == CHOOSE p \in Projects : t \in p

\* withProjectWriteLock: w asks for the lock, holds it, passes it on, passes
\* it on and asks again.
Asks(p, w) == lock' = [lock EXCEPT ![p] = Append(@, w)]
Holds(p, w) == lock[p] # <<>> /\ Head(lock[p]) = w
Frees(p) == lock' = [lock EXCEPT ![p] = Tail(@)]
AsksAgain(p, w) == lock' = [lock EXCEPT ![p] = Append(Tail(@), w)]

-----------------------------------------------------------------------------
(* Schedules and timers.                                                   *)

\* computeNextRunAt.  TASK_DUE_SLACK_MS (5 s) is far below a slot and left out.
ComputeNextRunAt(t, task) ==
    IF ~task.enabled THEN None
    ELSE IF t \notin Once THEN now + 1
    ELSE IF Due > now THEN Due ELSE None

\* updateScheduledTaskState: a task that is gone is left alone.
Patched(t, patch) == IF store[t].present THEN [store EXCEPT ![t] = patch] ELSE store

\* updateInMemoryTask and scheduleTask with the result of an update.
Rearmed(t, result) ==
    IF started /\ result.enabled /\ result.next # None
    THEN [timer EXCEPT ![t] = result.next] ELSE timer

\* syncTaskSchedule(t) with the task record the caller holds.
SyncTaskSchedule(t, next) ==
    /\ store' = Patched(t, [store[t] EXCEPT !.next = next])
    /\ IF store[t].present
       THEN mem' = [mem EXCEPT ![t] = store'[t]] /\ timer' = Rearmed(t, store'[t])
       ELSE UNCHANGED <<mem, timer>>

\* queueTaskRun.
QueueTaskRun_Unchecked(t, reason, call) ==
    IF t \in queuedTaskKeys THEN UNCHANGED <<queue, queuedTaskKeys>>
    ELSE /\ queuedTaskKeys' = queuedTaskKeys \cup {t}
         /\ queue' = Append(queue, [task |-> t, reason |-> reason, call |-> call])

QueueTaskRun(t, reason, call) ==
    IF t \in queuedTaskKeys \cup runningTaskKeys THEN UNCHANGED <<queue, queuedTaskKeys>>
    ELSE /\ queuedTaskKeys' = queuedTaskKeys \cup {t}
         /\ queue' = Append(queue, [task |-> t, reason |-> reason, call |-> call])

\* The call of pumpQueue at the end of a handler.
PumpQueue == busy' = "pump" /\ index' = 1

\* isMissedRecurringSlot.
Missed(t, slot) == t \notin Once /\ now > slot

\* The callback of the timer.
TimerFires(t) ==
    /\ Free
    /\ timer[t] # None /\ now >= timer[t]
    /\ \/ /\ ~mem[t].present \/ ~mem[t].enabled
          /\ timer' = [timer EXCEPT ![t] = None]
          /\ UNCHANGED <<advance, queue, queuedTaskKeys, thread, lock>>
       \/ /\ mem[t].present /\ mem[t].enabled /\ mem[t].next # timer[t]
          /\ timer' = [timer EXCEPT ![t] = mem[t].next]
          /\ UNCHANGED <<advance, queue, queuedTaskKeys, thread, lock>>
       \/ /\ mem[t].present /\ mem[t].enabled /\ mem[t].next = timer[t]
          /\ timer' = [timer EXCEPT ![t] = None]
          /\ IF Missed(t, timer[t])
             THEN /\ advance' = advance \cup {<<t, ComputeNextRunAt(t, mem[t])>>}
                  /\ Asks(ProjectOf(t), <<t, ComputeNextRunAt(t, mem[t])>>)
                  /\ UNCHANGED <<queue, queuedTaskKeys, thread>>
             ELSE /\ QueueTaskRun(t, "scheduled", None)
                  /\ PumpQueue
                  /\ UNCHANGED <<advance, lock>>
    /\ UNCHANGED <<now, store, requests, mem, started, lifecycleGeneration, runningTaskKeys,
                   runningGlobalCount, runningCountByProject, run, sync, calls, events, history>>

\* A missed slot is advanced; a failure is logged.
Advanced(a) ==
    /\ Free
    /\ a \in advance /\ Holds(ProjectOf(a[1]), a)
    /\ Frees(ProjectOf(a[1]))
    /\ advance' = advance \ {a}
    /\ \/ SyncTaskSchedule(a[1], a[2]) /\ UNCHANGED <<events, excused>>
       \/ /\ Event
          /\ excused' = excused \cup {a[1]}
          /\ UNCHANGED <<store, mem, timer>>
    /\ UNCHANGED <<now, requests, started, lifecycleGeneration, admission, run, sync, calls,
                   thread, fired, lost>>

-----------------------------------------------------------------------------
(* pumpQueue and runTask.                                                  *)

\* canRunTask.
CanRunTask(t) ==
    /\ runningGlobalCount < maxGlobalConcurrency
    /\ runningCountByProject[ProjectOf(t)] < maxProjectConcurrency

Startable(item) == (started \/ item.reason = "manual") /\ CanRunTask(item.task)

PumpSkips ==
    /\ busy = "pump"
    /\ index <= Len(queue) /\ ~Startable(queue[index])
    /\ index' = index + 1
    /\ UNCHANGED <<now, config, scheduler, admission, run, sync, calls, busy, events, history>>

\* An item leaves the queue and runTask runs up to its first await.
PumpStarts(r) ==
    /\ busy = "pump"
    /\ index <= Len(queue) /\ Startable(queue[index])
    /\ r = CHOOSE x \in Run : run[x].pc = "idle"
    /\ run[r].pc = "idle"
    /\ LET item == queue[index]
           t == item.task
           refused == \/ ~mem[t].present
                      \/ item.reason = "scheduled" /\ ~mem[t].enabled
                      \/ t \in runningTaskKeys
       IN /\ queue' = SubSeq(queue, 1, index - 1) \o SubSeq(queue, index + 1, Len(queue))
          /\ queuedTaskKeys' = queuedTaskKeys \ {t}
          /\ run' = [run EXCEPT ![r] =
                 [IdleRun EXCEPT !.pc = IF refused THEN "settle" ELSE "begin", !.task = t,
                                 !.reason = item.reason, !.call = item.call,
                                 !.gen = lifecycleGeneration,
                                 !.was = mem[t], !.at = now]]
          /\ IF refused
             THEN UNCHANGED <<runningTaskKeys, runningGlobalCount, runningCountByProject, lock>>
             ELSE /\ Asks(ProjectOf(t), r)
                  /\ runningTaskKeys' = runningTaskKeys \cup {t}
                  /\ runningGlobalCount' = runningGlobalCount + 1
                  /\ runningCountByProject' =
                         [runningCountByProject EXCEPT ![ProjectOf(t)] = @ + 1]
    /\ UNCHANGED <<now, store, requests, scheduler, sync, calls, thread, events, history>>

PumpEnds ==
    /\ busy = "pump"
    /\ index > Len(queue)
    /\ busy' = None /\ index' = 0
    /\ UNCHANGED <<now, config, scheduler, admission, run, sync, calls, events, history>>

\* The finally block of runTask.
Released_Leaking(r, t) ==
    /\ run' = [run EXCEPT ![r].pc = "settle"]
    /\ runningTaskKeys' = runningTaskKeys \ {t}
    /\ UNCHANGED <<runningGlobalCount, runningCountByProject>>

Released(r, t) ==
    /\ run' = [run EXCEPT ![r].pc = "settle"]
    /\ runningTaskKeys' = runningTaskKeys \ {t}
    /\ runningGlobalCount' = runningGlobalCount - 1
    /\ runningCountByProject' = [runningCountByProject EXCEPT ![ProjectOf(t)] = @ - 1]

\* The run r is where it updates the configuration, and has the lock.
Writes(r, pc) ==
    /\ Free /\ run[r].pc = pc
    /\ Holds(ProjectOf(run[r].task), r)

\* The state 'running' is persisted and the executor starts.
RunBegins(r) ==
    /\ Writes(r, "begin")
    /\ LET t == run[r].task IN
       /\ Frees(ProjectOf(t))
       /\ store' = Patched(t, [store[t] EXCEPT !.status = "running", !.ran = run[r].at])
       /\ mem' = IF store[t].present THEN [mem EXCEPT ![t] = store'[t]] ELSE mem
       /\ fired' = IF run[r].reason = "scheduled" THEN [fired EXCEPT ![t] = @ + 1] ELSE fired
    /\ run' = [run EXCEPT ![r].pc = "execute"]
    /\ UNCHANGED <<now, requests, started, lifecycleGeneration, timer, advance, admission, sync,
                   calls, thread, events, lost, excused>>

\* onSessionCreated: the record with the session id is copied to memory, at
\* the latest while the run waits for the lock behind this update.
RunSession(r) ==
    /\ Free /\ run[r].pc \in {"execute", "consume", "finish"}
    /\ store[run[r].task].present
    /\ mem' = [mem EXCEPT ![run[r].task] = store[run[r].task]]
    /\ UNCHANGED <<now, config, started, lifecycleGeneration, timer, advance, admission, run,
                   sync, calls, thread, events, history>>

\* The scheduled run r of a one-time task goes on or ends without a record of
\* it in the configuration, if `missed'.
Unrecorded(r, missed) ==
    IF missed /\ run[r].task \in Once /\ run[r].reason = "scheduled"
    THEN lost \cup {run[r].task} ELSE lost

\* The executor has ended, with a result or an error.  A scheduled one-time
\* task is consumed before its final state is written.
RunExecuted(r) ==
    /\ Free /\ run[r].pc = "execute"
    /\ LET t == run[r].task
           latest == IF mem[t].present THEN mem[t] ELSE run[r].was
       IN /\ Asks(ProjectOf(t), r)
          /\ IF t \in Once /\ run[r].reason = "scheduled" /\ latest.enabled
             THEN run' = [run EXCEPT ![r].pc = "consume", ![r].was = latest]
             ELSE run' = [run EXCEPT ![r].pc = "finish",
                                     ![r].next = ComputeNextRunAt(t, latest)]
          /\ lost' = Unrecorded(r, ~latest.enabled /\ store[t].enabled)
    /\ UNCHANGED <<now, store, requests, scheduler, admission, sync, calls, thread, events, fired,
                   excused>>

\* upsertScheduledTask with enabled: false; it creates the task again, as the
\* run knew it, if it was deleted meanwhile.
RunConsumes(r) ==
    /\ Writes(r, "consume")
    /\ LET t == run[r].task
           consumed == IF store[t].present THEN [store[t] EXCEPT !.enabled = FALSE]
                                           ELSE [run[r].was EXCEPT !.enabled = FALSE]
       IN /\ AsksAgain(ProjectOf(t), r)
          /\ \/ /\ store' = [store EXCEPT ![t] = consumed]
                /\ mem' = [mem EXCEPT ![t] = consumed]
                /\ run' = [run EXCEPT ![r].pc = "finish", ![r].next = None]
                /\ excused' = IF store[t].present THEN excused ELSE excused \cup {t}
                /\ UNCHANGED <<events, lost>>
             \/ /\ Event
                /\ run' = [run EXCEPT ![r].pc = "finish",
                                      ![r].next = ComputeNextRunAt(t, [enabled |-> TRUE])]
                /\ excused' = excused \cup {t} /\ lost' = Unrecorded(r, TRUE)
                /\ UNCHANGED <<store, mem>>
    /\ UNCHANGED <<now, requests, started, lifecycleGeneration, timer, advance, admission, sync,
                   calls, thread, fired>>

\* The final state and the next slot are persisted, and the timer is set
\* unless the runtime was stopped meanwhile.
RunFinishes_Unarmed(r) ==
    /\ Writes(r, "finish")
    /\ LET t == run[r].task IN
       /\ Frees(ProjectOf(t))
       /\ store' = Patched(t, [store[t] EXCEPT !.status = "ended", !.next = run[r].next])
       /\ mem' = IF store[t].present THEN [mem EXCEPT ![t] = store'[t]] ELSE mem
       /\ Released(r, t)
    /\ UNCHANGED <<now, requests, started, lifecycleGeneration, timer, advance, queue,
                   queuedTaskKeys, sync, calls, thread, events, history>>

RunFinishes(r) ==
    /\ Writes(r, "finish")
    /\ LET t == run[r].task IN
       /\ Frees(ProjectOf(t))
       /\ store' = Patched(t, [store[t] EXCEPT !.status = "ended", !.next = run[r].next])
       /\ mem' = IF store[t].present THEN [mem EXCEPT ![t] = store'[t]] ELSE mem
       /\ IF store[t].present /\ run[r].gen = lifecycleGeneration
          THEN timer' = Rearmed(t, store'[t]) /\ UNCHANGED excused
          ELSE excused' = excused \cup {t} /\ UNCHANGED timer
       /\ lost' = Unrecorded(r, ~store[t].present)
       /\ Released(r, t)
    /\ UNCHANGED <<now, requests, started, lifecycleGeneration, advance, queue, queuedTaskKeys,
                   sync, calls, thread, events, fired>>

\* The first or the last update throws.
RunFails(r) ==
    /\ Writes(r, "begin") \/ Writes(r, "finish")
    /\ Event
    /\ Frees(ProjectOf(run[r].task))
    /\ Released(r, run[r].task)
    /\ excused' = excused \cup {run[r].task}
    /\ lost' = Unrecorded(r, run[r].pc = "finish")
    /\ UNCHANGED <<now, store, requests, scheduler, queue, queuedTaskKeys, sync, calls, thread, fired>>

Answered(m) == IF m = None THEN calls ELSE [calls EXCEPT ![m] = "answered"]

\* The promise of runTask settles: the caller is answered, the queue pumped.
RunSettles_Twice(r) ==
    /\ busy = None /\ run[r].pc = "settle"
    /\ calls' = Answered(run[r].call)
    /\ run' = [run EXCEPT ![r] = IdleRun]
    /\ runningGlobalCount' = runningGlobalCount - 1
    /\ PumpQueue
    /\ UNCHANGED <<now, config, scheduler, queue, queuedTaskKeys, runningTaskKeys,
                   runningCountByProject, sync, events, history>>

RunSettles(r) ==
    /\ busy = None /\ run[r].pc = "settle"
    /\ calls' = Answered(run[r].call)
    /\ run' = [run EXCEPT ![r] = IdleRun]
    /\ PumpQueue
    /\ UNCHANGED <<now, config, scheduler, admission, sync, events, history>>

RunNow(m, t) ==
    /\ Free
    /\ calls[m] = "idle"
    /\ Event
    /\ IF t \in runningTaskKeys \cup queuedTaskKeys \/ ~mem[t].present
       THEN /\ calls' = [calls EXCEPT ![m] = "answered"]
            /\ UNCHANGED <<queue, queuedTaskKeys, thread>>
       ELSE /\ calls' = [calls EXCEPT ![m] = "waiting"]
            /\ QueueTaskRun(t, "manual", m)
            /\ PumpQueue
    /\ UNCHANGED <<now, config, scheduler, runningTaskKeys, runningGlobalCount,
                   runningCountByProject, run, sync, history>>

-----------------------------------------------------------------------------
(* start, stop and syncProject.                                            *)

\* The first of the tasks S, of the projects P.
First(S) == CHOOSE t \in S : \A u \in S : t <= u
FirstProject(P) == ProjectOf(First(UNION P))

\* syncProject(p) begins; left: the projects syncAllProjects visits next.
Called(y, p, left, start) ==
    sync' = [sync EXCEPT ![y] = [IdleSync EXCEPT !.pc = "list", !.left = left, !.project = p,
                                                 !.start = start]]

\* A route, a change of a loop file or the list of tasks asks for a resync.
SyncBegins(y, p) ==
    /\ Free
    /\ sync[y].pc = "idle"
    /\ Event /\ requests < Requests /\ requests' = requests + 1
    /\ Called(y, p, {}, FALSE)
    /\ UNCHANGED <<now, store, lock, scheduler, admission, run, calls, thread, history>>

\* start: a new lifecycle begins with the synchronisation of all projects.
Start(y) ==
    /\ Free
    /\ ~started
    /\ sync[y].pc = "idle"
    /\ started' = TRUE /\ lifecycleGeneration' = lifecycleGeneration + 1
    /\ LET p == FirstProject(Projects) IN Called(y, p, Projects \ {p}, TRUE)
    /\ UNCHANGED <<now, config, mem, timer, advance, admission, run, calls, thread, events,
                   history>>

\* stop.
Stopped_Silent ==
    /\ started' = FALSE /\ lifecycleGeneration' = lifecycleGeneration + 1
    /\ timer' = [t \in Task |-> None]
    /\ queue' = <<>> /\ queuedTaskKeys' = {}
    /\ UNCHANGED calls

Stopped ==
    /\ started' = FALSE /\ lifecycleGeneration' = lifecycleGeneration + 1
    /\ timer' = [t \in Task |-> None]
    /\ calls' = [m \in Manual |->
                    IF \E i \in 1..Len(queue) : queue[i].call = m THEN "answered" ELSE calls[m]]
    /\ queue' = <<>> /\ queuedTaskKeys' = {}

Stop ==
    /\ Free
    /\ started
    /\ Event
    /\ Stopped
    /\ UNCHANGED <<now, config, mem, advance, runningTaskKeys, runningGlobalCount,
                   runningCountByProject, run, sync, thread, history>>

\* The tasks are listed; reconcileLoopTasks waits for the lock.
SyncLists(y) ==
    /\ Free /\ sync[y].pc = "list"
    /\ sync' = [sync EXCEPT ![y].pc = "set", ![y].seen = store]
    /\ Asks(sync[y].project, y)
    /\ UNCHANGED <<now, store, requests, scheduler, admission, run, calls, thread, events,
                   history>>

\* The first loop turns to the tasks S of the list: the next slot of the first
\* one is computed and its update asks for the lock.
Turned(y, list, S) ==
    sync' = [sync EXCEPT ![y].pc = "schedule", ![y].seen = list, ![y].todo = S,
                         ![y].cur = IF S = {} THEN None ELSE First(S),
                         ![y].next = IF S = {} THEN None
                                     ELSE ComputeNextRunAt(First(S), list[First(S)])]

\* setProjectTasks: with the reconciled tasks, or with what was listed when
\* the discovery of loop files or their reconciliation failed.  The code does
\* not wait for the lock when the discovery fails; here it does in both cases.
SyncSets(y) ==
    /\ Free /\ sync[y].pc = "set" /\ Holds(sync[y].project, y)
    /\ \E list \in {store, sync[y].seen} :
       LET p == sync[y].project
           tasks == {t \in p : list[t].present}
       IN /\ timer' = [t \in Task |-> IF t \in p /\ mem[t].present THEN None ELSE timer[t]]
          /\ mem' = [t \in Task |-> IF t \in p THEN list[t] ELSE mem[t]]
          /\ Turned(y, list, tasks)
          /\ IF tasks = {} THEN Frees(p) ELSE AsksAgain(p, y)
    /\ UNCHANGED <<now, store, requests, started, lifecycleGeneration, advance, admission, run,
                   calls, thread, events, history>>

\* One round of the first loop; a deleted task stays as it was listed, and one
\* edited since then is scheduled by its old definition.
SyncSchedules(y) ==
    /\ Free /\ sync[y].pc = "schedule" /\ sync[y].todo # {} /\ Holds(sync[y].project, y)
    /\ LET t == sync[y].cur
           rest == sync[y].todo \ {t}
       IN /\ IF store[t].present
             THEN SyncTaskSchedule(t, sync[y].next)
             ELSE mem' = [mem EXCEPT ![t] = sync[y].seen[t]] /\ UNCHANGED <<store, timer>>
          /\ excused' = IF store[t].enabled = sync[y].seen[t].enabled THEN excused \ {t}
                                                                      ELSE excused \cup {t}
          /\ Turned(y, sync[y].seen, rest)
          /\ IF rest = {} THEN Frees(sync[y].project) ELSE AsksAgain(sync[y].project, y)
    /\ UNCHANGED <<now, requests, started, lifecycleGeneration, advance, admission, run, calls,
                   thread, events, fired, lost>>

\* An update of the first loop throws; a failed start stops the runtime.
SyncFails(y) ==
    /\ Free /\ sync[y].pc = "schedule" /\ sync[y].todo # {} /\ Holds(sync[y].project, y)
    /\ Event
    /\ Frees(sync[y].project)
    /\ excused' = excused \cup sync[y].todo
    /\ sync' = [sync EXCEPT ![y] = IdleSync]
    /\ IF sync[y].start /\ started THEN Stopped
       ELSE UNCHANGED <<started, lifecycleGeneration, timer, calls, queue, queuedTaskKeys>>
    /\ UNCHANGED <<now, store, requests, mem, advance, runningTaskKeys, runningGlobalCount,
                   runningCountByProject, run, thread, fired, lost>>

\* The second loop begins over a copy of the tasks in memory.
SyncSnapshots(y) ==
    /\ Free /\ sync[y].pc = "schedule" /\ sync[y].todo = {}
    /\ sync' = [sync EXCEPT ![y].pc = "reconcile", ![y].seen = mem, ![y].at = now,
                            ![y].next = None,
                            ![y].todo = {t \in sync[y].project : mem[t].present}]
    /\ busy' = y
    /\ UNCHANGED <<now, config, scheduler, admission, run, calls, index, events, history>>

InFlight(t) == t \in runningTaskKeys \cup queuedTaskKeys

\* A one-time task that is overdue in the copy catches up.
Overdue_Again(t, task, at) ==
    /\ started /\ task.enabled /\ t \in Once
    /\ Due <= at

Overdue(t, task, at) ==
    /\ started /\ task.enabled /\ t \in Once
    /\ Due <= at
    /\ task.ran = None \/ task.ran < Due

CatchUp(t, task, at) ==
    IF Overdue(t, task, at) THEN QueueTaskRun(t, "scheduled", None)
                            ELSE UNCHANGED <<queue, queuedTaskKeys>>

\* One step of the second loop; a run that cannot be this process's is
\* marked as interrupted behind an await.
SyncChecks_Blind(y) ==
    /\ busy = y /\ sync[y].pc = "reconcile" /\ sync[y].todo # {}
    /\ LET t == First(sync[y].todo) IN
       IF sync[y].seen[t].status = "running"
       THEN /\ sync' = [sync EXCEPT ![y].pc = "interrupt", ![y].cur = t]
            /\ busy' = None
            /\ Asks(sync[y].project, y)
       ELSE /\ sync' = [sync EXCEPT ![y].todo = @ \ {t}]
            /\ UNCHANGED <<busy, lock>>
    /\ UNCHANGED <<now, store, requests, scheduler, admission, run, calls, index, events, history>>

SyncChecks(y) ==
    /\ busy = y /\ sync[y].pc = "reconcile" /\ sync[y].todo # {}
    /\ LET t == First(sync[y].todo)
           task == sync[y].seen[t] IN
       IF task.status = "running" /\ ~InFlight(t)
       THEN /\ sync' = [sync EXCEPT ![y].pc = "interrupt", ![y].cur = t]
            /\ busy' = None
            /\ Asks(sync[y].project, y)
            /\ UNCHANGED <<queue, queuedTaskKeys>>
       ELSE /\ sync' = [sync EXCEPT ![y].todo = @ \ {t}]
            /\ IF InFlight(t) THEN UNCHANGED <<queue, queuedTaskKeys>>
                              ELSE CatchUp(t, task, sync[y].at)
            /\ UNCHANGED <<busy, lock>>
    /\ UNCHANGED <<now, store, requests, scheduler, runningTaskKeys, runningGlobalCount,
                   runningCountByProject, run, calls, index, events, history>>

SyncInterrupts(y) ==
    /\ Free /\ sync[y].pc = "interrupt" /\ Holds(sync[y].project, y)
    /\ Frees(sync[y].project)
    /\ LET t == sync[y].cur IN
       /\ \/ /\ store' = Patched(t, [store[t] EXCEPT !.status = "interrupted"])
             /\ mem' = IF store[t].present THEN [mem EXCEPT ![t] = store'[t]] ELSE mem
             /\ UNCHANGED events
          \/ /\ Event
             /\ UNCHANGED <<store, mem>>
       /\ CatchUp(t, sync[y].seen[t], sync[y].at)
       /\ sync' = [sync EXCEPT ![y].pc = "reconcile", ![y].cur = None, ![y].todo = @ \ {t}]
    /\ busy' = y
    /\ UNCHANGED <<now, requests, started, lifecycleGeneration, timer, advance, runningTaskKeys,
                   runningGlobalCount, runningCountByProject, run, calls, index, history>>

\* The queue is pumped; syncAllProjects goes on with the next project.
SyncEnds(y) ==
    /\ busy = y /\ sync[y].pc = "reconcile" /\ sync[y].todo = {}
    /\ PumpQueue
    /\ \/ sync[y].left = {} /\ sync' = [sync EXCEPT ![y] = IdleSync]
       \/ /\ sync[y].left # {}
          /\ LET p == FirstProject(sync[y].left)
             IN Called(y, p, sync[y].left \ {p}, sync[y].start)
    /\ UNCHANGED <<now, config, scheduler, admission, run, calls, events, history>>

-----------------------------------------------------------------------------
(* Around the runtime.                                                     *)

Tick ==
    /\ Free
    /\ now < Horizon
    /\ now' = now + 1
    /\ UNCHANGED <<config, scheduler, admission, run, sync, calls, thread, events, history>>

\* A route changes a task: upsertScheduledTask or deleteScheduledTask, and
\* syncProject behind it.
EditBegins(y, t) ==
    /\ Free
    /\ Event /\ requests < Requests /\ requests' = requests + 1
    /\ sync[y].pc = "idle"
    /\ sync' = [sync EXCEPT ![y] = [IdleSync EXCEPT !.pc = "edit", !.project = ProjectOf(t),
                                                    !.cur = t]]
    /\ Asks(ProjectOf(t), y)
    /\ UNCHANGED <<now, store, scheduler, admission, run, calls, thread, history>>

EditApplies(y) ==
    /\ Free /\ sync[y].pc = "edit" /\ Holds(sync[y].project, y)
    /\ Frees(sync[y].project)
    /\ LET t == sync[y].cur IN
       /\ store' \in {[store EXCEPT ![t].enabled = store[t].present /\ ~store[t].enabled],
                      [store EXCEPT ![t] = Absent]}
       /\ fired' = IF store'[t].present /\ ~store'[t].enabled THEN fired
                   ELSE [fired EXCEPT ![t] = 0]
    /\ Called(y, sync[y].project, {}, FALSE)
    /\ UNCHANGED <<now, requests, scheduler, admission, run, calls, thread, events, lost, excused>>

\* The process dies; only the configuration is left.
Crash ==
    /\ Free
    /\ Event
    /\ mem' = [t \in Task |-> Absent]
    /\ started' = FALSE
    /\ lifecycleGeneration' = 0
    /\ timer' = [t \in Task |-> None] /\ advance' = {}
    /\ queue' = <<>> /\ queuedTaskKeys' = {} /\ runningTaskKeys' = {}
    /\ runningGlobalCount' = 0 /\ runningCountByProject' = [p \in Projects |-> 0]
    /\ run' = [r \in Run |-> IdleRun]
    /\ sync' = [y \in Sync |-> IdleSync]
    /\ calls' = [m \in Manual |-> IF calls[m] = "waiting" THEN "answered" ELSE calls[m]]
    /\ lock' = [p \in Projects |-> <<>>]
    /\ UNCHANGED <<now, store, requests, thread, history>>

RunStep ==
    \E r \in Run :
        \/ PumpStarts(r) \/ RunBegins(r) \/ RunExecuted(r) \/ RunConsumes(r)
        \/ RunFinishes(r) \/ RunFails(r) \/ RunSettles(r)

SyncStep ==
    \E y \in Sync :
        \/ SyncLists(y) \/ SyncSets(y) \/ SyncSchedules(y) \/ SyncFails(y)
        \/ SyncSnapshots(y) \/ SyncChecks(y) \/ SyncInterrupts(y) \/ SyncEnds(y)
        \/ EditApplies(y)

\* Code that was called goes on.
Step ==
    \/ RunStep \/ SyncStep
    \/ PumpSkips \/ PumpEnds
    \/ \E a \in advance : Advanced(a)

Next ==
    \/ Step
    \/ \E r \in Run : RunSession(r)
    \/ \E t \in Task : TimerFires(t)
    \/ \E m \in Manual, t \in Task : RunNow(m, t)
    \/ \E y \in Sync, p \in Projects : SyncBegins(y, p)
    \/ \E y \in Sync : Start(y) \/ \E t \in Task : EditBegins(y, t)
    \/ Stop \/ Tick \/ Crash

Spec == Init /\ [][Next]_vars
FairSpec == Spec /\ WF_vars(Step)

-----------------------------------------------------------------------------
(* Properties.                                                             *)

\* The counters of the admission are the runs that are really there, and never
\* exceed the limits; every failing path gives its slot back.
SlotsExact ==
    /\ runningGlobalCount = Cardinality({r \in Run : Held(r)})
    /\ runningGlobalCount <= maxGlobalConcurrency
    /\ \A p \in Projects :
        /\ runningCountByProject[p] = Cardinality({r \in Run : Held(r) /\ run[r].task \in p})
        /\ runningCountByProject[p] <= maxProjectConcurrency

\* A task is queued or running once: "Queue/running keys dedupe catch-up
\* against in-flight runs".
OneRunPerTask ==
    /\ runningTaskKeys = {run[r].task : r \in {r \in Run : Held(r)}}
    /\ \A r, s \in Run : Held(r) /\ Held(s) /\ run[r].task = run[s].task => r = s
    /\ queuedTaskKeys = {queue[i].task : i \in 1..Len(queue)}
    /\ \A i, j \in 1..Len(queue) : queue[i].task = queue[j].task => i = j
    /\ queuedTaskKeys \cap runningTaskKeys = {}

\* Until an edit enables it again, a one-time task is executed by the schedule at
\* most once, by its timer or by the catch-up, whatever is resynchronised or
\* restarted, unless the configuration could not record that it ran.
OnceOnly == \A t \in Once \ lost : fired[t] <= 1

\* Somebody is about to arm t.
Coming(t) ==
    \/ InFlight(t)
    \/ \E a \in advance : a[1] = t
    \/ \E y \in Sync :
        \/ sync[y].pc \in {"list", "set", "edit"} /\ t \in sync[y].project
        \/ sync[y].pc = "schedule" /\ t \in sync[y].todo
        \/ \E p \in sync[y].left : t \in p

\* An enabled recurring task always has a next run: a timer that will be
\* honoured, a run, or a synchronisation on its way to it.
Armed ==
    started => \A t \in Task \ (Once \cup excused) :
        mem[t].enabled /\ store[t].enabled =>
            (timer[t] # None /\ mem[t].next # None) \/ Coming(t)

\* Every runNow is answered.
ManualAnswered == \A m \in Manual : calls[m] = "waiting" ~> calls[m] = "answered"

\* "a task whose `lastStatus` is `running` while nothing is in flight for it is
\* marked `error`": the mark never falls on a run that is being executed, though
\* the check is made before the write waits for the lock.
LiveRunKept ==
    [][\A t \in Task :
        store[t].present /\ store[t].status # "interrupted" /\ store'[t].status = "interrupted" =>
            \A r \in Run : run[r].task = t => run[r].pc \notin {"execute", "consume", "finish"}]_vars
=============================================================================
