---------------------- MODULE ScheduledTasksOnceProofs ----------------------
(***************************************************************************)
(* A one-time task is executed by the schedule at most once: OnceOnly of   *)
(* ScheduledTasks for any tasks, projects, limits and synchronisations.    *)
(***************************************************************************)
EXTENDS ScheduledTasksProofs

-----------------------------------------------------------------------------
(* What the actions do, field by field.                                    *)

\* The run r, and no other, moves to the place c.
RunTo(r, c, next, was) ==
    /\ \A s \in Run : s # r => run'[s] = run[s]
    /\ run'[r].pc = c /\ run'[r].next = next /\ run'[r].was = was
    /\ run'[r].task = run[r].task /\ run'[r].reason = run[r].reason
    /\ run'[r].gen = run[r].gen /\ run'[r].at = run[r].at

\* The synchronisation y, and no other, moves to the place c of the same call.
SyncTo(y, c, seen, todo) ==
    /\ \A z \in Sync : z # y => sync'[z] = sync[z]
    /\ sync'[y].pc = c /\ sync'[y].seen = seen /\ sync'[y].todo = todo
    /\ sync'[y].project = sync[y].project /\ sync'[y].left = sync[y].left
    /\ sync'[y].start = sync[y].start

\* Nothing but the records of t changes.
OnlyTask(t) ==
    \A u \in Task : u # t => store'[u] = store[u] /\ mem'[u] = mem[u] /\ timer'[u] = timer[u]

\* An update that finds the record of t is copied to memory.
Copied(t) ==
    /\ store'[t].present = store[t].present
    /\ store[t].present => mem'[t] = store'[t]
    /\ ~store[t].present => store'[t] = store[t] /\ mem'[t] = mem[t]

(***************************************************************************)
(* The updates of an activation of runTask.                                *)
(***************************************************************************)
LEMMA RunForms ==
  ASSUME TypeRuns, NEW r \in Run, NEW c, NEW n, NEW was
  PROVE  /\ run' = [run EXCEPT ![r].pc = c] => RunTo(r, c, run[r].next, run[r].was)
         /\ run' = [run EXCEPT ![r].pc = c, ![r].next = n] => RunTo(r, c, n, run[r].was)
         /\ run' = [run EXCEPT ![r].pc = c, ![r].was = was] => RunTo(r, c, run[r].next, was)
<1>1. run[r] \in Runs
  BY DEF TypeRuns
<1>2. ASSUME run' = [run EXCEPT ![r].pc = c]
      PROVE  RunTo(r, c, run[r].next, run[r].was)
  BY <1>1, <1>2 DEF TypeRuns, Runs, RunTo
<1>3. ASSUME run' = [run EXCEPT ![r].pc = c, ![r].next = n]
      PROVE  RunTo(r, c, n, run[r].was)
  <2>1. run' = [run EXCEPT ![r] = [run[r] EXCEPT !.pc = c, !.next = n]]
    BY <1>1, <1>3 DEF TypeRuns, Runs
  <2>2. QED
    BY <1>1, <2>1 DEF TypeRuns, Runs, RunTo
<1>4. ASSUME run' = [run EXCEPT ![r].pc = c, ![r].was = was]
      PROVE  RunTo(r, c, run[r].next, was)
  <2>1. run' = [run EXCEPT ![r] = [run[r] EXCEPT !.pc = c, !.was = was]]
    BY <1>1, <1>4 DEF TypeRuns, Runs
  <2>2. QED
    BY <1>1, <2>1 DEF TypeRuns, Runs, RunTo
<1>5. QED
  BY <1>2, <1>3, <1>4

(***************************************************************************)
(* The first update of a run.                                              *)
(***************************************************************************)
LEMMA BeginsEffect ==
  ASSUME IInv, NEW r \in Run, RunBegins(r), NEW t, t = run[r].task
  PROVE  /\ t \in Task /\ run[r].pc = "begin" /\ Holds(ProjectOf(t), r) /\ Frees(ProjectOf(t))
         /\ OnlyTask(t) /\ UNCHANGED timer /\ Copied(t)
         /\ store'[t].enabled = store[t].enabled /\ store'[t].next = store[t].next
         /\ store[t].present => store'[t].ran = run[r].at
         /\ RunTo(r, "execute", run[r].next, run[r].was)
<1>1. TypeRecords /\ TypeRuns
  BY DEF IInv, TypeParts
<1>2. t \in Task /\ store[t] \in Records /\ run[r].pc = "begin"
      /\ Holds(ProjectOf(t), r) /\ Frees(ProjectOf(t))
  BY <1>1 DEF RunBegins, Writes, TypeRuns, TypeRecords
<1>3. RunTo(r, "execute", run[r].next, run[r].was)
  BY <1>1, RunForms DEF RunBegins
<1>4. store' = Patched(t, [store[t] EXCEPT !.status = "running", !.ran = run[r].at])
      /\ mem' = (IF store[t].present THEN [mem EXCEPT ![t] = store'[t]] ELSE mem)
      /\ UNCHANGED timer
  BY DEF RunBegins
<1>5. OnlyTask(t)
  BY <1>1, <1>2, <1>4 DEF Patched, TypeRecords, OnlyTask
<1>6. /\ Copied(t)
      /\ store'[t].enabled = store[t].enabled /\ store'[t].next = store[t].next
      /\ store[t].present => store'[t].ran = run[r].at
  BY <1>1, <1>2, <1>4 DEF Patched, TypeRecords, Records, Copied
<1>7. QED
  BY <1>2, <1>3, <1>4, <1>5, <1>6

(***************************************************************************)
(* The end of the execution.                                               *)
(***************************************************************************)
LEMMA ExecutedEffect ==
  ASSUME IInv, NEW r \in Run, RunExecuted(r), NEW t, t = run[r].task, NEW latest,
         latest = IF mem[t].present THEN mem[t] ELSE run[r].was
  PROVE  /\ t \in Task /\ run[r].pc = "execute" /\ Asks(ProjectOf(t), r)
         /\ ~In(lock[ProjectOf(t)], r) /\ UNCHANGED <<store, mem, timer, sync>>
         /\ IF t \in Once /\ run[r].reason = "scheduled" /\ latest.enabled
            THEN RunTo(r, "consume", run[r].next, latest)
            ELSE RunTo(r, "finish", ComputeNextRunAt(t, latest), run[r].was)
<1>1. TypeRuns /\ Locked
  BY DEF IInv, TypeParts
<1>2. t \in Task /\ run[r].pc = "execute" /\ Asks(ProjectOf(t), r)
      /\ UNCHANGED <<store, mem, timer, sync>>
  BY <1>1 DEF RunExecuted, TypeRuns, scheduler
<1>3. ~In(lock[ProjectOf(t)], r)
  BY <1>1, <1>2, ProjectOfTask DEF Locked, Updating
<1>4. IF t \in Once /\ run[r].reason = "scheduled" /\ latest.enabled
      THEN run' = [run EXCEPT ![r].pc = "consume", ![r].was = latest]
      ELSE run' = [run EXCEPT ![r].pc = "finish", ![r].next = ComputeNextRunAt(t, latest)]
  BY DEF RunExecuted
<1>5. QED
  BY <1>1, <1>2, <1>3, <1>4, RunForms

(***************************************************************************)
(* The consumption of a one-time task.                                     *)
(***************************************************************************)
LEMMA ConsumesEffect ==
  ASSUME IInv, NEW r \in Run, RunConsumes(r), NEW t, t = run[r].task
  PROVE  /\ t \in Task /\ run[r].pc = "consume"
         /\ Holds(ProjectOf(t), r) /\ AsksAgain(ProjectOf(t), r)
         /\ OnlyTask(t) /\ UNCHANGED <<timer, sync>>
         /\ \/ /\ ~store'[t].enabled /\ mem'[t] = store'[t]
               /\ store[t].present => /\ store'[t].present /\ store'[t].next = store[t].next
                                      /\ store'[t].ran = store[t].ran
               /\ ~store[t].present => /\ store'[t].present = run[r].was.present
                                       /\ store'[t].next = run[r].was.next
               /\ RunTo(r, "finish", None, run[r].was)
               /\ UNCHANGED lost
            \/ /\ UNCHANGED <<store, mem>>
               /\ RunTo(r, "finish", ComputeNextRunAt(t, [enabled |-> TRUE]), run[r].was)
               /\ lost' = Unrecorded(r, TRUE)
<1>1. TypeRecords /\ TypeRuns
  BY DEF IInv, TypeParts
<1>2. t \in Task /\ store[t] \in Records /\ run[r].pc = "consume" /\ run[r].was \in Records
      /\ Holds(ProjectOf(t), r) /\ AsksAgain(ProjectOf(t), r)
  BY <1>1 DEF RunConsumes, Writes, TypeRuns, TypeRecords, Runs
<1> DEFINE rec == IF store[t].present THEN [store[t] EXCEPT !.enabled = FALSE]
                                      ELSE [run[r].was EXCEPT !.enabled = FALSE]
<1>3. UNCHANGED <<timer, sync>>
  BY DEF RunConsumes
<1>4. \/ /\ store' = [store EXCEPT ![t] = rec] /\ mem' = [mem EXCEPT ![t] = rec]
         /\ run' = [run EXCEPT ![r].pc = "finish", ![r].next = None]
         /\ UNCHANGED lost
      \/ /\ run' = [run EXCEPT ![r].pc = "finish",
                               ![r].next = ComputeNextRunAt(t, [enabled |-> TRUE])]
         /\ UNCHANGED <<store, mem>> /\ lost' = Unrecorded(r, TRUE)
  BY DEF RunConsumes
<1>5. /\ ~rec.enabled
      /\ store[t].present => rec.present /\ rec.next = store[t].next /\ rec.ran = store[t].ran
      /\ ~store[t].present => rec.present = run[r].was.present /\ rec.next = run[r].was.next
  BY <1>2 DEF Records
<1> HIDE DEF rec
<1>6. OnlyTask(t)
  BY <1>1, <1>2, <1>3, <1>4 DEF TypeRecords, OnlyTask
<1>7. store' = [store EXCEPT ![t] = rec] /\ mem' = [mem EXCEPT ![t] = rec]
      => store'[t] = rec /\ mem'[t] = rec
  BY <1>1, <1>2 DEF TypeRecords
<1>8. QED
  BY <1>1, <1>2, <1>3, <1>4, <1>5, <1>6, <1>7, RunForms

(***************************************************************************)
(* The last update of a run.                                               *)
(***************************************************************************)
LEMMA FinishesEffect ==
  ASSUME IInv, NEW r \in Run, RunFinishes(r), NEW t, t = run[r].task
  PROVE  /\ t \in Task /\ run[r].pc = "finish" /\ Holds(ProjectOf(t), r) /\ Frees(ProjectOf(t))
         /\ OnlyTask(t) /\ Copied(t) /\ UNCHANGED sync
         /\ store'[t].enabled = store[t].enabled /\ store'[t].ran = store[t].ran
         /\ store[t].present => store'[t].next = run[r].next
         /\ IF store[t].present /\ run[r].gen = lifecycleGeneration /\ started
               /\ store[t].enabled /\ run[r].next # None
            THEN timer'[t] = run[r].next ELSE timer'[t] = timer[t]
         /\ RunTo(r, "settle", run[r].next, run[r].was)
<1>1. TypeRecords /\ TypeRuns /\ TypeTimers
  BY DEF IInv, TypeParts
<1>2. t \in Task /\ store[t] \in Records /\ run[r].pc = "finish"
      /\ Holds(ProjectOf(t), r) /\ Frees(ProjectOf(t)) /\ UNCHANGED sync
  BY <1>1 DEF RunFinishes, Writes, TypeRuns, TypeRecords
<1>3. RunTo(r, "settle", run[r].next, run[r].was)
  BY <1>1, RunForms DEF RunFinishes, Released
<1>4. store' = Patched(t, [store[t] EXCEPT !.status = "ended", !.next = run[r].next])
      /\ mem' = (IF store[t].present THEN [mem EXCEPT ![t] = store'[t]] ELSE mem)
      /\ timer' = IF store[t].present /\ run[r].gen = lifecycleGeneration
                  THEN Rearmed(t, store'[t]) ELSE timer
  BY DEF RunFinishes
<1>5. /\ Copied(t)
      /\ store'[t].enabled = store[t].enabled /\ store'[t].ran = store[t].ran
      /\ store[t].present => store'[t].next = run[r].next
  BY <1>1, <1>2, <1>4 DEF Patched, TypeRecords, Records, Copied
<1>6. IF store[t].present /\ run[r].gen = lifecycleGeneration /\ started
         /\ store[t].enabled /\ run[r].next # None
      THEN timer'[t] = run[r].next ELSE timer'[t] = timer[t]
  BY <1>1, <1>2, <1>4, <1>5 DEF Rearmed, TypeTimers
<1>7. OnlyTask(t)
  BY <1>1, <1>2, <1>4 DEF Patched, Rearmed, TypeRecords, TypeTimers, OnlyTask
<1>8. QED
  BY <1>2, <1>3, <1>5, <1>6, <1>7

(***************************************************************************)
(* The first or the last update of a run fails.                            *)
(***************************************************************************)
LEMMA FailsEffect ==
  ASSUME IInv, NEW r \in Run, RunFails(r), NEW t, t = run[r].task
  PROVE  /\ t \in Task /\ run[r].pc \in {"begin", "finish"}
         /\ Holds(ProjectOf(t), r) /\ Frees(ProjectOf(t))
         /\ UNCHANGED <<store, mem, timer, sync>>
         /\ RunTo(r, "settle", run[r].next, run[r].was)
<1>1. TypeRuns
  BY DEF IInv, TypeParts
<1>2. RunTo(r, "settle", run[r].next, run[r].was)
  BY <1>1, RunForms DEF RunFails, Released
<1>3. QED
  BY <1>1, <1>2 DEF RunFails, Writes, TypeRuns, scheduler

(***************************************************************************)
(* An item leaves the queue.                                               *)
(***************************************************************************)
LEMMA StartsEffect ==
  ASSUME IInv, NEW r \in Run, PumpStarts(r), NEW t, t = queue[index].task
  PROVE  /\ t \in Task /\ index \in 1..Len(queue) /\ queue' = Without(queue, index)
         /\ run[r].pc = "idle" /\ UNCHANGED <<store, mem, timer, sync>>
         /\ \A s \in Run : s # r => run'[s] = run[s]
         /\ run'[r].pc \in {"settle", "begin"} /\ run'[r].task = t /\ run'[r].next = None
         /\ run'[r].was = mem[t] /\ run'[r].at = now /\ run'[r].reason = queue[index].reason
         /\ run'[r].pc = "begin" => /\ mem[t].present /\ t \notin runningTaskKeys
                                    /\ run'[r].reason = "scheduled" => mem[t].enabled
                                    /\ Asks(ProjectOf(t), r)
         /\ run'[r].pc = "settle" => UNCHANGED lock
<1>1. TypeQueue /\ TypeRuns /\ TypeThread /\ Pumping
  BY DEF IInv, TypeParts
<1>2. index \in 1..Len(queue) /\ queue[index] \in Items
  BY <1>1 DEF PumpStarts, TypeThread, Pumping, TypeQueue
<1>3. t \in Task /\ queue[index].reason \in Reasons
  BY <1>2 DEF Items
<1> DEFINE refused == \/ ~mem[t].present
                      \/ queue[index].reason = "scheduled" /\ ~mem[t].enabled
                      \/ t \in runningTaskKeys
           rec == [IdleRun EXCEPT !.pc = IF refused THEN "settle" ELSE "begin", !.task = t,
                                  !.reason = queue[index].reason, !.call = queue[index].call,
                                  !.gen = lifecycleGeneration, !.was = mem[t], !.at = now]
<1>4. run[r].pc = "idle" /\ run' = [run EXCEPT ![r] = rec]
      /\ (IF refused THEN UNCHANGED lock ELSE Asks(ProjectOf(t), r))
  BY DEF PumpStarts
<1>5. rec.pc = (IF refused THEN "settle" ELSE "begin") /\ rec.task = t /\ rec.next = None
      /\ rec.was = mem[t] /\ rec.at = now /\ rec.reason = queue[index].reason
  BY DEF IdleRun
<1> HIDE DEF rec
<1>6. run'[r] = rec /\ \A s \in Run : s # r => run'[s] = run[s]
  BY <1>1, <1>4 DEF TypeRuns
<1>7. queue' = Without(queue, index) /\ UNCHANGED <<store, mem, timer, sync>>
  BY DEF PumpStarts, Without, scheduler
<1>8. QED
  BY <1>2, <1>3, <1>4, <1>5, <1>6, <1>7

(***************************************************************************)
(* A call of syncProject.                                                  *)
(***************************************************************************)
LEMMA CalledEffect ==
  ASSUME TypeSyncs, NEW y \in Sync, NEW p, NEW left, NEW start, Called(y, p, left, start)
  PROVE  /\ \A z \in Sync : z # y => sync'[z] = sync[z]
         /\ sync'[y].pc = "list" /\ sync'[y].project = p /\ sync'[y].left = left
         /\ sync'[y].start = start
BY DEF Called, TypeSyncs, IdleSync

(***************************************************************************)
(* A call of syncProject: whoever makes it.                                *)
(***************************************************************************)
LEMMA CallsEffect ==
  ASSUME IInv, NEW y \in Sync,
         Start(y) \/ SyncEnds(y) \/ EditApplies(y) \/ \E p \in Projects : SyncBegins(y, p)
  PROVE  /\ \A z \in Sync : z # y => sync'[z] = sync[z]
         /\ sync'[y].pc \in {"idle", "list"}
<1>1. TypeSyncs
  BY DEF IInv, TypeParts
<1>2. (\E p, left, start : Called(y, p, left, start)) \/ sync' = [sync EXCEPT ![y] = IdleSync]
  BY DEF Start, SyncEnds, EditApplies, SyncBegins
<1>3. CASE sync' = [sync EXCEPT ![y] = IdleSync]
  BY <1>1, <1>3 DEF TypeSyncs, IdleSync
<1>4. CASE \E p, left, start : Called(y, p, left, start)
  BY <1>1, <1>4, CalledEffect
<1>5. QED
  BY <1>2, <1>3, <1>4

(***************************************************************************)
(* A route asks for the lock.                                              *)
(***************************************************************************)
LEMMA EditBeginsEffect ==
  ASSUME IInv, NEW y \in Sync, NEW t \in Task, EditBegins(y, t)
  PROVE  /\ \A z \in Sync : z # y => sync'[z] = sync[z]
         /\ sync'[y].pc = "edit" /\ sync'[y].project = ProjectOf(t) /\ sync'[y].left = {}
         /\ sync'[y].cur = t
         /\ Asks(ProjectOf(t), y) /\ sync[y].pc = "idle"
<1>1. TypeSyncs
  BY DEF IInv, TypeParts
<1>2. QED
  BY <1>1 DEF EditBegins, TypeSyncs, IdleSync

(***************************************************************************)
(* A route changes a task.                                                 *)
(***************************************************************************)
LEMMA EditEffect ==
  ASSUME IInv, NEW y \in Sync, EditApplies(y), NEW t, t = sync[y].cur
  PROVE  /\ t \in Task /\ sync[y].pc = "edit" /\ sync[y].project \in Projects
         /\ Holds(sync[y].project, y) /\ Frees(sync[y].project)
         /\ \A z \in Sync : z # y => sync'[z] = sync[z]
         /\ sync'[y].pc = "list" /\ sync'[y].project = sync[y].project
         /\ \A u \in Task : u # t => store'[u] = store[u]
         /\ store'[t].enabled => store'[t].present
         /\ store'[t].next \in {None, store[t].next}
         /\ store'[t].present /\ ~store'[t].enabled => store[t].enabled /\ store'[t].ran = store[t].ran
         /\ UNCHANGED <<mem, timer>>
         /\ fired' = IF store'[t].present /\ ~store'[t].enabled THEN fired
                     ELSE [fired EXCEPT ![t] = 0]
<1>1. TypeSyncs /\ TypeRecords
  BY DEF IInv, TypeParts
<1>2. t \in Task /\ sync[y].pc = "edit" /\ sync[y].project \in Projects
      /\ Holds(sync[y].project, y) /\ Frees(sync[y].project)
  BY <1>1 DEF EditApplies, TypeSyncs
<1>3. store[t] \in Records
  BY <1>1, <1>2 DEF TypeRecords
<1>4. \A z \in Sync : z # y => sync'[z] = sync[z]
  BY CallsEffect
<1>5. sync'[y].pc = "list" /\ sync'[y].project = sync[y].project
  BY <1>1, CalledEffect DEF EditApplies
<1> DEFINE rec == [store[t] EXCEPT !.enabled = store[t].present /\ ~store[t].enabled]
<1>6. store' = [store EXCEPT ![t] = rec] \/ store' = [store EXCEPT ![t] = Absent]
  BY DEF EditApplies
<1>7. /\ rec.present = store[t].present /\ rec.enabled = (store[t].present /\ ~store[t].enabled)
      /\ rec.next = store[t].next /\ rec.ran = store[t].ran
  BY <1>3 DEF Records
<1>8. ~Absent.present /\ ~Absent.enabled /\ Absent.next = None
  BY DEF Absent
<1> HIDE DEF rec
<1>9. /\ \A u \in Task : u # t => store'[u] = store[u]
      /\ store'[t] \in {rec, Absent}
  BY <1>1, <1>2, <1>6 DEF TypeRecords
<1>10. UNCHANGED <<mem, timer>>
  BY DEF EditApplies, scheduler
<1>11. store[t].enabled \in BOOLEAN
  BY <1>3 DEF Records
<1>12. fired' = IF store'[t].present /\ ~store'[t].enabled THEN fired
                ELSE [fired EXCEPT ![t] = 0]
  BY DEF EditApplies
<1>13. /\ store'[t].enabled => store'[t].present
       /\ store'[t].next \in {None, store[t].next}
       /\ store'[t].present /\ ~store'[t].enabled => store[t].enabled /\ store'[t].ran = store[t].ran
  BY <1>7, <1>8, <1>9, <1>11
<1>14. QED
  BY <1>2, <1>4, <1>5, <1>9, <1>10, <1>12, <1>13

(***************************************************************************)
(* The tasks are listed.                                                   *)
(***************************************************************************)
LEMMA ListsEffect ==
  ASSUME IInv, NEW y \in Sync, SyncLists(y)
  PROVE  /\ sync[y].pc = "list" /\ sync[y].project \in Projects /\ Asks(sync[y].project, y)
         /\ SyncTo(y, "set", store, sync[y].todo)
<1>1. TypeSyncs
  BY DEF IInv, TypeParts
<1>2. sync' = [sync EXCEPT ![y] = [sync[y] EXCEPT !.pc = "set", !.seen = store]]
  BY <1>1 DEF SyncLists, TypeSyncs, Syncs
<1>3. SyncTo(y, "set", store, sync[y].todo)
  BY <1>1, <1>2 DEF TypeSyncs, Syncs, SyncTo
<1>4. QED
  BY <1>1, <1>3 DEF SyncLists, TypeSyncs

(***************************************************************************)
(* The first loop turns to the tasks S.                                    *)
(***************************************************************************)
LEMMA TurnedEffect ==
  ASSUME TypeSyncs, NEW y \in Sync, NEW list, NEW S \in SUBSET Task, Turned(y, list, S)
  PROVE  /\ SyncTo(y, "schedule", list, S)
         /\ S = {} => sync'[y].cur = None /\ sync'[y].next = None
         /\ S # {} => /\ sync'[y].cur \in S
                      /\ sync'[y].next = ComputeNextRunAt(sync'[y].cur, list[sync'[y].cur])
<1> DEFINE c == IF S = {} THEN None ELSE First(S)
           n == IF S = {} THEN None ELSE ComputeNextRunAt(First(S), list[First(S)])
<1>1. S # {} => First(S) \in S
  BY FirstTask
<1>2. sync' = [sync EXCEPT ![y] = [sync[y] EXCEPT !.pc = "schedule", !.seen = list, !.todo = S,
                                                 !.cur = c, !.next = n]]
  BY DEF Turned, TypeSyncs, Syncs
<1>3. S = {} => c = None /\ n = None
  OBVIOUS
<1>4. S # {} => c \in S /\ n = ComputeNextRunAt(c, list[c])
  BY <1>1
<1> HIDE DEF c, n
<1>5. SyncTo(y, "schedule", list, S) /\ sync'[y].cur = c /\ sync'[y].next = n
  BY <1>2 DEF TypeSyncs, Syncs, SyncTo
<1>6. QED
  BY <1>3, <1>4, <1>5

(***************************************************************************)
(* setProjectTasks with the list it was given.                             *)
(***************************************************************************)
LEMMA SetsEffect ==
  ASSUME IInv, NEW y \in Sync, SyncSets(y), NEW p, p = sync[y].project
  PROVE  /\ sync[y].pc = "set" /\ p \in Projects /\ Holds(p, y) /\ UNCHANGED store
         /\ sync'[y].seen \in {store, sync[y].seen} /\ sync'[y].seen \in [Task -> Records]
         /\ sync'[y].todo \subseteq p
         /\ \A t \in p : t \in sync'[y].todo <=> sync'[y].seen[t].present
         /\ \A t \in Task : timer'[t] = IF t \in p /\ mem[t].present THEN None ELSE timer[t]
         /\ \A t \in Task : mem'[t] = IF t \in p THEN sync'[y].seen[t] ELSE mem[t]
         /\ SyncTo(y, "schedule", sync'[y].seen, sync'[y].todo)
         /\ sync'[y].todo = {} => sync'[y].cur = None /\ sync'[y].next = None /\ Frees(p)
         /\ sync'[y].todo # {} =>
              /\ sync'[y].cur \in sync'[y].todo
              /\ sync'[y].next = ComputeNextRunAt(sync'[y].cur, sync'[y].seen[sync'[y].cur])
              /\ AsksAgain(p, y)
<1>1. TypeSyncs /\ TypeRecords
  BY DEF IInv, TypeParts
<1>2. sync[y].pc = "set" /\ p \in Projects /\ Holds(p, y) /\ UNCHANGED store
      /\ sync[y].seen \in [Task -> Records]
  BY <1>1 DEF SyncSets, TypeSyncs, Listed
<1>3. p \subseteq Task
  BY <1>2, ProjectsAssumption
<1>4. PICK list \in {store, sync[y].seen} :
         /\ timer' = [t \in Task |-> IF t \in p /\ mem[t].present THEN None ELSE timer[t]]
         /\ mem' = [t \in Task |-> IF t \in p THEN list[t] ELSE mem[t]]
         /\ Turned(y, list, {t \in p : list[t].present})
         /\ IF {t \in p : list[t].present} = {} THEN Frees(p) ELSE AsksAgain(p, y)
  BY DEF SyncSets
<1> DEFINE S == {t \in p : list[t].present}
<1>5. S \in SUBSET p /\ S \in SUBSET Task /\ \A t \in p : t \in S <=> list[t].present
  BY <1>3
<1>6. list \in [Task -> Records]
  BY <1>1, <1>2 DEF TypeRecords
<1>7. Turned(y, list, S) /\ IF S = {} THEN Frees(p) ELSE AsksAgain(p, y)
  BY <1>4
<1> HIDE DEF S
<1>8. /\ SyncTo(y, "schedule", list, S)
      /\ S = {} => sync'[y].cur = None /\ sync'[y].next = None
      /\ S # {} => /\ sync'[y].cur \in S
                   /\ sync'[y].next = ComputeNextRunAt(sync'[y].cur, list[sync'[y].cur])
  BY <1>1, <1>5, <1>7, TurnedEffect
<1>9. /\ \A t \in Task : timer'[t] = IF t \in p /\ mem[t].present THEN None ELSE timer[t]
      /\ \A t \in Task : mem'[t] = IF t \in p THEN list[t] ELSE mem[t]
  BY <1>4
<1>10. sync'[y].seen = list /\ sync'[y].todo = S
  BY <1>8 DEF SyncTo
<1>11. QED
  BY <1>2, <1>5, <1>6, <1>7, <1>8, <1>9, <1>10

(***************************************************************************)
(* syncTaskSchedule.                                                       *)
(***************************************************************************)
LEMMA ScheduleEffect ==
  ASSUME TypeRecords, TypeTimers, NEW t \in Task, NEW n, SyncTaskSchedule(t, n)
  PROVE  /\ OnlyTask(t) /\ Copied(t)
         /\ store'[t].enabled = store[t].enabled /\ store'[t].ran = store[t].ran
         /\ store[t].present => store'[t].next = n
         /\ timer'[t] = IF store[t].present /\ started /\ store[t].enabled /\ n # None
                        THEN n ELSE timer[t]
<1>1. store[t] \in Records
  BY DEF TypeRecords
<1>2. store' = Patched(t, [store[t] EXCEPT !.next = n])
      /\ IF store[t].present
         THEN mem' = [mem EXCEPT ![t] = store'[t]] /\ timer' = Rearmed(t, store'[t])
         ELSE UNCHANGED <<mem, timer>>
  BY DEF SyncTaskSchedule
<1>3. /\ Copied(t)
      /\ store'[t].enabled = store[t].enabled /\ store'[t].ran = store[t].ran
      /\ store[t].present => store'[t].next = n
  BY <1>1, <1>2 DEF Patched, TypeRecords, Records, Copied
<1>4. timer'[t] = IF store[t].present /\ started /\ store[t].enabled /\ n # None
                  THEN n ELSE timer[t]
  BY <1>2, <1>3 DEF Rearmed, TypeTimers
<1>5. OnlyTask(t)
  BY <1>2 DEF Patched, Rearmed, TypeRecords, TypeTimers, OnlyTask
<1>6. QED
  BY <1>3, <1>4, <1>5

(***************************************************************************)
(* One round of the first loop.                                            *)
(***************************************************************************)
LEMMA SchedulesEffect ==
  ASSUME IInv, NEW y \in Sync, SyncSchedules(y), NEW p, p = sync[y].project,
         NEW t, t = sync[y].cur
  PROVE  /\ sync[y].pc = "schedule" /\ p \in Projects /\ t \in sync[y].todo /\ t \in p /\ t \in Task
         /\ Holds(p, y) /\ OnlyTask(t)
         /\ store'[t].present = store[t].present /\ store'[t].enabled = store[t].enabled
         /\ store'[t].ran = store[t].ran
         /\ store[t].present => mem'[t] = store'[t] /\ store'[t].next = sync[y].next
         /\ ~store[t].present => store'[t] = store[t] /\ mem'[t] = sync[y].seen[t]
         /\ timer'[t] = IF store[t].present /\ started /\ store[t].enabled /\ sync[y].next # None
                        THEN sync[y].next ELSE timer[t]
         /\ sync'[y].todo = sync[y].todo \ {t}
         /\ SyncTo(y, "schedule", sync[y].seen, sync'[y].todo)
         /\ sync'[y].todo = {} => sync'[y].cur = None /\ sync'[y].next = None /\ Frees(p)
         /\ sync'[y].todo # {} =>
              /\ sync'[y].cur \in sync'[y].todo
              /\ sync'[y].next = ComputeNextRunAt(sync'[y].cur, sync[y].seen[sync'[y].cur])
              /\ AsksAgain(p, y)
<1>1. TypeSyncs /\ TypeRecords /\ TypeTimers /\ Looping
  BY DEF IInv, TypeParts
<1>2. sync[y].pc = "schedule" /\ p \in Projects /\ t \in sync[y].todo /\ sync[y].todo \subseteq p
      /\ Holds(p, y) /\ p \subseteq Task
  BY <1>1, ProjectsAssumption DEF SyncSchedules, TypeSyncs, Looping
<1>3. t \in p /\ t \in Task
  BY <1>2
<1>4. IF store[t].present THEN SyncTaskSchedule(t, sync[y].next)
      ELSE mem' = [mem EXCEPT ![t] = sync[y].seen[t]] /\ UNCHANGED <<store, timer>>
  BY DEF SyncSchedules
<1>5. /\ OnlyTask(t)
      /\ store'[t].present = store[t].present /\ store'[t].enabled = store[t].enabled
      /\ store'[t].ran = store[t].ran
      /\ store[t].present => mem'[t] = store'[t] /\ store'[t].next = sync[y].next
      /\ ~store[t].present => store'[t] = store[t] /\ mem'[t] = sync[y].seen[t]
      /\ timer'[t] = IF store[t].present /\ started /\ store[t].enabled /\ sync[y].next # None
                     THEN sync[y].next ELSE timer[t]
  <2>1. CASE store[t].present
    <3>1. SyncTaskSchedule(t, sync[y].next)
      BY <1>4, <2>1
    <3>2. /\ OnlyTask(t) /\ Copied(t)
          /\ store'[t].enabled = store[t].enabled /\ store'[t].ran = store[t].ran
          /\ store[t].present => store'[t].next = sync[y].next
          /\ timer'[t] = IF store[t].present /\ started /\ store[t].enabled /\ sync[y].next # None
                         THEN sync[y].next ELSE timer[t]
      BY <1>1, <1>3, <3>1, ScheduleEffect
    <3>3. QED
      BY <2>1, <3>2 DEF Copied
  <2>2. CASE ~store[t].present
    BY <1>1, <1>3, <1>4, <2>2 DEF OnlyTask, TypeRecords
  <2>3. QED
    BY <2>1, <2>2
<1> DEFINE S == sync[y].todo \ {t}
<1>6. Turned(y, sync[y].seen, S) /\ (IF S = {} THEN Frees(p) ELSE AsksAgain(p, y))
  BY DEF SyncSchedules
<1>7. S \in SUBSET sync[y].todo /\ S \in SUBSET Task
  BY <1>2
<1>8. /\ SyncTo(y, "schedule", sync[y].seen, S)
      /\ S = {} => sync'[y].cur = None /\ sync'[y].next = None
      /\ S # {} => /\ sync'[y].cur \in S
                   /\ sync'[y].next = ComputeNextRunAt(sync'[y].cur, sync[y].seen[sync'[y].cur])
  BY <1>1, <1>6, <1>7, TurnedEffect
<1> HIDE DEF S
<1>9. sync'[y].todo = S
  BY <1>8 DEF SyncTo
<1>10. QED
  BY <1>2, <1>3, <1>5, <1>6, <1>8, <1>9 DEF S

(***************************************************************************)
(* The first loop fails.                                                   *)
(***************************************************************************)
LEMMA SyncFailsEffect ==
  ASSUME IInv, NEW y \in Sync, SyncFails(y), NEW p, p = sync[y].project
  PROVE  /\ sync[y].pc = "schedule" /\ p \in Projects /\ Holds(p, y) /\ Frees(p)
         /\ UNCHANGED <<store, mem, run>>
         /\ \A z \in Sync : z # y => sync'[z] = sync[z]
         /\ sync'[y].pc = "idle" /\ sync'[y].left = {}
         /\ \/ started' = FALSE /\ (\A t \in Task : timer'[t] = None) /\ queue' = <<>>
               /\ queuedTaskKeys' = {} /\ sync[y].start
            \/ UNCHANGED <<started, timer, queue, queuedTaskKeys>> /\ ~(sync[y].start /\ started)
<1>1. TypeSyncs
  BY DEF IInv, TypeParts
<1>2. \/ started' = FALSE /\ (\A t \in Task : timer'[t] = None) /\ queue' = <<>>
         /\ queuedTaskKeys' = {} /\ sync[y].start
      \/ UNCHANGED <<started, timer, queue, queuedTaskKeys>> /\ ~(sync[y].start /\ started)
  BY DEF SyncFails, Stopped
<1>3. (\A z \in Sync : z # y => sync'[z] = sync[z]) /\ sync'[y].pc = "idle" /\ sync'[y].left = {}
  BY <1>1 DEF SyncFails, TypeSyncs, IdleSync
<1>4. QED
  BY <1>1, <1>2, <1>3 DEF SyncFails, TypeSyncs

(***************************************************************************)
(* The second loop begins.                                                 *)
(***************************************************************************)
LEMMA SnapshotsEffect ==
  ASSUME IInv, NEW y \in Sync, SyncSnapshots(y)
  PROVE  /\ sync[y].pc = "schedule" /\ sync[y].todo = {}
         /\ SyncTo(y, "reconcile", mem, {t \in sync[y].project : mem[t].present})
         /\ sync'[y].at = now
<1>1. TypeSyncs
  BY DEF IInv, TypeParts
<1> DEFINE S == {t \in sync[y].project : mem[t].present}
<1>2. sync' = [sync EXCEPT ![y] = [sync[y] EXCEPT !.pc = "reconcile", !.seen = mem, !.at = now,
                                                 !.next = None, !.todo = S]]
  BY <1>1 DEF SyncSnapshots, TypeSyncs, Syncs
<1> HIDE DEF S
<1>3. SyncTo(y, "reconcile", mem, S) /\ sync'[y].at = now
  BY <1>1, <1>2 DEF TypeSyncs, Syncs, SyncTo
<1>4. QED
  BY <1>3 DEF SyncSnapshots, S

(***************************************************************************)
(* One step of the second loop.                                            *)
(***************************************************************************)
LEMMA ChecksEffect ==
  ASSUME IInv, NEW y \in Sync, SyncChecks(y), NEW t, t = First(sync[y].todo)
  PROVE  /\ t \in Task /\ t \in sync[y].todo /\ sync[y].pc = "reconcile" /\ sync[y].project \in Projects
         /\ \/ /\ SyncTo(y, "interrupt", sync[y].seen, sync[y].todo)
               /\ sync'[y].at = sync[y].at
               /\ Asks(sync[y].project, y) /\ UNCHANGED <<queue, queuedTaskKeys>>
            \/ /\ SyncTo(y, "reconcile", sync[y].seen, sync[y].todo \ {t})
               /\ sync'[y].at = sync[y].at
               /\ UNCHANGED lock
               /\ \/ UNCHANGED <<queue, queuedTaskKeys>>
                  \/ Overdue(t, sync[y].seen[t], sync[y].at) /\ QueueTaskRun(t, "scheduled", None)
<1>1. TypeSyncs /\ Looping
  BY DEF IInv, TypeParts
<1>2. sync[y].pc = "reconcile" /\ sync[y].todo # {} /\ sync[y].project \in Projects
      /\ sync[y].todo \subseteq sync[y].project /\ sync[y].project \subseteq Task
  BY <1>1, ProjectsAssumption DEF SyncChecks, TypeSyncs, Looping
<1>3. t \in sync[y].todo /\ t \in Task
  BY <1>2, FirstTask
<1>4. \/ /\ sync' = [sync EXCEPT ![y].pc = "interrupt", ![y].cur = t]
         /\ Asks(sync[y].project, y) /\ UNCHANGED <<queue, queuedTaskKeys>>
      \/ /\ sync' = [sync EXCEPT ![y].todo = @ \ {t}] /\ UNCHANGED lock
         /\ \/ UNCHANGED <<queue, queuedTaskKeys>>
            \/ Overdue(t, sync[y].seen[t], sync[y].at) /\ QueueTaskRun(t, "scheduled", None)
  BY DEF SyncChecks, CatchUp
<1>5. CASE sync' = [sync EXCEPT ![y].pc = "interrupt", ![y].cur = t]
  <2>1. sync' = [sync EXCEPT ![y] = [sync[y] EXCEPT !.pc = "interrupt", !.cur = t]]
    BY <1>1, <1>5 DEF TypeSyncs, Syncs
  <2>2. SyncTo(y, "interrupt", sync[y].seen, sync[y].todo) /\ sync'[y].at = sync[y].at
    BY <1>1, <2>1 DEF TypeSyncs, Syncs, SyncTo
  <2>3. sync'[y].pc # sync[y].pc
    BY <1>2, <2>2 DEF SyncTo
  <2>4. sync' # [sync EXCEPT ![y].todo = @ \ {t}]
    BY <1>1, <2>3 DEF TypeSyncs, Syncs
  <2>5. QED
    BY <1>2, <1>3, <1>4, <2>2, <2>4
<1>6. CASE sync' = [sync EXCEPT ![y].todo = @ \ {t}]
  <2>1. sync' = [sync EXCEPT ![y] = [sync[y] EXCEPT !.todo = sync[y].todo \ {t}]]
    BY <1>1, <1>6 DEF TypeSyncs, Syncs
  <2>2. SyncTo(y, sync[y].pc, sync[y].seen, sync[y].todo \ {t}) /\ sync'[y].at = sync[y].at
    BY <1>1, <2>1 DEF TypeSyncs, Syncs, SyncTo
  <2>3. sync' # [sync EXCEPT ![y].pc = "interrupt", ![y].cur = t]
    BY <1>1, <1>2, <2>2 DEF TypeSyncs, Syncs, SyncTo
  <2>4. QED
    BY <1>2, <1>3, <1>4, <2>2, <2>3
<1>7. QED
  BY <1>4, <1>5, <1>6

(***************************************************************************)
(* A run is marked as interrupted.                                         *)
(***************************************************************************)
LEMMA InterruptsEffect ==
  ASSUME IInv, NEW y \in Sync, SyncInterrupts(y), NEW t, t = sync[y].cur
  PROVE  /\ t \in Task /\ sync[y].pc = "interrupt" /\ sync[y].project \in Projects
         /\ t \in sync[y].project
         /\ Holds(sync[y].project, y) /\ Frees(sync[y].project)
         /\ OnlyTask(t) /\ UNCHANGED timer
         /\ store'[t].present = store[t].present /\ store'[t].enabled = store[t].enabled
         /\ store'[t].next = store[t].next /\ store'[t].ran = store[t].ran
         /\ mem'[t] = mem[t] \/ (store[t].present /\ mem'[t] = store'[t])
         /\ SyncTo(y, "reconcile", sync[y].seen, sync[y].todo \ {t})
         /\ sync'[y].at = sync[y].at
         /\ \/ UNCHANGED <<queue, queuedTaskKeys>>
            \/ Overdue(t, sync[y].seen[t], sync[y].at) /\ QueueTaskRun(t, "scheduled", None)
<1>1. TypeSyncs /\ TypeRecords /\ Looping
  BY DEF IInv, TypeParts
<1>2. t \in Task /\ sync[y].pc = "interrupt" /\ sync[y].project \in Projects
      /\ t \in sync[y].project /\ Holds(sync[y].project, y) /\ Frees(sync[y].project)
  BY <1>1 DEF SyncInterrupts, TypeSyncs, Looping
<1>3. store[t] \in Records
  BY <1>1, <1>2 DEF TypeRecords
<1>4. sync' = [sync EXCEPT ![y] = [sync[y] EXCEPT !.pc = "reconcile", !.cur = None,
                                                 !.todo = sync[y].todo \ {t}]]
  BY <1>1 DEF SyncInterrupts, TypeSyncs, Syncs
<1>5. SyncTo(y, "reconcile", sync[y].seen, sync[y].todo \ {t}) /\ sync'[y].at = sync[y].at
  BY <1>1, <1>4 DEF TypeSyncs, Syncs, SyncTo
<1>6. \/ UNCHANGED <<store, mem>>
      \/ /\ store' = Patched(t, [store[t] EXCEPT !.status = "interrupted"])
         /\ mem' = IF store[t].present THEN [mem EXCEPT ![t] = store'[t]] ELSE mem
  BY DEF SyncInterrupts
<1>7. UNCHANGED timer
  BY DEF SyncInterrupts
<1>8. OnlyTask(t)
  BY <1>1, <1>2, <1>6, <1>7 DEF Patched, TypeRecords, OnlyTask
<1>9. /\ store'[t].present = store[t].present /\ store'[t].enabled = store[t].enabled
      /\ store'[t].next = store[t].next /\ store'[t].ran = store[t].ran
      /\ mem'[t] = mem[t] \/ (store[t].present /\ mem'[t] = store'[t])
  BY <1>1, <1>2, <1>3, <1>6 DEF Patched, TypeRecords, Records
<1>10. \/ UNCHANGED <<queue, queuedTaskKeys>>
       \/ Overdue(t, sync[y].seen[t], sync[y].at) /\ QueueTaskRun(t, "scheduled", None)
  BY DEF SyncInterrupts, CatchUp
<1>11. QED
  BY <1>2, <1>5, <1>7, <1>8, <1>9, <1>10

-----------------------------------------------------------------------------
(* What a step leaves in order.                                            *)

\* The queues of the locks are moved by w.
LockBy(w) ==
    \E p \in Projects : Asks(p, w) \/ (Holds(p, w) /\ (Frees(p) \/ AsksAgain(p, w)))

\* w is not a run or a synchronisation that rests.
Acts(w) == (w \in Run => run'[w] # run[w]) /\ (w \in Sync => sync'[w] # sync[w])

LockMoves == UNCHANGED lock \/ Crash \/ \E w \in Writers : LockBy(w) /\ Acts(w)

(***************************************************************************)
(* Somebody moves the queues.                                              *)
(***************************************************************************)
LEMMA MovedBy ==
  ASSUME NEW p \in Projects, NEW w \in Writers, Acts(w),
         \/ UNCHANGED lock
         \/ Asks(p, w)
         \/ Holds(p, w) /\ (Frees(p) \/ AsksAgain(p, w))
  PROVE  LockMoves
BY DEF LockMoves, LockBy

(***************************************************************************)
(* A run that goes on acts.                                                *)
(***************************************************************************)
LEMMA RunActs ==
  ASSUME NEW r \in Run, run'[r].pc # run[r].pc
  PROVE  r \in Writers /\ Acts(r)
BY Kinds DEF Acts

(***************************************************************************)
(* The queues move by one writer at a time, which goes on with it.         *)
(***************************************************************************)
LEMMA LockMovesStep ==
  ASSUME IInv, [Next]_vars
  PROVE  LockMoves
<1>1. TypeClock /\ TypeTimers /\ TypeLock
  BY DEF IInv, TypeParts
<1>2. ASSUME UNCHANGED lock PROVE LockMoves
  BY <1>2 DEF LockMoves
<1>3. ASSUME NEW t \in Task, TimerFires(t) PROVE LockMoves
  <2> DEFINE w == <<t, ComputeNextRunAt(t, mem[t])>>
  <2>1. w \in Task \X Slots
    BY <1>1, NextIsSlot DEF TypeClock
  <2>2. ProjectOf(t) \in Projects /\ w \in Writers /\ Acts(w)
    BY <2>1, ProjectOfTask, TaskAssumption, WriterAssumption DEF Writers, Slots, Acts
  <2>3. UNCHANGED lock \/ Asks(ProjectOf(t), w)
    BY <1>3 DEF TimerFires
  <2>4. QED
    BY <2>2, <2>3, MovedBy
<1>4. ASSUME NEW a \in advance, Advanced(a) PROVE LockMoves
  <2>1. a \in Task \X Slots
    BY <1>1, <1>4 DEF TypeTimers
  <2>2. a[1] \in Task /\ a \in Writers /\ a \in Nat \X Slots
    BY <2>1, TaskAssumption DEF Writers
  <2>3. ProjectOf(a[1]) \in Projects /\ Acts(a)
    BY <2>2, ProjectOfTask, WriterAssumption DEF Slots, Acts
  <2>4. QED
    BY <1>4, <2>2, <2>3, MovedBy DEF Advanced
<1>5. ASSUME NEW r \in Run, PumpStarts(r) PROVE LockMoves
  <2>1. queue[index].task \in Task /\ (UNCHANGED lock \/ Asks(ProjectOf(queue[index].task), r))
        /\ r \in Writers /\ Acts(r)
    BY <1>5, StartsEffect, RunActs
  <2>2. QED
    BY <2>1, ProjectOfTask, MovedBy
<1>6. ASSUME NEW r \in Run, RunBegins(r) PROVE LockMoves
  <2>1. run[r].task \in Task /\ r \in Writers /\ Acts(r)
    BY <1>6, BeginsEffect, RunActs DEF RunTo
  <2>2. QED
    BY <1>6, <2>1, BeginsEffect, ProjectOfTask, MovedBy
<1>7. ASSUME NEW r \in Run, RunExecuted(r) PROVE LockMoves
  <2>1. run[r].task \in Task /\ Asks(ProjectOf(run[r].task), r) /\ r \in Writers /\ Acts(r)
    BY <1>7, ExecutedEffect, RunActs DEF RunTo
  <2>2. QED
    BY <2>1, ProjectOfTask, MovedBy
<1>8. ASSUME NEW r \in Run, RunConsumes(r) PROVE LockMoves
  <2>1. run[r].task \in Task /\ Holds(ProjectOf(run[r].task), r)
        /\ AsksAgain(ProjectOf(run[r].task), r) /\ run'[r].pc # run[r].pc
    BY <1>8, ConsumesEffect DEF RunTo
  <2>2. QED
    BY <2>1, RunActs, ProjectOfTask, MovedBy
<1>9. ASSUME NEW r \in Run, RunFinishes(r) PROVE LockMoves
  <2>1. run[r].task \in Task /\ r \in Writers /\ Acts(r)
    BY <1>9, FinishesEffect, RunActs DEF RunTo
  <2>2. QED
    BY <1>9, <2>1, FinishesEffect, ProjectOfTask, MovedBy
<1>10. ASSUME NEW r \in Run, RunFails(r) PROVE LockMoves
  <2>1. run[r].task \in Task /\ r \in Writers /\ Acts(r)
    BY <1>10, FailsEffect, RunActs DEF RunTo
  <2>2. QED
    BY <1>10, <2>1, FailsEffect, ProjectOfTask, MovedBy
<1>11. ASSUME NEW y \in Sync, SyncLists(y) PROVE LockMoves
  <2>1. sync[y].pc # sync'[y].pc
    BY <1>11, ListsEffect DEF SyncTo
  <2>2. y \in Writers /\ Acts(y)
    BY <2>1, WriterAssumption DEF Acts, Writers
  <2>3. QED
    BY <1>11, <2>2, ListsEffect, MovedBy
<1>12. ASSUME NEW y \in Sync, SyncSets(y) PROVE LockMoves
  <2>1. sync[y].pc # sync'[y].pc /\ sync[y].project \in Projects
        /\ Holds(sync[y].project, y) /\ (Frees(sync[y].project) \/ AsksAgain(sync[y].project, y))
    BY <1>12, SetsEffect DEF SyncTo
  <2>2. y \in Writers /\ Acts(y)
    BY <2>1, WriterAssumption DEF Acts, Writers
  <2>3. QED
    BY <2>1, <2>2, MovedBy
<1>13. ASSUME NEW y \in Sync, SyncSchedules(y) PROVE LockMoves
  <2>1. sync[y].todo # sync'[y].todo /\ sync[y].project \in Projects
        /\ Holds(sync[y].project, y) /\ (Frees(sync[y].project) \/ AsksAgain(sync[y].project, y))
    BY <1>13, SchedulesEffect DEF SyncTo
  <2>2. y \in Writers /\ Acts(y)
    BY <2>1, WriterAssumption DEF Acts, Writers
  <2>3. QED
    BY <2>1, <2>2, MovedBy
<1>14. ASSUME NEW y \in Sync, SyncFails(y) PROVE LockMoves
  <2>1. sync[y].pc # sync'[y].pc
    BY <1>14, SyncFailsEffect
  <2>2. y \in Writers /\ Acts(y)
    BY <2>1, WriterAssumption DEF Acts, Writers
  <2>3. QED
    BY <1>14, <2>2, SyncFailsEffect, MovedBy
<1>15. ASSUME NEW y \in Sync, SyncChecks(y) PROVE LockMoves
  <2>1. sync[y].project \in Projects
        /\ (UNCHANGED lock \/ (Asks(sync[y].project, y) /\ sync'[y].pc # sync[y].pc))
    BY <1>15, ChecksEffect DEF SyncTo
  <2>2. CASE UNCHANGED lock
    BY <2>2 DEF LockMoves
  <2>3. CASE Asks(sync[y].project, y) /\ sync'[y].pc # sync[y].pc
    <3>1. y \in Writers /\ Acts(y)
      BY <2>3, WriterAssumption DEF Acts, Writers
    <3>2. QED
      BY <2>1, <2>3, <3>1, MovedBy
  <2>4. QED
    BY <2>1, <2>2, <2>3
<1>16. ASSUME NEW y \in Sync, SyncInterrupts(y) PROVE LockMoves
  <2>1. sync[y].pc # sync'[y].pc
    BY <1>16, InterruptsEffect DEF SyncTo
  <2>2. y \in Writers /\ Acts(y)
    BY <2>1, WriterAssumption DEF Acts, Writers
  <2>3. QED
    BY <1>16, <2>2, InterruptsEffect, MovedBy
<1>17. ASSUME NEW y \in Sync, NEW t \in Task, EditBegins(y, t) PROVE LockMoves
  <2>1. sync[y].pc # sync'[y].pc /\ ProjectOf(t) \in Projects /\ Asks(ProjectOf(t), y)
    BY <1>17, EditBeginsEffect, ProjectOfTask
  <2>2. y \in Writers /\ Acts(y)
    BY <2>1, WriterAssumption DEF Acts, Writers
  <2>3. QED
    BY <2>1, <2>2, MovedBy
<1>18. ASSUME NEW y \in Sync, EditApplies(y) PROVE LockMoves
  <2>1. sync[y].pc # sync'[y].pc
    BY <1>18, EditEffect
  <2>2. y \in Writers /\ Acts(y)
    BY <2>1, WriterAssumption DEF Acts, Writers
  <2>3. QED
    BY <1>18, <2>2, EditEffect, MovedBy
<1>19. ASSUME Crash PROVE LockMoves
  BY <1>19 DEF LockMoves
<1>20. ASSUME PumpSkips \/ PumpEnds \/ Stop \/ Tick
      PROVE  LockMoves
  BY <1>2, <1>20 DEF PumpSkips, PumpEnds, Stop, Tick, config
<1>21. ASSUME NEW r \in Run, RunSession(r) \/ RunSettles(r)
      PROVE  LockMoves
  BY <1>2, <1>21 DEF RunSession, RunSettles, config
<1>22. ASSUME NEW m \in Manual, NEW t \in Task, RunNow(m, t)
      PROVE  LockMoves
  BY <1>2, <1>22 DEF RunNow, config
<1>23. ASSUME NEW y \in Sync, NEW p \in Projects, SyncBegins(y, p)
      PROVE  LockMoves
  BY <1>2, <1>23 DEF SyncBegins, config
<1>24. ASSUME NEW y \in Sync, Start(y) \/ SyncSnapshots(y) \/ SyncEnds(y)
      PROVE  LockMoves
  BY <1>2, <1>24 DEF Start, SyncSnapshots, SyncEnds, config
<1>25. CASE UNCHANGED vars
  BY <1>2, <1>25 DEF vars, config, scheduler, admission, thread, history
<1>26. QED
  BY <1>3, <1>4, <1>5, <1>6, <1>7, <1>8, <1>9, <1>10, <1>11, <1>12, <1>13, <1>14, <1>15,
     <1>16, <1>17, <1>18, <1>19, <1>20, <1>21, <1>22, <1>23, <1>24, <1>25, Zenon DEF Next,
     Step, RunStep, SyncStep

(***************************************************************************)
(* A run or a synchronisation that does nothing keeps its place in the     *)
(* queues of the locks, whoever moves them.                                *)
(***************************************************************************)
PlaceKept(z) ==
    \A q \in Projects :
        /\ In(lock'[q], z) <=> In(lock[q], z)
        /\ \A v : Behind(lock[q], z, v) => Behind(lock'[q], z, v)
        /\ Single(lock[q], z) => Single(lock'[q], z)

LEMMA PlaceStep ==
  ASSUME IInv, [Next]_vars, ~Crash, NEW z \in Run \cup Sync, ~Acts(z)
  PROVE  PlaceKept(z)
<1>1. TypeLock
  BY DEF IInv, TypeParts
<1>2. CASE UNCHANGED lock
  BY <1>2 DEF PlaceKept
<1>3. ASSUME NEW w \in Writers, LockBy(w), Acts(w) PROVE PlaceKept(z)
  <2>1. PICK p \in Projects : Asks(p, w) \/ (Holds(p, w) /\ (Frees(p) \/ AsksAgain(p, w)))
    BY <1>3 DEF LockBy
  <2>2. w # z
    BY <1>3
  <2>3. ASSUME NEW q \in Projects
        PROVE  /\ In(lock'[q], z) <=> In(lock[q], z)
               /\ \A v : Behind(lock[q], z, v) => Behind(lock'[q], z, v)
               /\ Single(lock[q], z) => Single(lock'[q], z)
    <3>1. CASE Asks(p, w)
      BY <1>1, <2>2, <3>1, LockAsked
    <3>2. CASE Holds(p, w) /\ Frees(p)
      BY <1>1, <2>2, <3>2, LockFreed DEF Holds
    <3>3. CASE Holds(p, w) /\ AsksAgain(p, w)
      BY <1>1, <2>2, <3>3, LockAgain
    <3>4. QED
      BY <2>1, <3>1, <3>2, <3>3
  <2>4. QED
    BY <2>3 DEF PlaceKept
<1>4. QED
  BY <1>2, <1>3, LockMovesStep DEF LockMoves

(***************************************************************************)
(* In particular a synchronisation that rests.                             *)
(***************************************************************************)
Rests(z) == sync[z].pc # "idle" /\ sync'[z] = sync[z]
OrderKept ==
    \A q \in Projects, z \in Sync : Rests(z) =>
        /\ In(lock[q], z) => In(lock'[q], z)
        /\ \A v : Behind(lock[q], z, v) => Behind(lock'[q], z, v)

LEMMA OrderStep ==
  ASSUME IInv, [Next]_vars
  PROVE  OrderKept
<1>1. CASE Crash
  <2>1. \A z \in Sync : sync'[z].pc = "idle"
    BY <1>1 DEF Crash, IdleSync
  <2>2. QED
    BY <2>1 DEF OrderKept, Rests
<1>2. ASSUME ~Crash, NEW q \in Projects, NEW z \in Sync, Rests(z)
      PROVE  /\ In(lock[q], z) => In(lock'[q], z)
             /\ \A v : Behind(lock[q], z, v) => Behind(lock'[q], z, v)
  <2>1. ~Acts(z)
    BY <1>2, WriterAssumption DEF Rests, Acts
  <2>2. PlaceKept(z)
    BY <1>2, <2>1, PlaceStep
  <2>3. QED
    BY <2>2 DEF PlaceKept
<1>3. QED
  BY <1>1, <1>2 DEF OrderKept

-----------------------------------------------------------------------------
(* Where the values a step leaves for the task t come from.                *)

\* No run of t moves.
RunsKept(t) ==
    \A r \in Run : (Held(r) /\ run[r].task = t) \/ (Held(r)' /\ run'[r].task = t)
                       => run'[r] = run[r]

\* The record of t is the same, or an edit disables it.
StoreKept(t) ==
    /\ store'[t].present = store[t].present
    /\ store'[t].enabled => store[t].enabled
    /\ store'[t].ran = store[t].ran

\* The round of the first loop is about t.
TurnOf(y, t) == sync[y].pc = "schedule" /\ sync[y].cur = t

StoreFrom(t) ==
    /\ RunsKept(t) => StoreKept(t) \/ fired'[t] = 0
    /\ \/ store'[t].next \in {None, store[t].next}
       \/ \E y \in Sync : TurnOf(y, t) /\ store'[t].next = sync[y].next
       \/ \E a \in advance : a[1] = t
       \/ \E r \in Run : /\ Held(r) /\ run[r].task = t
                         /\ store'[t].next \in {run[r].next, run[r].was.next}
    /\ store'[t].enabled => store'[t].present \/ (~store[t].present /\ store[t].enabled)

MemFrom(t) ==
    \/ mem'[t] \in {mem[t], store'[t], Absent}
    \/ \E y \in Sync : /\ mem'[t] = sync[y].seen[t]
                       /\ \/ sync[y].pc = "set" /\ t \in sync[y].project
                          \/ sync[y].pc = "schedule" /\ ~store[t].present

SyncFrom(t) ==
    \A y \in Sync :
        /\ sync'[y].pc \in Listed =>
             \/ sync[y].pc \in Listed /\ sync'[y].seen[t] = sync[y].seen[t]
             \/ sync'[y].seen[t] \in {store[t], mem[t]}
        /\ sync'[y].pc = "set" => sync'[y] = sync[y] \/ SyncLists(y)
        /\ TurnOf(y, t)' =>
             \/ TurnOf(y, t) /\ sync'[y].next = sync[y].next
             \/ sync'[y].next = ComputeNextRunAt(t, sync'[y].seen[t])
        /\ sync'[y].pc \in {"reconcile", "interrupt"} =>
             \/ sync'[y].at = now
             \/ sync[y].pc \in {"reconcile", "interrupt"} /\ sync'[y].at = sync[y].at

TimerFrom(t) ==
    \/ timer'[t] \in {None, timer[t]}
    \/ timer[t] # None /\ timer'[t] = mem[t].next
    \/ \E y \in Sync : TurnOf(y, t) /\ timer'[t] = sync[y].next
    \/ \E a \in advance : a[1] = t
    \/ \E r \in Run : Held(r) /\ run[r].task = t /\ ~RunsKept(t) /\ timer'[t] = run[r].next

QueueFrom(t) ==
    \A i \in 1..Len(queue') : queue'[i].task = t =>
        \/ \E j \in 1..Len(queue) : queue'[i] = queue[j]
        \/ queue'[i].reason = "manual"
        \/ timer[t] # None /\ now >= timer[t]
        \/ \E y \in Sync : /\ sync[y].pc \in {"reconcile", "interrupt"}
                           /\ Overdue(t, sync[y].seen[t], sync[y].at)

RunFrom(t) ==
    \A r \in Run : Held(r)' /\ run'[r].task = t =>
        \/ /\ Held(r) /\ run[r].task = t
           /\ run'[r].at = run[r].at /\ run'[r].reason = run[r].reason
           /\ t \in Once => run'[r].next \in {run[r].next, None, Due}
           /\ run'[r].was \in {run[r].was, mem[t]}
        \/ /\ run'[r].next = None /\ run'[r].was = mem[t] /\ run'[r].at = now
           /\ \E i \in 1..Len(queue) : queue[i].task = t /\ queue[i].reason = run'[r].reason

FiredFrom(t) ==
    \/ fired'[t] \in {0, fired[t]}
    \/ \E r \in Run : run[r].task = t /\ run[r].reason = "scheduled" /\ RunBegins(r)

(***************************************************************************)
(* computeNextRunAt of a one-time task: its due time, until that has come. *)
(***************************************************************************)
LEMMA NextOfOnce ==
  ASSUME TypeClock, NEW t \in Once, NEW task
  PROVE  ComputeNextRunAt(t, task) \in {None, Due}
         /\ (now >= Due => ComputeNextRunAt(t, task) = None)
BY BoundAssumption DEF ComputeNextRunAt, TypeClock

(***************************************************************************)
(* A record that a step leaves alone comes from itself.                    *)
(***************************************************************************)
LEMMA StoreSame ==
  ASSUME NEW t, store'[t] = store[t]
  PROVE  StoreFrom(t)
BY DEF StoreFrom, StoreKept

(***************************************************************************)
(* Records that change for one task.                                       *)
(***************************************************************************)
LEMMA StoreOne ==
  ASSUME NEW u \in Task, \A t \in Task : t # u => store'[t] = store[t], StoreFrom(u)
  PROVE  \A t \in Task : StoreFrom(t)
BY StoreSame

(***************************************************************************)
(* A run that moves is not kept.                                           *)
(***************************************************************************)
LEMMA MovingRun ==
  ASSUME NEW r \in Run, Held(r), run'[r].pc # run[r].pc
  PROVE  ~RunsKept(run[r].task)
BY DEF RunsKept

(***************************************************************************)
(* A missed slot is advanced, or not.                                      *)
(***************************************************************************)
LEMMA AdvancedEffect ==
  ASSUME IInv, NEW a \in advance, Advanced(a), NEW t, t = a[1]
  PROVE  /\ t \in Task /\ OnlyTask(t) /\ advance' = advance \ {a} /\ UNCHANGED <<run, sync>>
         /\ store'[t].present = store[t].present
         /\ store'[t].enabled = store[t].enabled /\ store'[t].ran = store[t].ran
         /\ mem'[t] \in {mem[t], store'[t]}
         /\ \/ UNCHANGED <<store, mem, timer>> /\ excused' = excused \cup {t}
            \/ /\ UNCHANGED excused /\ Copied(t)
               /\ store[t].present => store'[t].next = a[2]
               /\ timer'[t] = IF store[t].present /\ started /\ store[t].enabled /\ a[2] # None
                              THEN a[2] ELSE timer[t]
<1>1. TypeRecords /\ TypeTimers
  BY DEF IInv, TypeParts
<1>2. t \in Task
  BY <1>1 DEF TypeTimers
<1>3. \/ SyncTaskSchedule(t, a[2]) /\ UNCHANGED excused
      \/ UNCHANGED <<store, mem, timer>> /\ excused' = excused \cup {t}
  BY DEF Advanced
<1>4. advance' = advance \ {a} /\ UNCHANGED <<run, sync>>
  BY DEF Advanced
<1>5. CASE UNCHANGED <<store, mem, timer>> /\ excused' = excused \cup {t}
  BY <1>2, <1>4, <1>5 DEF OnlyTask
<1>6. CASE SyncTaskSchedule(t, a[2]) /\ UNCHANGED excused
  <2>1. /\ OnlyTask(t) /\ Copied(t)
        /\ store'[t].enabled = store[t].enabled /\ store'[t].ran = store[t].ran
        /\ store[t].present => store'[t].next = a[2]
        /\ timer'[t] = IF store[t].present /\ started /\ store[t].enabled /\ a[2] # None
                       THEN a[2] ELSE timer[t]
    BY <1>1, <1>2, <1>6, ScheduleEffect
  <2>2. QED
    BY <1>2, <1>4, <1>6, <2>1 DEF Copied
<1>7. QED
  BY <1>3, <1>5, <1>6

\* An enabled task is there.
StoreMortal == \A t \in Task : store[t].enabled => store[t].present

(***************************************************************************)
(* The persisted records.                                                  *)
(***************************************************************************)
LEMMA StoreFromStep ==
  ASSUME IInv, IInv', StoreMortal, [Next]_vars
  PROVE  \A u \in Task : StoreFrom(u)
<1>1. TypeRecords /\ TypeRecords' /\ TypeHistory
  BY DEF IInv, TypeParts
<1>2. ASSUME UNCHANGED store PROVE \A u \in Task : StoreFrom(u)
  BY <1>2, StoreSame
<1>3. ASSUME NEW a \in advance, Advanced(a) PROVE \A u \in Task : StoreFrom(u)
  <2>1. a[1] \in Task /\ OnlyTask(a[1]) /\ StoreKept(a[1])
    BY <1>3, AdvancedEffect DEF StoreKept
  <2>2. StoreFrom(a[1])
    BY <1>1, <1>3, <2>1 DEF StoreFrom, StoreKept, TypeRecords, Records
  <2>3. QED
    BY <2>1, <2>2, StoreOne DEF OnlyTask
<1>4. ASSUME NEW r \in Run, RunBegins(r) PROVE \A u \in Task : StoreFrom(u)
  <2> DEFINE u == run[r].task
  <2>1. u \in Task /\ Held(r) /\ ~RunsKept(u) /\ OnlyTask(u)
    BY <1>4, BeginsEffect, MovingRun DEF Held, RunTo
  <2>2. store'[u].next = store[u].next
    BY <1>4, BeginsEffect
  <2>3. store'[u].present = store[u].present /\ store'[u].enabled = store[u].enabled
    BY <1>4, BeginsEffect DEF Copied
  <2>4. StoreFrom(u)
    BY <2>1, <2>2, <2>3 DEF StoreFrom
  <2>5. QED
    BY <2>1, <2>4, StoreOne DEF OnlyTask
<1>5. ASSUME NEW r \in Run, RunConsumes(r) PROVE \A u \in Task : StoreFrom(u)
  <2> DEFINE u == run[r].task
  <2>1. u \in Task /\ Held(r) /\ ~RunsKept(u) /\ OnlyTask(u)
    BY <1>5, ConsumesEffect, MovingRun DEF Held, RunTo
  <2>2. store'[u].next \in {store[u].next, run[r].was.next}
    BY <1>5, ConsumesEffect
  <2>3. store'[u].enabled => store'[u].present = store[u].present /\ store[u].enabled
    BY <1>5, ConsumesEffect
  <2>4. StoreFrom(u)
    BY <2>1, <2>2, <2>3 DEF StoreFrom
  <2>5. QED
    BY <2>1, <2>4, StoreOne DEF OnlyTask
<1>6. ASSUME NEW r \in Run, RunFinishes(r) PROVE \A u \in Task : StoreFrom(u)
  <2> DEFINE u == run[r].task
  <2>1. u \in Task /\ Held(r) /\ ~RunsKept(u) /\ OnlyTask(u)
    BY <1>6, FinishesEffect, MovingRun DEF Held, RunTo
  <2>2. store'[u].next \in {store[u].next, run[r].next}
    BY <1>6, FinishesEffect DEF Copied
  <2>3. store'[u].present = store[u].present /\ store'[u].enabled = store[u].enabled
    BY <1>6, FinishesEffect DEF Copied
  <2>4. StoreFrom(u)
    BY <2>1, <2>2, <2>3 DEF StoreFrom
  <2>5. QED
    BY <2>1, <2>4, StoreOne DEF OnlyTask
<1>7. ASSUME NEW y \in Sync, SyncSchedules(y) PROVE \A u \in Task : StoreFrom(u)
  <2> DEFINE u == sync[y].cur
  <2>1. u \in Task /\ OnlyTask(u) /\ StoreKept(u) /\ TurnOf(y, u)
    BY <1>7, SchedulesEffect DEF StoreKept, TurnOf
  <2>2. store'[u].next \in {store[u].next, sync[y].next}
    BY <1>7, SchedulesEffect
  <2>3. StoreFrom(u)
    BY <2>1, <2>2 DEF StoreFrom, StoreKept
  <2>4. QED
    BY <2>1, <2>3, StoreOne DEF OnlyTask
<1>8. ASSUME NEW y \in Sync, SyncInterrupts(y) PROVE \A u \in Task : StoreFrom(u)
  <2> DEFINE u == sync[y].cur
  <2>1. u \in Task /\ OnlyTask(u) /\ StoreKept(u) /\ store'[u].next = store[u].next
    BY <1>8, InterruptsEffect DEF StoreKept
  <2>2. StoreFrom(u)
    BY <2>1 DEF StoreFrom, StoreKept
  <2>3. QED
    BY <2>1, <2>2, StoreOne DEF OnlyTask
<1>9. ASSUME NEW y \in Sync, EditApplies(y) PROVE \A u \in Task : StoreFrom(u)
  <2> DEFINE u == sync[y].cur
  <2>1. u \in Task /\ \A t \in Task : t # u => store'[t] = store[t]
    BY <1>9, EditEffect
  <2>2. /\ store'[u].enabled => store'[u].present
        /\ store'[u].next \in {None, store[u].next}
        /\ store'[u].present /\ ~store'[u].enabled => store[u].enabled /\ store'[u].ran = store[u].ran
    BY <1>9, EditEffect
  <2>3. fired'[u] = 0 \/ (store'[u].present /\ ~store'[u].enabled)
    BY <1>1, <1>9, <2>1, EditEffect DEF TypeHistory
  <2>4. store'[u].present /\ ~store'[u].enabled => StoreKept(u)
    BY <1>1, <2>1, <2>2 DEF StoreMortal, StoreKept, TypeRecords, Records
  <2>5. StoreFrom(u)
    BY <2>2, <2>3, <2>4 DEF StoreFrom
  <2>6. QED
    BY <2>1, <2>5, StoreOne
<1>10. ASSUME NEW t \in Task, TimerFires(t)
      PROVE  \A u \in Task : StoreFrom(u)
  BY <1>2, <1>10 DEF TimerFires, config
<1>11. ASSUME PumpSkips \/ PumpEnds \/ Stop \/ Tick \/ Crash
      PROVE  \A u \in Task : StoreFrom(u)
  BY <1>2, <1>11 DEF PumpSkips, PumpEnds, Stop, Tick, Crash, config
<1>12. ASSUME NEW r \in Run, PumpStarts(r) \/ RunSession(r) \/ RunExecuted(r) \/ RunFails(r) \/
              RunSettles(r)
      PROVE  \A u \in Task : StoreFrom(u)
  BY <1>2, <1>12 DEF PumpStarts, RunSession, RunExecuted, RunFails, RunSettles, config
<1>13. ASSUME NEW m \in Manual, NEW t \in Task, RunNow(m, t)
      PROVE  \A u \in Task : StoreFrom(u)
  BY <1>2, <1>13 DEF RunNow, config
<1>14. ASSUME NEW y \in Sync, NEW p \in Projects, SyncBegins(y, p)
      PROVE  \A u \in Task : StoreFrom(u)
  BY <1>2, <1>14 DEF SyncBegins, config
<1>15. ASSUME NEW y \in Sync, Start(y) \/ SyncLists(y) \/ SyncSets(y) \/ SyncFails(y) \/
              SyncSnapshots(y) \/ SyncChecks(y) \/ SyncEnds(y)
      PROVE  \A u \in Task : StoreFrom(u)
  BY <1>2, <1>15 DEF Start, SyncLists, SyncSets, SyncFails, SyncSnapshots, SyncChecks,
     SyncEnds, config
<1>16. ASSUME NEW y \in Sync, NEW t \in Task, EditBegins(y, t)
      PROVE  \A u \in Task : StoreFrom(u)
  BY <1>2, <1>16 DEF EditBegins, config
<1>17. CASE UNCHANGED vars
  BY <1>2, <1>17 DEF vars, config, scheduler, admission, thread, history
<1>18. QED
  BY <1>3, <1>4, <1>5, <1>6, <1>7, <1>8, <1>9, <1>10, <1>11, <1>12, <1>13, <1>14, <1>15,
     <1>16, <1>17, Zenon DEF Next, Step, RunStep, SyncStep

(***************************************************************************)
(* What memory holds changes for one task.                                 *)
(***************************************************************************)
LEMMA MemOne ==
  ASSUME NEW u \in Task, \A t \in Task : t # u => mem'[t] = mem[t], MemFrom(u)
  PROVE  \A t \in Task : MemFrom(t)
BY DEF MemFrom

(***************************************************************************)
(* The records in memory.                                                  *)
(***************************************************************************)
LEMMA MemFromStep ==
  ASSUME IInv, [Next]_vars
  PROVE  \A u \in Task : MemFrom(u)
<1>1. TypeRecords
  BY DEF IInv, TypeParts
<1>2. ASSUME UNCHANGED mem PROVE \A u \in Task : MemFrom(u)
  BY <1>2 DEF MemFrom
<1>3. ASSUME NEW a \in advance, Advanced(a) PROVE \A u \in Task : MemFrom(u)
  <2>1. a[1] \in Task /\ OnlyTask(a[1]) /\ mem'[a[1]] \in {mem[a[1]], store'[a[1]]}
    BY <1>3, AdvancedEffect DEF Copied
  <2>2. MemFrom(a[1])
    BY <2>1 DEF MemFrom
  <2>3. QED
    BY <2>1, <2>2, MemOne DEF OnlyTask
<1>4. ASSUME NEW r \in Run, RunBegins(r) PROVE \A u \in Task : MemFrom(u)
  <2>1. run[r].task \in Task /\ OnlyTask(run[r].task) /\ mem'[run[r].task] \in {mem[run[r].task], store'[run[r].task]}
    BY <1>4, BeginsEffect DEF Copied
  <2>2. MemFrom(run[r].task)
    BY <2>1 DEF MemFrom
  <2>3. QED
    BY <2>1, <2>2, MemOne DEF OnlyTask
<1>5. ASSUME NEW r \in Run, RunSession(r) PROVE \A u \in Task : MemFrom(u)
  <2>1. mem' = [mem EXCEPT ![run[r].task] = store[run[r].task]] /\ UNCHANGED store
    BY <1>5 DEF RunSession, config
  <2>2. \A t \in Task : mem'[t] \in {mem[t], store'[t]}
    BY <1>1, <2>1 DEF TypeRecords
  <2>3. QED
    BY <2>2 DEF MemFrom
<1>6. ASSUME NEW r \in Run, RunConsumes(r) PROVE \A u \in Task : MemFrom(u)
  <2>1. run[r].task \in Task /\ OnlyTask(run[r].task) /\ mem'[run[r].task] \in {mem[run[r].task], store'[run[r].task]}
    BY <1>6, ConsumesEffect DEF Copied
  <2>2. MemFrom(run[r].task)
    BY <2>1 DEF MemFrom
  <2>3. QED
    BY <2>1, <2>2, MemOne DEF OnlyTask
<1>7. ASSUME NEW r \in Run, RunFinishes(r) PROVE \A u \in Task : MemFrom(u)
  <2>1. run[r].task \in Task /\ OnlyTask(run[r].task) /\ mem'[run[r].task] \in {mem[run[r].task], store'[run[r].task]}
    BY <1>7, FinishesEffect DEF Copied
  <2>2. MemFrom(run[r].task)
    BY <2>1 DEF MemFrom
  <2>3. QED
    BY <2>1, <2>2, MemOne DEF OnlyTask
<1>8. ASSUME NEW y \in Sync, SyncSets(y) PROVE \A u \in Task : MemFrom(u)
  <2>1. ASSUME NEW t \in Task PROVE MemFrom(t)
    <3>1. /\ sync[y].pc = "set" /\ UNCHANGED store
          /\ sync'[y].seen \in {store, sync[y].seen}
          /\ mem'[t] = IF t \in sync[y].project THEN sync'[y].seen[t] ELSE mem[t]
      BY <1>8, SetsEffect
    <3>2. QED
      BY <3>1 DEF MemFrom
  <2>2. QED
    BY <2>1
<1>9. ASSUME NEW y \in Sync, SyncSchedules(y) PROVE \A u \in Task : MemFrom(u)
  <2> DEFINE u == sync[y].cur
  <2>1. /\ u \in Task /\ OnlyTask(u) /\ sync[y].pc = "schedule"
        /\ store[u].present => mem'[u] = store'[u]
        /\ ~store[u].present => mem'[u] = sync[y].seen[u]
    BY <1>9, SchedulesEffect
  <2>2. MemFrom(u)
    BY <2>1 DEF MemFrom
  <2>3. QED
    BY <2>1, <2>2, MemOne DEF OnlyTask
<1>10. ASSUME NEW y \in Sync, SyncInterrupts(y) PROVE \A u \in Task : MemFrom(u)
  <2> DEFINE u == sync[y].cur
  <2>1. u \in Task /\ OnlyTask(u) /\ mem'[u] \in {mem[u], store'[u]}
    BY <1>10, InterruptsEffect
  <2>2. MemFrom(u)
    BY <2>1 DEF MemFrom
  <2>3. QED
    BY <2>1, <2>2, MemOne DEF OnlyTask
<1>11. ASSUME Crash PROVE \A u \in Task : MemFrom(u)
  BY <1>11 DEF Crash, MemFrom
<1>12. ASSUME NEW t \in Task, TimerFires(t)
      PROVE  \A u \in Task : MemFrom(u)
  BY <1>2, <1>12 DEF TimerFires, scheduler
<1>13. ASSUME PumpSkips \/ PumpEnds \/ Stop \/ Tick
      PROVE  \A u \in Task : MemFrom(u)
  BY <1>2, <1>13 DEF PumpSkips, PumpEnds, Stop, Tick, scheduler
<1>14. ASSUME NEW r \in Run, PumpStarts(r) \/ RunExecuted(r) \/ RunFails(r) \/ RunSettles(r)
      PROVE  \A u \in Task : MemFrom(u)
  BY <1>2, <1>14 DEF PumpStarts, RunExecuted, RunFails, RunSettles, scheduler
<1>15. ASSUME NEW m \in Manual, NEW t \in Task, RunNow(m, t)
      PROVE  \A u \in Task : MemFrom(u)
  BY <1>2, <1>15 DEF RunNow, scheduler
<1>16. ASSUME NEW y \in Sync, NEW p \in Projects, SyncBegins(y, p)
      PROVE  \A u \in Task : MemFrom(u)
  BY <1>2, <1>16 DEF SyncBegins, scheduler
<1>17. ASSUME NEW y \in Sync, Start(y) \/ SyncLists(y) \/ SyncFails(y) \/ SyncSnapshots(y) \/
              SyncChecks(y) \/ SyncEnds(y) \/ EditApplies(y)
      PROVE  \A u \in Task : MemFrom(u)
  BY <1>2, <1>17 DEF Start, SyncLists, SyncFails, SyncSnapshots, SyncChecks, SyncEnds,
     EditApplies, scheduler
<1>18. ASSUME NEW y \in Sync, NEW t \in Task, EditBegins(y, t)
      PROVE  \A u \in Task : MemFrom(u)
  BY <1>2, <1>18 DEF EditBegins, scheduler
<1>19. CASE UNCHANGED vars
  BY <1>2, <1>19 DEF vars, config, scheduler, admission, thread, history
<1>20. QED
  BY <1>3, <1>4, <1>5, <1>6, <1>7, <1>8, <1>9, <1>10, <1>11, <1>12, <1>13, <1>14, <1>15,
     <1>16, <1>17, <1>18, <1>19, Zenon DEF Next, Step, RunStep, SyncStep

(***************************************************************************)
(* The timer of one task changes.                                          *)
(***************************************************************************)
LEMMA TimerOne ==
  ASSUME NEW u \in Task, \A t \in Task : t # u => timer'[t] = timer[t], TimerFrom(u)
  PROVE  \A t \in Task : TimerFrom(t)
BY DEF TimerFrom

(***************************************************************************)
(* The timers.                                                             *)
(***************************************************************************)
LEMMA TimerFromStep ==
  ASSUME IInv, [Next]_vars
  PROVE  \A u \in Task : TimerFrom(u)
<1>1. TypeTimers
  BY DEF IInv, TypeParts
<1>2. ASSUME UNCHANGED timer PROVE \A u \in Task : TimerFrom(u)
  BY <1>2 DEF TimerFrom
<1>3. ASSUME NEW t \in Task, TimerFires(t) PROVE \A u \in Task : TimerFrom(u)
  <2>1. timer[t] # None /\ (timer' = [timer EXCEPT ![t] = None] \/ timer' = [timer EXCEPT ![t] = mem[t].next])
    BY <1>3 DEF TimerFires
  <2>2. \A u \in Task : timer'[u] = timer[u] \/ (u = t /\ timer'[u] \in {None, mem[u].next})
    BY <1>1, <2>1 DEF TypeTimers
  <2>3. QED
    BY <2>1, <2>2 DEF TimerFrom
<1>4. ASSUME NEW a \in advance, Advanced(a) PROVE \A u \in Task : TimerFrom(u)
  <2>1. a[1] \in Task /\ OnlyTask(a[1])
    BY <1>4, AdvancedEffect
  <2>2. TimerFrom(a[1])
    BY <1>4 DEF TimerFrom
  <2>3. QED
    BY <2>1, <2>2, TimerOne DEF OnlyTask
<1>5. ASSUME NEW r \in Run, RunFinishes(r) PROVE \A u \in Task : TimerFrom(u)
  <2> DEFINE u == run[r].task
  <2>1. u \in Task /\ OnlyTask(u) /\ timer'[u] \in {timer[u], run[r].next}
    BY <1>5, FinishesEffect
  <2>2. Held(r) /\ ~RunsKept(u)
    BY <1>5, FinishesEffect, MovingRun DEF Held, RunTo
  <2>3. TimerFrom(u)
    BY <2>1, <2>2 DEF TimerFrom
  <2>4. QED
    BY <2>1, <2>3, TimerOne DEF OnlyTask
<1>6. ASSUME Stop PROVE \A u \in Task : TimerFrom(u)
  BY <1>6 DEF Stop, Stopped, TimerFrom
<1>7. ASSUME NEW y \in Sync, SyncSets(y) PROVE \A u \in Task : TimerFrom(u)
  <2>1. \A t \in Task : timer'[t] \in {None, timer[t]}
    BY <1>7, SetsEffect
  <2>2. QED
    BY <2>1 DEF TimerFrom
<1>8. ASSUME NEW y \in Sync, SyncSchedules(y) PROVE \A u \in Task : TimerFrom(u)
  <2> DEFINE u == sync[y].cur
  <2>1. u \in Task /\ OnlyTask(u) /\ TurnOf(y, u) /\ timer'[u] \in {timer[u], sync[y].next}
    BY <1>8, SchedulesEffect DEF TurnOf
  <2>2. TimerFrom(u)
    BY <2>1 DEF TimerFrom
  <2>3. QED
    BY <2>1, <2>2, TimerOne DEF OnlyTask
<1>9. ASSUME NEW y \in Sync, SyncFails(y) PROVE \A u \in Task : TimerFrom(u)
  <2>1. \A t \in Task : timer'[t] \in {None, timer[t]}
    BY <1>9, SyncFailsEffect
  <2>2. QED
    BY <2>1 DEF TimerFrom
<1>10. ASSUME Crash PROVE \A u \in Task : TimerFrom(u)
  BY <1>10 DEF Crash, TimerFrom
<1>11. ASSUME PumpSkips \/ PumpEnds \/ Tick
      PROVE  \A u \in Task : TimerFrom(u)
  BY <1>2, <1>11 DEF PumpSkips, PumpEnds, Tick, scheduler
<1>12. ASSUME NEW r \in Run, PumpStarts(r) \/ RunBegins(r) \/ RunSession(r) \/ RunExecuted(r) \/
              RunConsumes(r) \/ RunFails(r) \/ RunSettles(r)
      PROVE  \A u \in Task : TimerFrom(u)
  BY <1>2, <1>12 DEF PumpStarts, RunBegins, RunSession, RunExecuted, RunConsumes, RunFails,
     RunSettles, scheduler
<1>13. ASSUME NEW m \in Manual, NEW t \in Task, RunNow(m, t)
      PROVE  \A u \in Task : TimerFrom(u)
  BY <1>2, <1>13 DEF RunNow, scheduler
<1>14. ASSUME NEW y \in Sync, NEW p \in Projects, SyncBegins(y, p)
      PROVE  \A u \in Task : TimerFrom(u)
  BY <1>2, <1>14 DEF SyncBegins, scheduler
<1>15. ASSUME NEW y \in Sync, Start(y) \/ SyncLists(y) \/ SyncSnapshots(y) \/ SyncChecks(y) \/
              SyncInterrupts(y) \/ SyncEnds(y) \/ EditApplies(y)
      PROVE  \A u \in Task : TimerFrom(u)
  BY <1>2, <1>15 DEF Start, SyncLists, SyncSnapshots, SyncChecks, SyncInterrupts, SyncEnds,
     EditApplies, scheduler
<1>16. ASSUME NEW y \in Sync, NEW t \in Task, EditBegins(y, t)
      PROVE  \A u \in Task : TimerFrom(u)
  BY <1>2, <1>16 DEF EditBegins, scheduler
<1>17. CASE UNCHANGED vars
  BY <1>2, <1>17 DEF vars, config, scheduler, admission, thread, history
<1>18. QED
  BY <1>3, <1>4, <1>5, <1>6, <1>7, <1>8, <1>9, <1>10, <1>11, <1>12, <1>13, <1>14, <1>15,
     <1>16, <1>17, Zenon DEF Next, Step, RunStep, SyncStep

(***************************************************************************)
(* One synchronisation moves.                                              *)
(***************************************************************************)
LEMMA SyncOne ==
  ASSUME NEW y \in Sync, \A z \in Sync : z # y => sync'[z] = sync[z], NEW t,
         /\ sync'[y].pc \in Listed =>
              \/ sync[y].pc \in Listed /\ sync'[y].seen[t] = sync[y].seen[t]
              \/ sync'[y].seen[t] \in {store[t], mem[t]}
         /\ sync'[y].pc = "set" => sync'[y] = sync[y] \/ SyncLists(y)
         /\ TurnOf(y, t)' =>
              \/ TurnOf(y, t) /\ sync'[y].next = sync[y].next
              \/ sync'[y].next = ComputeNextRunAt(t, sync'[y].seen[t])
         /\ sync'[y].pc \in {"reconcile", "interrupt"} =>
              \/ sync'[y].at = now
              \/ sync[y].pc \in {"reconcile", "interrupt"} /\ sync'[y].at = sync[y].at
  PROVE  SyncFrom(t)
BY DEF SyncFrom, TurnOf

(***************************************************************************)
(* The synchronisations.                                                   *)
(***************************************************************************)
LEMMA SyncFromStep ==
  ASSUME IInv, [Next]_vars
  PROVE  \A u \in Task : SyncFrom(u)
<1>1. TypeSyncs
  BY DEF IInv, TypeParts
<1>2. ASSUME UNCHANGED sync PROVE \A u \in Task : SyncFrom(u)
  BY <1>2 DEF SyncFrom, TurnOf
<1>3. ASSUME NEW y \in Sync, NEW p \in Projects, SyncBegins(y, p) PROVE \A u \in Task : SyncFrom(u)
  <2>1. (\A z \in Sync : z # y => sync'[z] = sync[z]) /\ sync'[y].pc \in {"idle", "list", "edit"}
    BY <1>3, CallsEffect
  <2>2. QED
    BY <2>1, SyncOne DEF TurnOf, Listed
<1>4. ASSUME NEW y \in Sync, Start(y) PROVE \A u \in Task : SyncFrom(u)
  <2>1. (\A z \in Sync : z # y => sync'[z] = sync[z]) /\ sync'[y].pc \in {"idle", "list", "edit"}
    BY <1>4, CallsEffect
  <2>2. QED
    BY <2>1, SyncOne DEF TurnOf, Listed
<1>5. ASSUME NEW y \in Sync, SyncLists(y) PROVE \A u \in Task : SyncFrom(u)
  <2>1. (\A z \in Sync : z # y => sync'[z] = sync[z]) /\ sync'[y].pc = "set" /\ sync'[y].seen = store
    BY <1>5, ListsEffect DEF SyncTo
  <2>2. QED
    BY <1>5, <2>1, SyncOne DEF TurnOf
<1>6. ASSUME NEW y \in Sync, SyncSets(y) PROVE \A u \in Task : SyncFrom(u)
  <2>1. /\ \A z \in Sync : z # y => sync'[z] = sync[z]
        /\ sync[y].pc = "set" /\ sync'[y].pc = "schedule"
        /\ sync'[y].seen \in {store, sync[y].seen}
        /\ sync'[y].cur \in Task => sync'[y].next = ComputeNextRunAt(sync'[y].cur, sync'[y].seen[sync'[y].cur])
    <3>1. None \notin Task
      BY TaskAssumption, NoneAssumption
    <3>2. /\ \A z \in Sync : z # y => sync'[z] = sync[z]
          /\ sync[y].pc = "set" /\ sync'[y].pc = "schedule"
          /\ sync'[y].seen \in {store, sync[y].seen}
      BY <1>6, SetsEffect DEF SyncTo
    <3>3. /\ sync'[y].todo = {} => sync'[y].cur = None
          /\ sync'[y].todo # {} => sync'[y].next = ComputeNextRunAt(sync'[y].cur, sync'[y].seen[sync'[y].cur])
      BY <1>6, SetsEffect
    <3>4. QED
      BY <3>1, <3>2, <3>3
  <2>2. ASSUME NEW t \in Task PROVE SyncFrom(t)
    BY <2>1, SyncOne DEF TurnOf, Listed
  <2>3. QED
    BY <2>2
<1>7. ASSUME NEW y \in Sync, SyncSchedules(y) PROVE \A u \in Task : SyncFrom(u)
  <2>1. /\ \A z \in Sync : z # y => sync'[z] = sync[z]
        /\ sync[y].pc = "schedule" /\ sync'[y].pc = "schedule"
        /\ sync'[y].seen = sync[y].seen
        /\ sync'[y].cur \in Task => sync'[y].next = ComputeNextRunAt(sync'[y].cur, sync'[y].seen[sync'[y].cur])
    <3>1. None \notin Task
      BY TaskAssumption, NoneAssumption
    <3>2. /\ \A z \in Sync : z # y => sync'[z] = sync[z]
          /\ sync[y].pc = "schedule" /\ sync'[y].pc = "schedule"
          /\ sync'[y].seen = sync[y].seen
      BY <1>7, SchedulesEffect DEF SyncTo
    <3>3. /\ sync'[y].todo = {} => sync'[y].cur = None
          /\ sync'[y].todo # {} => sync'[y].next = ComputeNextRunAt(sync'[y].cur, sync[y].seen[sync'[y].cur])
      BY <1>7, SchedulesEffect
    <3>4. QED
      BY <3>1, <3>2, <3>3
  <2>2. ASSUME NEW t \in Task PROVE SyncFrom(t)
    BY <2>1, SyncOne DEF TurnOf, Listed
  <2>3. QED
    BY <2>2
<1>8. ASSUME NEW y \in Sync, SyncFails(y) PROVE \A u \in Task : SyncFrom(u)
  <2>1. (\A z \in Sync : z # y => sync'[z] = sync[z]) /\ sync'[y].pc \in {"idle", "list", "edit"}
    BY <1>8, SyncFailsEffect
  <2>2. QED
    BY <2>1, SyncOne DEF TurnOf, Listed
<1>9. ASSUME NEW y \in Sync, SyncSnapshots(y) PROVE \A u \in Task : SyncFrom(u)
  <2>1. /\ \A z \in Sync : z # y => sync'[z] = sync[z]
        /\ sync'[y].pc = "reconcile" /\ sync'[y].seen = mem /\ sync'[y].at = now
    BY <1>9, SnapshotsEffect DEF SyncTo
  <2>2. QED
    BY <2>1, SyncOne DEF TurnOf
<1>10. ASSUME NEW y \in Sync, SyncChecks(y) PROVE \A u \in Task : SyncFrom(u)
  <2>1. /\ \A z \in Sync : z # y => sync'[z] = sync[z]
        /\ {sync[y].pc, sync'[y].pc} \subseteq {"reconcile", "interrupt"}
        /\ sync'[y].seen = sync[y].seen /\ sync'[y].at = sync[y].at
    BY <1>10, ChecksEffect DEF SyncTo
  <2>2. QED
    BY <2>1, SyncOne DEF TurnOf, Listed
<1>11. ASSUME NEW y \in Sync, SyncInterrupts(y) PROVE \A u \in Task : SyncFrom(u)
  <2>1. /\ \A z \in Sync : z # y => sync'[z] = sync[z]
        /\ {sync[y].pc, sync'[y].pc} \subseteq {"reconcile", "interrupt"}
        /\ sync'[y].seen = sync[y].seen /\ sync'[y].at = sync[y].at
    BY <1>11, InterruptsEffect DEF SyncTo
  <2>2. QED
    BY <2>1, SyncOne DEF TurnOf, Listed
<1>12. ASSUME NEW y \in Sync, SyncEnds(y) PROVE \A u \in Task : SyncFrom(u)
  <2>1. (\A z \in Sync : z # y => sync'[z] = sync[z]) /\ sync'[y].pc \in {"idle", "list", "edit"}
    BY <1>12, CallsEffect
  <2>2. QED
    BY <2>1, SyncOne DEF TurnOf, Listed
<1>13. ASSUME NEW y \in Sync, NEW t \in Task, EditBegins(y, t) PROVE \A u \in Task : SyncFrom(u)
  <2>1. (\A z \in Sync : z # y => sync'[z] = sync[z]) /\ sync'[y].pc \in {"idle", "list", "edit"}
    BY <1>13, EditBeginsEffect
  <2>2. ASSUME NEW u \in Task PROVE SyncFrom(u)
    BY <2>1, SyncOne DEF TurnOf, Listed
  <2>3. QED
    BY <2>2
<1>14. ASSUME NEW y \in Sync, EditApplies(y) PROVE \A u \in Task : SyncFrom(u)
  <2>1. (\A z \in Sync : z # y => sync'[z] = sync[z]) /\ sync'[y].pc \in {"idle", "list", "edit"}
    BY <1>14, CallsEffect
  <2>2. QED
    BY <2>1, SyncOne DEF TurnOf, Listed
<1>15. ASSUME Crash PROVE \A u \in Task : SyncFrom(u)
  <2>1. \A z \in Sync : sync'[z].pc = "idle"
    BY <1>15 DEF Crash, IdleSync
  <2>2. QED
    BY <2>1 DEF SyncFrom, TurnOf, Listed
<1>16. ASSUME NEW t \in Task, TimerFires(t)
      PROVE  \A u \in Task : SyncFrom(u)
  BY <1>2, <1>16 DEF TimerFires
<1>17. ASSUME NEW a \in advance, Advanced(a)
      PROVE  \A u \in Task : SyncFrom(u)
  BY <1>2, <1>17 DEF Advanced
<1>18. ASSUME PumpSkips \/ PumpEnds \/ Stop \/ Tick
      PROVE  \A u \in Task : SyncFrom(u)
  BY <1>2, <1>18 DEF PumpSkips, PumpEnds, Stop, Tick
<1>19. ASSUME NEW r \in Run, PumpStarts(r) \/ RunBegins(r) \/ RunSession(r) \/ RunExecuted(r) \/
              RunConsumes(r) \/ RunFinishes(r) \/ RunFails(r) \/
              RunSettles(r)
      PROVE  \A u \in Task : SyncFrom(u)
  BY <1>2, <1>19 DEF PumpStarts, RunBegins, RunSession, RunExecuted, RunConsumes,
     RunFinishes, RunFails, RunSettles
<1>20. ASSUME NEW m \in Manual, NEW t \in Task, RunNow(m, t)
      PROVE  \A u \in Task : SyncFrom(u)
  BY <1>2, <1>20 DEF RunNow
<1>21. CASE UNCHANGED vars
  BY <1>2, <1>21 DEF vars, config, scheduler, admission, thread, history
<1>22. QED
  BY <1>3, <1>4, <1>5, <1>6, <1>7, <1>8, <1>9, <1>10, <1>11, <1>12, <1>13, <1>14, <1>15,
     <1>16, <1>17, <1>18, <1>19, <1>20, <1>21, Zenon DEF Next, Step, RunStep, SyncStep

(***************************************************************************)
(* queueTaskRun adds one item at most.                                     *)
(***************************************************************************)
LEMMA QueueAppended ==
  ASSUME TypeQueue, NEW u, NEW reason, NEW call, QueueTaskRun(u, reason, call)
  PROVE  \A i \in 1..Len(queue') : \/ \E j \in 1..Len(queue) : queue'[i] = queue[j]
                                   \/ queue'[i].task = u /\ queue'[i].reason = reason
<1> DEFINE item == [task |-> u, reason |-> reason, call |-> call]
<1>1. item.task = u /\ item.reason = reason
  OBVIOUS
<1> HIDE DEF item
<1>2. queue' = queue \/ queue' = Append(queue, item)
  BY DEF QueueTaskRun, item
<1>3. CASE queue' = queue
  BY <1>3
<1>4. CASE queue' = Append(queue, item)
  <2>1. queue \in Seq(Items) /\ Len(queue) \in Nat
    BY LenProperties DEF TypeQueue
  <2>2. /\ Len(queue') = Len(queue) + 1 /\ queue'[Len(queue) + 1] = item
        /\ \A i \in 1..Len(queue) : queue'[i] = queue[i]
    BY <1>4, <2>1
  <2>3. QED
    BY <1>1, <2>1, <2>2
<1>5. QED
  BY <1>2, <1>3, <1>4

(***************************************************************************)
(* The queue.                                                              *)
(***************************************************************************)
LEMMA QueueFromStep ==
  ASSUME IInv, [Next]_vars
  PROVE  \A u \in Task : QueueFrom(u)
<1>1. TypeQueue
  BY DEF IInv, TypeParts
<1>2. ASSUME UNCHANGED queue PROVE \A u \in Task : QueueFrom(u)
  BY <1>2 DEF QueueFrom
<1>3. ASSUME NEW t \in Task, TimerFires(t) PROVE \A u \in Task : QueueFrom(u)
  <2>1. timer[t] # None /\ now >= timer[t]
    BY <1>3 DEF TimerFires
  <2>2. queue' = queue \/ QueueTaskRun(t, "scheduled", None)
    BY <1>3 DEF TimerFires
  <2>3. CASE queue' = queue
    BY <2>3 DEF QueueFrom
  <2>4. CASE QueueTaskRun(t, "scheduled", None)
    <3>1. \A i \in 1..Len(queue') : (\E j \in 1..Len(queue) : queue'[i] = queue[j]) \/ queue'[i].task = t
      BY <1>1, <2>4, QueueAppended
    <3>2. QED
      BY <2>1, <3>1 DEF QueueFrom
  <2>5. QED
    BY <2>2, <2>3, <2>4
<1>4. ASSUME NEW r \in Run, PumpStarts(r) PROVE \A u \in Task : QueueFrom(u)
  <2>1. index \in 1..Len(queue) /\ queue' = Without(queue, index)
    BY <1>4, StartsEffect
  <2>2. queue \in Seq(Items) /\ Len(queue) \in Nat
    BY <1>1, LenProperties DEF TypeQueue
  <2>3. /\ Len(queue') = Len(queue) - 1
        /\ \A j \in 1..Len(queue) - 1 : queue'[j] = queue[IF j < index THEN j ELSE j + 1]
    BY <2>1, <2>2, WithoutProperties
  <2>4. ASSUME NEW i \in 1..Len(queue') PROVE \E j \in 1..Len(queue) : queue'[i] = queue[j]
    <3>1. (IF i < index THEN i ELSE i + 1) \in 1..Len(queue)
      BY <2>1, <2>2, <2>3
    <3>2. QED
      BY <2>3, <3>1
  <2>5. QED
    BY <2>4 DEF QueueFrom
<1>5. ASSUME NEW m \in Manual, NEW t \in Task, RunNow(m, t) PROVE \A u \in Task : QueueFrom(u)
  <2>1. queue' = queue \/ QueueTaskRun(t, "manual", m)
    BY <1>5 DEF RunNow
  <2>2. CASE queue' = queue
    BY <2>2 DEF QueueFrom
  <2>3. CASE QueueTaskRun(t, "manual", m)
    <3>1. \A i \in 1..Len(queue') : (\E j \in 1..Len(queue) : queue'[i] = queue[j]) \/ queue'[i].reason = "manual"
      BY <1>1, <2>3, QueueAppended
    <3>2. QED
      BY <3>1 DEF QueueFrom
  <2>4. QED
    BY <2>1, <2>2, <2>3
<1>6. ASSUME Stop PROVE \A u \in Task : QueueFrom(u)
  BY <1>6 DEF Stop, Stopped, QueueFrom
<1>7. ASSUME NEW y \in Sync, SyncFails(y) PROVE \A u \in Task : QueueFrom(u)
  <2>1. queue' = queue \/ queue' = <<>>
    BY <1>7, SyncFailsEffect
  <2>2. QED
    BY <2>1 DEF QueueFrom
<1>8. ASSUME NEW y \in Sync, SyncChecks(y) PROVE \A u \in Task : QueueFrom(u)
  <2> DEFINE u == First(sync[y].todo)
  <2>1. /\ sync[y].pc \in {"reconcile", "interrupt"}
        /\ \/ queue' = queue
           \/ Overdue(u, sync[y].seen[u], sync[y].at) /\ QueueTaskRun(u, "scheduled", None)
    BY <1>8, ChecksEffect
  <2>2. CASE queue' = queue
    BY <2>2 DEF QueueFrom
  <2>3. CASE Overdue(u, sync[y].seen[u], sync[y].at) /\ QueueTaskRun(u, "scheduled", None)
    <3>1. \A i \in 1..Len(queue') : (\E j \in 1..Len(queue) : queue'[i] = queue[j]) \/ queue'[i].task = u
      BY <1>1, <2>3, QueueAppended
    <3>2. QED
      BY <2>1, <2>3, <3>1 DEF QueueFrom
  <2>4. QED
    BY <2>1, <2>2, <2>3
<1>9. ASSUME NEW y \in Sync, SyncInterrupts(y) PROVE \A u \in Task : QueueFrom(u)
  <2> DEFINE u == sync[y].cur
  <2>1. /\ sync[y].pc \in {"reconcile", "interrupt"}
        /\ \/ queue' = queue
           \/ Overdue(u, sync[y].seen[u], sync[y].at) /\ QueueTaskRun(u, "scheduled", None)
    BY <1>9, InterruptsEffect
  <2>2. CASE queue' = queue
    BY <2>2 DEF QueueFrom
  <2>3. CASE Overdue(u, sync[y].seen[u], sync[y].at) /\ QueueTaskRun(u, "scheduled", None)
    <3>1. \A i \in 1..Len(queue') : (\E j \in 1..Len(queue) : queue'[i] = queue[j]) \/ queue'[i].task = u
      BY <1>1, <2>3, QueueAppended
    <3>2. QED
      BY <2>1, <2>3, <3>1 DEF QueueFrom
  <2>4. QED
    BY <2>1, <2>2, <2>3
<1>10. ASSUME Crash PROVE \A u \in Task : QueueFrom(u)
  BY <1>10 DEF Crash, QueueFrom
<1>11. ASSUME NEW a \in advance, Advanced(a)
      PROVE  \A u \in Task : QueueFrom(u)
  BY <1>2, <1>11 DEF Advanced, admission
<1>12. ASSUME PumpSkips \/ PumpEnds \/ Tick
      PROVE  \A u \in Task : QueueFrom(u)
  BY <1>2, <1>12 DEF PumpSkips, PumpEnds, Tick, admission
<1>13. ASSUME NEW r \in Run, RunBegins(r) \/ RunSession(r) \/ RunExecuted(r) \/ RunConsumes(r) \/
              RunFinishes(r) \/ RunFails(r) \/ RunSettles(r)
      PROVE  \A u \in Task : QueueFrom(u)
  BY <1>2, <1>13 DEF RunBegins, RunSession, RunExecuted, RunConsumes, RunFinishes, RunFails,
     RunSettles, admission
<1>14. ASSUME NEW y \in Sync, NEW p \in Projects, SyncBegins(y, p)
      PROVE  \A u \in Task : QueueFrom(u)
  BY <1>2, <1>14 DEF SyncBegins, admission
<1>15. ASSUME NEW y \in Sync, Start(y) \/ SyncLists(y) \/ SyncSets(y) \/ SyncSchedules(y) \/
              SyncSnapshots(y) \/ SyncEnds(y) \/ EditApplies(y)
      PROVE  \A u \in Task : QueueFrom(u)
  BY <1>2, <1>15 DEF Start, SyncLists, SyncSets, SyncSchedules, SyncSnapshots, SyncEnds,
     EditApplies, admission
<1>16. ASSUME NEW y \in Sync, NEW t \in Task, EditBegins(y, t)
      PROVE  \A u \in Task : QueueFrom(u)
  BY <1>2, <1>16 DEF EditBegins, admission
<1>17. CASE UNCHANGED vars
  BY <1>2, <1>17 DEF vars, config, scheduler, admission, thread, history
<1>18. QED
  BY <1>3, <1>4, <1>5, <1>6, <1>7, <1>8, <1>9, <1>10, <1>11, <1>12, <1>13, <1>14, <1>15,
     <1>16, <1>17, Zenon DEF Next, Step, RunStep, SyncStep

(***************************************************************************)
(* A run moves to another place, or is over.                               *)
(***************************************************************************)
LEMMA RunOne ==
  ASSUME TypeClock, NEW r \in Run, Held(r), NEW c, NEW n, NEW was, RunTo(r, c, n, was),
         run[r].task \in Once => n \in {run[r].next, None, Due},
         was \in {run[r].was, mem[run[r].task]}
  PROVE  \A t \in Task : RunFrom(t)
BY DEF RunTo, RunFrom, Held

(***************************************************************************)
(* Who moves a run of t.                                                   *)
(***************************************************************************)
Handles(r, t) ==
    \/ /\ run[r].task = t
       /\ RunBegins(r) \/ RunExecuted(r) \/ RunConsumes(r) \/ RunFinishes(r) \/ RunFails(r)
    \/ PumpStarts(r) /\ queue[index].task = t /\ run'[r].pc = "begin"

(***************************************************************************)
(* The activations of runTask.                                             *)
(***************************************************************************)
LEMMA RunFromStep ==
  ASSUME IInv, [Next]_vars
  PROVE  \A u \in Task : RunFrom(u)
<1>1. TypeClock /\ TypeRuns
  BY DEF IInv, TypeParts
<1>2. ASSUME UNCHANGED run PROVE \A u \in Task : RunFrom(u)
  BY <1>2 DEF RunFrom, Held
<1>3. ASSUME NEW r \in Run, PumpStarts(r) PROVE \A u \in Task : RunFrom(u)
  <2> DEFINE u == queue[index].task
  <2>1. /\ \A s \in Run : s # r => run'[s] = run[s]
        /\ run'[r].task = u /\ run'[r].next = None /\ run'[r].was = mem[u] /\ run'[r].at = now
        /\ run'[r].reason = queue[index].reason /\ index \in 1..Len(queue)
    BY <1>3, StartsEffect
  <2>2. ASSUME NEW t \in Task PROVE RunFrom(t)
    BY <2>1 DEF RunFrom, Held
  <2>3. QED
    BY <2>2
<1>4. ASSUME NEW r \in Run, RunBegins(r) PROVE \A u \in Task : RunFrom(u)
  <2>1. Held(r) /\ RunTo(r, "execute", run[r].next, run[r].was)
    BY <1>4, BeginsEffect DEF Held
  <2>2. QED
    BY <1>1, <2>1, RunOne
<1>5. ASSUME NEW r \in Run, RunExecuted(r) PROVE \A u \in Task : RunFrom(u)
  <2> DEFINE u == run[r].task
             latest == IF mem[u].present THEN mem[u] ELSE run[r].was
  <2>1. Held(r) /\ (RunTo(r, "consume", run[r].next, latest) \/ RunTo(r, "finish", ComputeNextRunAt(u, latest), run[r].was))
    BY <1>5, ExecutedEffect DEF Held
  <2>2. latest \in {run[r].was, mem[u]}
    OBVIOUS
  <2>3. u \in Once => ComputeNextRunAt(u, latest) \in {None, Due}
    BY <1>1, NextOfOnce
  <2> HIDE DEF latest
  <2>4. QED
    BY <1>1, <2>1, <2>2, <2>3, RunOne
<1>6. ASSUME NEW r \in Run, RunConsumes(r) PROVE \A u \in Task : RunFrom(u)
  <2> DEFINE u == run[r].task
             n == ComputeNextRunAt(u, [enabled |-> TRUE])
  <2>1. Held(r) /\ (RunTo(r, "finish", None, run[r].was) \/ RunTo(r, "finish", n, run[r].was))
    BY <1>6, ConsumesEffect DEF Held
  <2>2. u \in Once => n \in {None, Due}
    BY <1>1, NextOfOnce
  <2> HIDE DEF n
  <2>3. QED
    BY <1>1, <2>1, <2>2, RunOne
<1>7. ASSUME NEW r \in Run, RunFinishes(r) PROVE \A u \in Task : RunFrom(u)
  <2>1. Held(r) /\ RunTo(r, "settle", run[r].next, run[r].was)
    BY <1>7, FinishesEffect DEF Held
  <2>2. QED
    BY <1>1, <2>1, RunOne
<1>8. ASSUME NEW r \in Run, RunFails(r) PROVE \A u \in Task : RunFrom(u)
  <2>1. Held(r) /\ RunTo(r, "settle", run[r].next, run[r].was)
    BY <1>8, FailsEffect DEF Held
  <2>2. QED
    BY <1>1, <2>1, RunOne
<1>9. ASSUME NEW r \in Run, RunSettles(r) PROVE \A u \in Task : RunFrom(u)
  <2>1. (\A s \in Run : s # r => run'[s] = run[s]) /\ run'[r].pc = "idle"
    BY <1>1, <1>9, IdleRunTyped DEF RunSettles, TypeRuns
  <2>2. QED
    BY <2>1 DEF RunFrom, Held
<1>10. ASSUME Crash PROVE \A u \in Task : RunFrom(u)
  <2>1. \A s \in Run : run'[s].pc = "idle"
    BY <1>10, IdleRunTyped DEF Crash
  <2>2. QED
    BY <2>1 DEF RunFrom, Held
<1>11. ASSUME NEW t \in Task, TimerFires(t)
      PROVE  \A u \in Task : RunFrom(u)
  BY <1>2, <1>11 DEF TimerFires
<1>12. ASSUME NEW a \in advance, Advanced(a)
      PROVE  \A u \in Task : RunFrom(u)
  BY <1>2, <1>12 DEF Advanced
<1>13. ASSUME PumpSkips \/ PumpEnds \/ Stop \/ Tick
      PROVE  \A u \in Task : RunFrom(u)
  BY <1>2, <1>13 DEF PumpSkips, PumpEnds, Stop, Tick
<1>14. ASSUME NEW r \in Run, RunSession(r)
      PROVE  \A u \in Task : RunFrom(u)
  BY <1>2, <1>14 DEF RunSession
<1>15. ASSUME NEW m \in Manual, NEW t \in Task, RunNow(m, t)
      PROVE  \A u \in Task : RunFrom(u)
  BY <1>2, <1>15 DEF RunNow
<1>16. ASSUME NEW y \in Sync, NEW p \in Projects, SyncBegins(y, p)
      PROVE  \A u \in Task : RunFrom(u)
  BY <1>2, <1>16 DEF SyncBegins
<1>17. ASSUME NEW y \in Sync, Start(y) \/ SyncLists(y) \/ SyncSets(y) \/ SyncSchedules(y) \/
              SyncFails(y) \/ SyncSnapshots(y) \/ SyncChecks(y) \/
              SyncInterrupts(y) \/ SyncEnds(y) \/ EditApplies(y)
      PROVE  \A u \in Task : RunFrom(u)
  BY <1>2, <1>17 DEF Start, SyncLists, SyncSets, SyncSchedules, SyncFails, SyncSnapshots,
     SyncChecks, SyncInterrupts, SyncEnds, EditApplies
<1>18. ASSUME NEW y \in Sync, NEW t \in Task, EditBegins(y, t)
      PROVE  \A u \in Task : RunFrom(u)
  BY <1>2, <1>18 DEF EditBegins
<1>19. CASE UNCHANGED vars
  BY <1>2, <1>19 DEF vars, config, scheduler, admission, thread, history
<1>20. QED
  BY <1>3, <1>4, <1>5, <1>6, <1>7, <1>8, <1>9, <1>10, <1>11, <1>12, <1>13, <1>14, <1>15,
     <1>16, <1>17, <1>18, <1>19, Zenon DEF Next, Step, RunStep, SyncStep

\* Whoever changes the runs of a task is one of its runs, or the process dies.
RunsHandled == \A t \in Task : RunsKept(t) \/ Crash \/ \E r \in Run : Handles(r, t)

(***************************************************************************)
(* The runs of a task move by themselves.                                  *)
(***************************************************************************)
LEMMA RunsHandledStep ==
  ASSUME IInv, [Next]_vars
  PROVE  RunsHandled
<1>1. TypeRuns
  BY DEF IInv, TypeParts
<1>2. ASSUME UNCHANGED run PROVE RunsHandled
  BY <1>2 DEF RunsHandled, RunsKept, Held
<1>3. ASSUME NEW r \in Run, PumpStarts(r) PROVE RunsHandled
  <2>1. /\ \A s \in Run : s # r => run'[s] = run[s]
        /\ run[r].pc = "idle" /\ run'[r].pc \in {"settle", "begin"} /\ run'[r].task = queue[index].task
    BY <1>3, StartsEffect
  <2>2. QED
    BY <1>3, <2>1 DEF RunsHandled, RunsKept, Handles, Held
<1>4. ASSUME NEW r \in Run, RunBegins(r) PROVE RunsHandled
  <2>1. (\A s \in Run : s # r => run'[s] = run[s]) /\ run'[r].task = run[r].task
    BY <1>4, BeginsEffect DEF RunTo
  <2>2. QED
    BY <1>4, <2>1 DEF RunsHandled, RunsKept, Handles, Held
<1>5. ASSUME NEW r \in Run, RunExecuted(r) PROVE RunsHandled
  <2>1. (\A s \in Run : s # r => run'[s] = run[s]) /\ run'[r].task = run[r].task
    BY <1>5, ExecutedEffect DEF RunTo
  <2>2. QED
    BY <1>5, <2>1 DEF RunsHandled, RunsKept, Handles, Held
<1>6. ASSUME NEW r \in Run, RunConsumes(r) PROVE RunsHandled
  <2>1. (\A s \in Run : s # r => run'[s] = run[s]) /\ run'[r].task = run[r].task
    BY <1>6, ConsumesEffect DEF RunTo
  <2>2. QED
    BY <1>6, <2>1 DEF RunsHandled, RunsKept, Handles, Held
<1>7. ASSUME NEW r \in Run, RunFinishes(r) PROVE RunsHandled
  <2>1. (\A s \in Run : s # r => run'[s] = run[s]) /\ run'[r].task = run[r].task
    BY <1>7, FinishesEffect DEF RunTo
  <2>2. QED
    BY <1>7, <2>1 DEF RunsHandled, RunsKept, Handles, Held
<1>8. ASSUME NEW r \in Run, RunFails(r) PROVE RunsHandled
  <2>1. (\A s \in Run : s # r => run'[s] = run[s]) /\ run'[r].task = run[r].task
    BY <1>8, FailsEffect DEF RunTo
  <2>2. QED
    BY <1>8, <2>1 DEF RunsHandled, RunsKept, Handles, Held
<1>9. ASSUME NEW r \in Run, RunSettles(r) PROVE RunsHandled
  <2>1. (\A s \in Run : s # r => run'[s] = run[s]) /\ run'[r].pc = "idle" /\ run[r].pc = "settle"
    BY <1>1, <1>9, IdleRunTyped DEF RunSettles, TypeRuns
  <2>2. QED
    BY <2>1 DEF RunsHandled, RunsKept, Held
<1>10. ASSUME Crash PROVE RunsHandled
  BY <1>10 DEF RunsHandled
<1>11. ASSUME NEW t \in Task, TimerFires(t)
      PROVE  RunsHandled
  BY <1>2, <1>11 DEF TimerFires
<1>12. ASSUME NEW a \in advance, Advanced(a)
      PROVE  RunsHandled
  BY <1>2, <1>12 DEF Advanced
<1>13. ASSUME PumpSkips \/ PumpEnds \/ Stop \/ Tick
      PROVE  RunsHandled
  BY <1>2, <1>13 DEF PumpSkips, PumpEnds, Stop, Tick
<1>14. ASSUME NEW r \in Run, RunSession(r)
      PROVE  RunsHandled
  BY <1>2, <1>14 DEF RunSession
<1>15. ASSUME NEW m \in Manual, NEW t \in Task, RunNow(m, t)
      PROVE  RunsHandled
  BY <1>2, <1>15 DEF RunNow
<1>16. ASSUME NEW y \in Sync, NEW p \in Projects, SyncBegins(y, p)
      PROVE  RunsHandled
  BY <1>2, <1>16 DEF SyncBegins
<1>17. ASSUME NEW y \in Sync, Start(y) \/ SyncLists(y) \/ SyncSets(y) \/ SyncSchedules(y) \/
              SyncFails(y) \/ SyncSnapshots(y) \/ SyncChecks(y) \/
              SyncInterrupts(y) \/ SyncEnds(y) \/ EditApplies(y)
      PROVE  RunsHandled
  BY <1>2, <1>17 DEF Start, SyncLists, SyncSets, SyncSchedules, SyncFails, SyncSnapshots,
     SyncChecks, SyncInterrupts, SyncEnds, EditApplies
<1>18. ASSUME NEW y \in Sync, NEW t \in Task, EditBegins(y, t)
      PROVE  RunsHandled
  BY <1>2, <1>18 DEF EditBegins
<1>19. CASE UNCHANGED vars
  BY <1>2, <1>19 DEF vars, config, scheduler, admission, thread, history
<1>20. QED
  BY <1>3, <1>4, <1>5, <1>6, <1>7, <1>8, <1>9, <1>10, <1>11, <1>12, <1>13, <1>14, <1>15,
     <1>16, <1>17, <1>18, <1>19, Zenon DEF Next, Step, RunStep, SyncStep

(***************************************************************************)
(* The scheduled executions.                                               *)
(***************************************************************************)
LEMMA FiredFromStep ==
  ASSUME IInv, [Next]_vars
  PROVE  \A u \in Task : FiredFrom(u)
<1>1. TypeHistory
  BY DEF IInv, TypeParts
<1>2. ASSUME UNCHANGED fired PROVE \A u \in Task : FiredFrom(u)
  BY <1>2 DEF FiredFrom
<1>3. ASSUME NEW r \in Run, RunBegins(r) PROVE \A u \in Task : FiredFrom(u)
  <2>1. run[r].reason = "scheduled" \/ UNCHANGED fired
    BY <1>3 DEF RunBegins
  <2>2. \A t \in Task : t # run[r].task => fired'[t] = fired[t]
    BY <1>1, <1>3 DEF RunBegins, TypeHistory
  <2>3. QED
    BY <1>3, <2>1, <2>2 DEF FiredFrom
<1>4. ASSUME NEW y \in Sync, EditApplies(y) PROVE \A u \in Task : FiredFrom(u)
  <2>1. fired' = fired \/ fired' = [fired EXCEPT ![sync[y].cur] = 0]
    BY <1>4 DEF EditApplies
  <2>2. \A t \in Task : fired'[t] \in {0, fired[t]}
    BY <1>1, <2>1 DEF TypeHistory
  <2>3. QED
    BY <2>2 DEF FiredFrom
<1>5. ASSUME NEW t \in Task, TimerFires(t)
      PROVE  \A u \in Task : FiredFrom(u)
  BY <1>2, <1>5 DEF TimerFires, history
<1>6. ASSUME NEW a \in advance, Advanced(a)
      PROVE  \A u \in Task : FiredFrom(u)
  BY <1>2, <1>6 DEF Advanced, history
<1>7. ASSUME PumpSkips \/ PumpEnds \/ Stop \/ Tick \/ Crash
      PROVE  \A u \in Task : FiredFrom(u)
  BY <1>2, <1>7 DEF PumpSkips, PumpEnds, Stop, Tick, Crash, history
<1>8. ASSUME NEW r \in Run, PumpStarts(r) \/ RunSession(r) \/ RunExecuted(r) \/ RunConsumes(r) \/
              RunFinishes(r) \/ RunFails(r) \/ RunSettles(r)
      PROVE  \A u \in Task : FiredFrom(u)
  BY <1>2, <1>8 DEF PumpStarts, RunSession, RunExecuted, RunConsumes, RunFinishes, RunFails,
     RunSettles, history
<1>9. ASSUME NEW m \in Manual, NEW t \in Task, RunNow(m, t)
      PROVE  \A u \in Task : FiredFrom(u)
  BY <1>2, <1>9 DEF RunNow, history
<1>10. ASSUME NEW y \in Sync, NEW p \in Projects, SyncBegins(y, p)
      PROVE  \A u \in Task : FiredFrom(u)
  BY <1>2, <1>10 DEF SyncBegins, history
<1>11. ASSUME NEW y \in Sync, Start(y) \/ SyncLists(y) \/ SyncSets(y) \/ SyncSchedules(y) \/
              SyncFails(y) \/ SyncSnapshots(y) \/ SyncChecks(y) \/
              SyncInterrupts(y) \/ SyncEnds(y)
      PROVE  \A u \in Task : FiredFrom(u)
  BY <1>2, <1>11 DEF Start, SyncLists, SyncSets, SyncSchedules, SyncFails, SyncSnapshots,
     SyncChecks, SyncInterrupts, SyncEnds, history
<1>12. ASSUME NEW y \in Sync, NEW t \in Task, EditBegins(y, t)
      PROVE  \A u \in Task : FiredFrom(u)
  BY <1>2, <1>12 DEF EditBegins, history
<1>13. CASE UNCHANGED vars
  BY <1>2, <1>13 DEF vars, config, scheduler, admission, thread, history
<1>14. QED
  BY <1>3, <1>4, <1>5, <1>6, <1>7, <1>8, <1>9, <1>10, <1>11, <1>12, <1>13, Zenon DEF Next,
     Step, RunStep, SyncStep

(***************************************************************************)
(* What was lost stays lost.                                               *)
(***************************************************************************)
LEMMA LostStep ==
  ASSUME IInv, [Next]_vars
  PROVE  lost \subseteq lost'
<1>1. TypeHistory
  BY DEF IInv, TypeParts
<1>2. ASSUME UNCHANGED lost PROVE lost \subseteq lost'
  BY <1>2
<1>3. ASSUME NEW r \in Run, RunExecuted(r) PROVE lost \subseteq lost'
  BY <1>3 DEF RunExecuted, Unrecorded
<1>4. ASSUME NEW r \in Run, RunConsumes(r) PROVE lost \subseteq lost'
  BY <1>4 DEF RunConsumes, Unrecorded
<1>5. ASSUME NEW r \in Run, RunFinishes(r) PROVE lost \subseteq lost'
  BY <1>5 DEF RunFinishes, Unrecorded
<1>6. ASSUME NEW r \in Run, RunFails(r) PROVE lost \subseteq lost'
  BY <1>6 DEF RunFails, Unrecorded
<1>7. ASSUME NEW t \in Task, TimerFires(t)
      PROVE  lost \subseteq lost'
  BY <1>2, <1>7 DEF TimerFires, history
<1>8. ASSUME NEW a \in advance, Advanced(a)
      PROVE  lost \subseteq lost'
  BY <1>2, <1>8 DEF Advanced, history
<1>9. ASSUME PumpSkips \/ PumpEnds \/ Stop \/ Tick \/ Crash
      PROVE  lost \subseteq lost'
  BY <1>2, <1>9 DEF PumpSkips, PumpEnds, Stop, Tick, Crash, history
<1>10. ASSUME NEW r \in Run, PumpStarts(r) \/ RunBegins(r) \/ RunSession(r) \/ RunSettles(r)
      PROVE  lost \subseteq lost'
  BY <1>2, <1>10 DEF PumpStarts, RunBegins, RunSession, RunSettles, history
<1>11. ASSUME NEW m \in Manual, NEW t \in Task, RunNow(m, t)
      PROVE  lost \subseteq lost'
  BY <1>2, <1>11 DEF RunNow, history
<1>12. ASSUME NEW y \in Sync, NEW p \in Projects, SyncBegins(y, p)
      PROVE  lost \subseteq lost'
  BY <1>2, <1>12 DEF SyncBegins, history
<1>13. ASSUME NEW y \in Sync, Start(y) \/ SyncLists(y) \/ SyncSets(y) \/ SyncSchedules(y) \/
              SyncFails(y) \/ SyncSnapshots(y) \/ SyncChecks(y) \/
              SyncInterrupts(y) \/ SyncEnds(y) \/ EditApplies(y)
      PROVE  lost \subseteq lost'
  BY <1>2, <1>13 DEF Start, SyncLists, SyncSets, SyncSchedules, SyncFails, SyncSnapshots,
     SyncChecks, SyncInterrupts, SyncEnds, EditApplies, history
<1>14. ASSUME NEW y \in Sync, NEW t \in Task, EditBegins(y, t)
      PROVE  lost \subseteq lost'
  BY <1>2, <1>14 DEF EditBegins, history
<1>15. CASE UNCHANGED vars
  BY <1>2, <1>15 DEF vars, config, scheduler, admission, thread, history
<1>16. QED
  BY <1>3, <1>4, <1>5, <1>6, <1>7, <1>8, <1>9, <1>10, <1>11, <1>12, <1>13, <1>14, <1>15,
     Zenon DEF Next, Step, RunStep, SyncStep

(***************************************************************************)
(* A slot of a one-time task is never advanced.                            *)
(***************************************************************************)
LEMMA AdvanceStep ==
  ASSUME IInv, [Next]_vars
  PROVE  \A b \in advance' : b \in advance \/ b[1] \notin Once
<1>1. TypeTimers
  BY DEF IInv, TypeParts
<1>2. ASSUME UNCHANGED advance PROVE \A b \in advance' : b \in advance \/ b[1] \notin Once
  BY <1>2
<1>3. ASSUME NEW t \in Task, TimerFires(t) PROVE \A b \in advance' : b \in advance \/ b[1] \notin Once
  <2>1. advance' = advance \/ (advance' = advance \cup {<<t, ComputeNextRunAt(t, mem[t])>>} /\ t \notin Once)
    BY <1>3 DEF TimerFires, Missed
  <2>2. <<t, ComputeNextRunAt(t, mem[t])>>[1] = t
    OBVIOUS
  <2>3. QED
    BY <2>1, <2>2
<1>4. ASSUME NEW a \in advance, Advanced(a) PROVE \A b \in advance' : b \in advance \/ b[1] \notin Once
  BY <1>4, AdvancedEffect
<1>5. ASSUME Crash PROVE \A b \in advance' : b \in advance \/ b[1] \notin Once
  BY <1>5 DEF Crash
<1>6. ASSUME PumpSkips \/ PumpEnds \/ Stop \/ Tick
      PROVE  \A b \in advance' : b \in advance \/ b[1] \notin Once
  BY <1>2, <1>6 DEF PumpSkips, PumpEnds, Stop, Tick, scheduler
<1>7. ASSUME NEW r \in Run, PumpStarts(r) \/ RunBegins(r) \/ RunSession(r) \/ RunExecuted(r) \/
              RunConsumes(r) \/ RunFinishes(r) \/ RunFails(r) \/
              RunSettles(r)
      PROVE  \A b \in advance' : b \in advance \/ b[1] \notin Once
  BY <1>2, <1>7 DEF PumpStarts, RunBegins, RunSession, RunExecuted, RunConsumes,
     RunFinishes, RunFails, RunSettles, scheduler
<1>8. ASSUME NEW m \in Manual, NEW t \in Task, RunNow(m, t)
      PROVE  \A b \in advance' : b \in advance \/ b[1] \notin Once
  BY <1>2, <1>8 DEF RunNow, scheduler
<1>9. ASSUME NEW y \in Sync, NEW p \in Projects, SyncBegins(y, p)
      PROVE  \A b \in advance' : b \in advance \/ b[1] \notin Once
  BY <1>2, <1>9 DEF SyncBegins, scheduler
<1>10. ASSUME NEW y \in Sync, Start(y) \/ SyncLists(y) \/ SyncSets(y) \/ SyncSchedules(y) \/
              SyncFails(y) \/ SyncSnapshots(y) \/ SyncChecks(y) \/
              SyncInterrupts(y) \/ SyncEnds(y) \/ EditApplies(y)
      PROVE  \A b \in advance' : b \in advance \/ b[1] \notin Once
  BY <1>2, <1>10 DEF Start, SyncLists, SyncSets, SyncSchedules, SyncFails, SyncSnapshots,
     SyncChecks, SyncInterrupts, SyncEnds, EditApplies, scheduler
<1>11. ASSUME NEW y \in Sync, NEW t \in Task, EditBegins(y, t)
      PROVE  \A b \in advance' : b \in advance \/ b[1] \notin Once
  BY <1>2, <1>11 DEF EditBegins, scheduler
<1>12. CASE UNCHANGED vars
  BY <1>2, <1>12 DEF vars, config, scheduler, admission, thread, history
<1>13. QED
  BY <1>3, <1>4, <1>5, <1>6, <1>7, <1>8, <1>9, <1>10, <1>11, <1>12, Zenon DEF Next, Step,
     RunStep, SyncStep

-----------------------------------------------------------------------------
(* Slots, times and places.                                                *)

\* The slots of a one-time task.
Shots == {None, Due}

\* Wherever the slot of a one-time task is kept, it is its due time or none.
SlotsOf(t) ==
    /\ store[t].next \in Shots /\ mem[t].next \in Shots /\ timer[t] \in Shots
    /\ \A y \in Sync :
        /\ sync[y].pc \in Listed => sync[y].seen[t].next \in Shots
        /\ TurnOf(y, t) => sync[y].next \in Shots
    /\ \A r \in Run : Held(r) /\ run[r].task = t =>
        run[r].next \in Shots /\ run[r].was.next \in Shots
    /\ \A a \in advance : a[1] # t
OnceSlots == \A t \in Once : SlotsOf(t)

\* Nothing scheduled happens to a one-time task before it is due, and what was
\* noted of the time lies in the past.
Clocked ==
    /\ \A t \in Once : fired[t] > 0 => now >= Due
    /\ \A i \in 1..Len(queue) :
        queue[i].reason = "scheduled" /\ queue[i].task \in Once => now >= Due
    /\ \A r \in Run : Held(r) =>
        /\ run[r].at <= now
        /\ run[r].task \in Once /\ run[r].reason = "scheduled" => run[r].at >= Due
    /\ \A y \in Sync : sync[y].pc \in {"reconcile", "interrupt"} => sync[y].at <= now

\* A synchronisation that has listed the tasks waits for the lock.
SyncLocked == \A y \in Sync : sync[y].pc = "set" => In(lock[sync[y].project], y)

(***************************************************************************)
(* There is a task.                                                        *)
(***************************************************************************)
LEMMA SomeTask == \E t : t \in Task
<1>1. PICK p \in Projects : p # {}
  BY ProjectsAssumption
<1>2. p \subseteq Task
  BY ProjectsAssumption
<1>3. QED
  BY <1>1, <1>2

(***************************************************************************)
(* An enabled task stays there.                                            *)
(***************************************************************************)
LEMMA StoreMortalStep ==
  ASSUME IInv, IInv', StoreMortal, [Next]_vars
  PROVE  StoreMortal'
BY StoreFromStep DEF StoreMortal, StoreFrom

(***************************************************************************)
(* Time goes on.                                                           *)
(***************************************************************************)
LEMMA TimeStep ==
  ASSUME IInv, [Next]_vars
  PROVE  now' = now \/ now' = now + 1
<1>1. TypeClock
  BY DEF IInv, TypeParts
<1>2. ASSUME UNCHANGED now PROVE now' = now \/ now' = now + 1
  BY <1>2
<1>3. ASSUME Tick PROVE now' = now \/ now' = now + 1
  BY <1>3 DEF Tick
<1>4. ASSUME NEW t \in Task, TimerFires(t)
      PROVE  now' = now \/ now' = now + 1
  BY <1>2, <1>4 DEF TimerFires
<1>5. ASSUME NEW a \in advance, Advanced(a)
      PROVE  now' = now \/ now' = now + 1
  BY <1>2, <1>5 DEF Advanced
<1>6. ASSUME PumpSkips \/ PumpEnds \/ Stop \/ Crash
      PROVE  now' = now \/ now' = now + 1
  BY <1>2, <1>6 DEF PumpSkips, PumpEnds, Stop, Crash
<1>7. ASSUME NEW r \in Run, PumpStarts(r) \/ RunBegins(r) \/ RunSession(r) \/ RunExecuted(r) \/
              RunConsumes(r) \/ RunFinishes(r) \/ RunFails(r) \/
              RunSettles(r)
      PROVE  now' = now \/ now' = now + 1
  BY <1>2, <1>7 DEF PumpStarts, RunBegins, RunSession, RunExecuted, RunConsumes,
     RunFinishes, RunFails, RunSettles
<1>8. ASSUME NEW m \in Manual, NEW t \in Task, RunNow(m, t)
      PROVE  now' = now \/ now' = now + 1
  BY <1>2, <1>8 DEF RunNow
<1>9. ASSUME NEW y \in Sync, NEW p \in Projects, SyncBegins(y, p)
      PROVE  now' = now \/ now' = now + 1
  BY <1>2, <1>9 DEF SyncBegins
<1>10. ASSUME NEW y \in Sync, Start(y) \/ SyncLists(y) \/ SyncSets(y) \/ SyncSchedules(y) \/
              SyncFails(y) \/ SyncSnapshots(y) \/ SyncChecks(y) \/
              SyncInterrupts(y) \/ SyncEnds(y) \/ EditApplies(y)
      PROVE  now' = now \/ now' = now + 1
  BY <1>2, <1>10 DEF Start, SyncLists, SyncSets, SyncSchedules, SyncFails, SyncSnapshots,
     SyncChecks, SyncInterrupts, SyncEnds, EditApplies
<1>11. ASSUME NEW y \in Sync, NEW t \in Task, EditBegins(y, t)
      PROVE  now' = now \/ now' = now + 1
  BY <1>2, <1>11 DEF EditBegins
<1>12. CASE UNCHANGED vars
  BY <1>2, <1>12 DEF vars, config, scheduler, admission, thread, history
<1>13. QED
  BY <1>3, <1>4, <1>5, <1>6, <1>7, <1>8, <1>9, <1>10, <1>11, <1>12, Zenon DEF Next, Step,
     RunStep, SyncStep

(***************************************************************************)
(* The slots of the one-time tasks.                                        *)
(***************************************************************************)
LEMMA OnceSlotsStep ==
  ASSUME IInv, IInv', StoreMortal, OnceSlots, [Next]_vars
  PROVE  OnceSlots'
<1> SUFFICES ASSUME NEW t \in Once PROVE SlotsOf(t)'
  BY DEF OnceSlots
<1>1. t \in Task /\ TypeClock
  BY TaskAssumption DEF IInv, TypeParts
<1>2. /\ store[t].next \in Shots /\ mem[t].next \in Shots /\ timer[t] \in Shots
      /\ \A y \in Sync :
          /\ sync[y].pc \in Listed => sync[y].seen[t].next \in Shots
          /\ TurnOf(y, t) => sync[y].next \in Shots
      /\ \A r \in Run : Held(r) /\ run[r].task = t =>
          run[r].next \in Shots /\ run[r].was.next \in Shots
      /\ \A a \in advance : a[1] # t
  BY DEF OnceSlots, SlotsOf
<1>3. store'[t].next \in Shots
  <2>1. StoreFrom(t)
    BY <1>1, StoreFromStep
  <2>2. QED
    BY <1>2, <2>1 DEF StoreFrom, Shots
<1>4. mem'[t].next \in Shots
  <2>1. MemFrom(t)
    BY <1>1, MemFromStep
  <2>2. Absent.next = None
    BY DEF Absent
  <2>3. QED
    BY <1>2, <1>3, <2>1, <2>2 DEF MemFrom, Shots, Listed
<1>5. timer'[t] \in Shots
  <2>1. TimerFrom(t)
    BY <1>1, TimerFromStep
  <2>2. QED
    BY <1>2, <2>1 DEF TimerFrom, Shots
<1>6. ASSUME NEW y \in Sync
      PROVE  /\ sync'[y].pc \in Listed => sync'[y].seen[t].next \in Shots
             /\ TurnOf(y, t)' => sync'[y].next \in Shots
  <2>1. SyncFrom(t)
    BY <1>1, SyncFromStep
  <2>2. ComputeNextRunAt(t, sync'[y].seen[t]) \in Shots
    BY <1>1, NextOfOnce DEF Shots
  <2>3. QED
    BY <1>2, <2>1, <2>2 DEF SyncFrom
<1>7. ASSUME NEW r \in Run, Held(r)', run'[r].task = t
      PROVE  run'[r].next \in Shots /\ run'[r].was.next \in Shots
  <2>1. RunFrom(t)
    BY <1>1, RunFromStep
  <2>2. QED
    BY <1>2, <1>7, <2>1 DEF RunFrom, Shots
<1>8. \A a \in advance' : a[1] # t
  BY <1>2, AdvanceStep
<1>9. QED
  BY <1>3, <1>4, <1>5, <1>6, <1>7, <1>8 DEF SlotsOf

(***************************************************************************)
(* The times of the one-time tasks.                                        *)
(***************************************************************************)
LEMMA ClockedStep ==
  ASSUME IInv, IInv', OnceSlots, Clocked, [Next]_vars
  PROVE  Clocked'
<1>1. now \in Nat /\ now' \in Nat /\ now' >= now /\ Due \in Nat
  <2>1. now \in 0..Horizon /\ Horizon \in Nat /\ Due \in Nat
    BY BoundAssumption DEF IInv, TypeParts, TypeClock
  <2>2. QED
    BY <2>1, TimeStep
<1>2. TypeRuns /\ TypeSyncs /\ TypeQueue' /\ TypeRuns' /\ TypeHistory /\ TypeTimers
  BY DEF IInv, TypeParts
<1>3. ASSUME NEW t \in Once, fired'[t] > 0 PROVE now' >= Due
  <2>1. t \in Task /\ fired[t] \in Nat
    BY <1>2, TaskAssumption DEF TypeHistory
  <2>2. FiredFrom(t)
    BY <2>1, FiredFromStep
  <2>3. CASE fired'[t] \in {0, fired[t]}
    BY <1>1, <1>3, <2>1, <2>3 DEF Clocked
  <2>4. ASSUME NEW r \in Run, run[r].task = t, run[r].reason = "scheduled", RunBegins(r)
        PROVE  now' >= Due
    <3>1. Held(r)
      BY <2>4, BeginsEffect DEF Held
    <3>2. run[r].at \in Nat /\ run[r].at <= now /\ run[r].at >= Due
      BY <1>2, <2>4, <3>1, BoundAssumption DEF Clocked, TypeRuns, Runs
    <3>3. QED
      BY <1>1, <3>2
  <2>5. QED
    BY <2>2, <2>3, <2>4 DEF FiredFrom
<1>4. ASSUME NEW i \in 1..Len(queue'), queue'[i].reason = "scheduled", queue'[i].task \in Once
      PROVE  now' >= Due
  <2> DEFINE t == queue'[i].task
  <2>1. t \in Task /\ t \in Once
    BY <1>4, TaskAssumption
  <2>2. QueueFrom(t)
    BY <2>1, QueueFromStep
  <2>3. \/ \E j \in 1..Len(queue) : queue'[i] = queue[j]
        \/ timer[t] # None /\ now >= timer[t]
        \/ \E y \in Sync : /\ sync[y].pc \in {"reconcile", "interrupt"}
                           /\ Overdue(t, sync[y].seen[t], sync[y].at)
    BY <1>4, <2>2 DEF QueueFrom
  <2>4. CASE \E j \in 1..Len(queue) : queue'[i] = queue[j]
    BY <1>1, <1>4, <2>4 DEF Clocked
  <2>5. CASE timer[t] # None /\ now >= timer[t]
    BY <1>1, <2>1, <2>5 DEF OnceSlots, SlotsOf, Shots
  <2>6. ASSUME NEW y \in Sync, sync[y].pc \in {"reconcile", "interrupt"},
               Overdue(t, sync[y].seen[t], sync[y].at)
        PROVE  now' >= Due
    <3>1. sync[y].at \in Nat
      BY <1>2, BoundAssumption DEF TypeSyncs, Syncs
    <3>2. Due <= sync[y].at /\ sync[y].at <= now
      BY <2>6 DEF Overdue, Clocked
    <3>3. QED
      BY <1>1, <3>1, <3>2
  <2>7. QED
    BY <2>3, <2>4, <2>5, <2>6
<1>5. ASSUME NEW r \in Run, Held(r)'
      PROVE  /\ run'[r].at <= now'
             /\ run'[r].task \in Once /\ run'[r].reason = "scheduled" => run'[r].at >= Due
  <2> DEFINE t == run'[r].task
  <2>1. t \in Task
    BY <1>2, <1>5 DEF TypeRuns, Held
  <2>2. RunFrom(t)
    BY <2>1, RunFromStep
  <2>3. \/ /\ Held(r) /\ run[r].task = t
           /\ run'[r].at = run[r].at /\ run'[r].reason = run[r].reason
        \/ /\ run'[r].at = now
           /\ \E i \in 1..Len(queue) : queue[i].task = t /\ queue[i].reason = run'[r].reason
    BY <1>5, <2>2 DEF RunFrom
  <2>4. run[r].at \in Nat
    BY <1>2, BoundAssumption DEF TypeRuns, Runs
  <2> HIDE DEF t
  <2>5. CASE Held(r) /\ run[r].task = t /\ run'[r].at = run[r].at /\ run'[r].reason = run[r].reason
    BY <1>1, <2>4, <2>5 DEF Clocked, t
  <2>6. CASE /\ run'[r].at = now
             /\ \E i \in 1..Len(queue) : queue[i].task = t /\ queue[i].reason = run'[r].reason
    BY <1>1, <2>6 DEF Clocked, t
  <2>7. QED
    BY <2>3, <2>5, <2>6
<1>6. ASSUME NEW y \in Sync, sync'[y].pc \in {"reconcile", "interrupt"}
      PROVE  sync'[y].at <= now'
  <2>1. PICK t : t \in Task
    BY SomeTask
  <2>2. SyncFrom(t)
    BY <2>1, SyncFromStep
  <2>3. sync[y].at \in Nat
    BY <1>2, BoundAssumption DEF TypeSyncs, Syncs
  <2>4. QED
    BY <1>1, <1>6, <2>2, <2>3 DEF SyncFrom, Clocked
<1>7. QED
  BY <1>3, <1>4, <1>5, <1>6 DEF Clocked

(***************************************************************************)
(* The places of the synchronisations that have listed the tasks.          *)
(***************************************************************************)
LEMMA SyncLockedStep ==
  ASSUME IInv, SyncLocked, [Next]_vars
  PROVE  SyncLocked'
<1> SUFFICES ASSUME NEW y \in Sync, sync'[y].pc = "set" PROVE In(lock'[sync'[y].project], y)
  BY DEF SyncLocked
<1>1. TypeSyncs /\ TypeLock
  BY DEF IInv, TypeParts
<1>2. PICK t : t \in Task
  BY SomeTask
<1>3. sync'[y] = sync[y] \/ SyncLists(y)
  BY <1>2, SyncFromStep DEF SyncFrom
<1>4. CASE sync'[y] = sync[y]
  <2>1. sync[y].project \in Projects /\ In(lock[sync[y].project], y) /\ Rests(y)
    BY <1>1, <1>4 DEF TypeSyncs, SyncLocked, Rests
  <2>2. QED
    BY <1>4, <2>1, OrderStep DEF OrderKept
<1>5. CASE SyncLists(y)
  <2>1. /\ sync[y].project \in Projects /\ Asks(sync[y].project, y)
        /\ sync'[y].project = sync[y].project /\ y \in Writers
    BY <1>5, ListsEffect DEF SyncTo, Writers
  <2>2. QED
    BY <1>1, <2>1, LockAsked
<1>6. QED
  BY <1>3, <1>4, <1>5

-----------------------------------------------------------------------------
(* A one-time task that was executed is on record.                         *)

\* The record says that nothing is left to execute.
Aware(rec) == ~rec.enabled \/ (rec.ran # None /\ rec.ran >= Due)

\* The synchronisation y is about to copy t to memory as it was enabled.
Stale(y, t) == sync[y].pc = "set" /\ t \in sync[y].project /\ sync[y].seen[t].enabled

\* The scheduled run r of t is under way, and the configuration already tells a
\* restart that there is nothing to catch up with; once it is consumed, what a
\* synchronisation copies of the time before is overwritten by its last update.
LiveRun(r, t) ==
    /\ run[r].task = t /\ run[r].reason = "scheduled"
    /\ \/ run[r].pc \in {"execute", "consume"} /\ Aware(store[t])
       \/ /\ run[r].pc = "finish" /\ ~store[t].enabled
          /\ \A y \in Sync : Stale(y, t) => Behind(lock[ProjectOf(t)], y, r)
Live(t) == \E r \in Run : LiveRun(r, t)

\* The scheduled run of t has ended and the task is disabled.
ManualOnly(t) == \A r \in Run : Held(r) /\ run[r].task = t => run[r].reason = "manual"
Done(t) ==
    /\ store[t].present /\ ~store[t].enabled /\ ~mem[t].enabled
    /\ \A y \in Sync : ~Stale(y, t)
    /\ ManualOnly(t)

\* The process has died since: whatever is read or kept of t says that it ran.
SyncAware(y, t) ==
    /\ sync[y].pc \in Listed => Aware(sync[y].seen[t])
    /\ TurnOf(y, t) => sync[y].next = None
LateRun(r, t) ==
    Held(r) /\ run[r].task = t =>
        run[r].reason = "manual" /\ run[r].at >= Due /\ run[r].next = None
Known(t) ==
    /\ Aware(store[t]) /\ Aware(mem[t]) /\ timer[t] = None
    /\ \A y \in Sync : SyncAware(y, t)
    /\ \A i \in 1..Len(queue) : queue[i].task = t => queue[i].reason = "manual"
    /\ \A r \in Run : LateRun(r, t)

Recorded(t) ==
    \/ fired[t] = 0 \/ t \in lost
    \/ fired[t] = 1 /\ (Live(t) \/ Done(t) \/ Known(t))

OnceInv ==
    /\ IInv /\ StoreMortal /\ OnceSlots /\ Clocked /\ SyncLocked
    /\ \A t \in Once : Recorded(t)

(***************************************************************************)
(* A writer that passes the lock on and asks again is behind all others.   *)
(***************************************************************************)
LEMMA AgainLast ==
  ASSUME TypeLock, NEW p \in Projects, NEW w \in Writers, Holds(p, w), AsksAgain(p, w),
         Single(lock[p], w), NEW x, x # w
  PROVE  Behind(lock'[p], x, w)
<1>1. /\ lock[p] \in Seq(Writers) /\ lock[p] # <<>> /\ Head(lock[p]) = w
      /\ lock'[p] = Append(Tail(lock[p]), w)
  BY DEF TypeLock, Holds, AsksAgain
<1>2. Tail(lock[p]) \in Seq(Writers) /\ ~In(Tail(lock[p]), w)
  BY <1>1, WaitPassed
<1> DEFINE b == Tail(lock[p])
<1> HIDE DEF b
<1>3. b \in Seq(Writers) /\ ~In(b, w) /\ lock'[p] = Append(b, w)
  BY <1>1, <1>2 DEF b
<1>4. QED
  BY <1>3, WaitAppended

(***************************************************************************)
(* A task has one run.                                                     *)
(***************************************************************************)
LEMMA OneRun ==
  ASSUME IInv, NEW r \in Run, NEW s \in Run, Held(r), Held(s), run[r].task = run[s].task
  PROVE  r = s
BY DEF IInv, Admitted, RunKeys

(***************************************************************************)
(* A record stays aware, and so does memory.                               *)
(***************************************************************************)
LEMMA AwareKept ==
  ASSUME NEW t, StoreKept(t), Aware(store[t])
  PROVE  Aware(store'[t])
BY DEF StoreKept, Aware

(***************************************************************************)
(* Steps that leave the runs of t alone keep a live run,                   *)
(***************************************************************************)
LEMMA LiveFrame ==
  ASSUME IInv, NEW t \in Once, [Next]_vars, RunsKept(t), StoreKept(t), Live(t)
  PROVE  Live(t)'
<1>1. PICK r \in Run : LiveRun(r, t)
  BY DEF Live
<1>2. Held(r) /\ run'[r] = run[r] /\ t \in Task
  BY <1>1, TaskAssumption DEF LiveRun, Held, RunsKept
<1>3. CASE run[r].pc \in {"execute", "consume"} /\ Aware(store[t])
  BY <1>1, <1>2, <1>3, AwareKept DEF LiveRun, Live
<1>4. CASE /\ run[r].pc = "finish" /\ ~store[t].enabled
           /\ \A y \in Sync : Stale(y, t) => Behind(lock[ProjectOf(t)], y, r)
  <2>1. ~store'[t].enabled
    BY <1>4 DEF StoreKept
  <2>2. ASSUME NEW y \in Sync, Stale(y, t)' PROVE Behind(lock'[ProjectOf(t)], y, r)
    <3>1. sync'[y].pc = "set" /\ t \in sync'[y].project /\ sync'[y].seen[t].enabled
      BY <2>2 DEF Stale
    <3>2. sync'[y] = sync[y] \/ SyncLists(y)
      BY <1>2, <3>1, SyncFromStep DEF SyncFrom
    <3>3. ~SyncLists(y)
      BY <1>4, <3>1, ListsEffect DEF SyncTo
    <3>4. Stale(y, t) /\ Rests(y)
      BY <3>1, <3>2, <3>3 DEF Stale, Rests
    <3>5. QED
      BY <1>2, <1>4, <3>4, ProjectOfTask, OrderStep DEF OrderKept
  <2>3. QED
    BY <1>1, <1>2, <1>4, <2>1, <2>2 DEF LiveRun, Live
<1>5. QED
  BY <1>1, <1>3, <1>4 DEF LiveRun

(***************************************************************************)
(* a finished one,                                                         *)
(***************************************************************************)
LEMMA DoneFrame ==
  ASSUME IInv, IInv', NEW t \in Once, [Next]_vars, RunsKept(t), StoreKept(t), Done(t)
  PROVE  Done(t)'
<1>1. t \in Task /\ store[t].present /\ ~store[t].enabled /\ ~mem[t].enabled
      /\ (\A y \in Sync : ~Stale(y, t)) /\ ManualOnly(t)
  BY TaskAssumption DEF Done
<1>2. store'[t].present /\ ~store'[t].enabled
  BY <1>1 DEF StoreKept
<1>3. ~mem'[t].enabled
  <2>1. MemFrom(t)
    BY <1>1, MemFromStep
  <2>2. ~Absent.enabled
    BY DEF Absent
  <2>3. QED
    BY <1>1, <1>2, <2>1, <2>2 DEF MemFrom, Stale
<1>4. ASSUME NEW y \in Sync PROVE ~Stale(y, t)'
  <2>1. CASE SyncLists(y)
    BY <1>1, <2>1, ListsEffect DEF SyncTo, Stale
  <2>2. CASE sync'[y].pc = "set" => sync'[y] = sync[y]
    BY <1>1, <2>2 DEF Stale
  <2>3. QED
    BY <1>1, <2>1, <2>2, SyncFromStep DEF SyncFrom
<1>5. ManualOnly(t)'
  BY <1>1 DEF ManualOnly, RunsKept, Held
<1>6. QED
  BY <1>2, <1>3, <1>4, <1>5 DEF Done

(***************************************************************************)
(* and the knowledge of an earlier process.                                *)
(***************************************************************************)
LEMMA KnownFrame ==
  ASSUME IInv, IInv', OnceSlots, Clocked, NEW t \in Once, fired[t] > 0, [Next]_vars,
         Aware(store'[t]), \A r \in Run : LateRun(r, t)', Known(t), timer'[t] = None
  PROVE  Known(t)'
<1>1. t \in Task /\ Aware(store[t]) /\ Aware(mem[t]) /\ timer[t] = None
      /\ (\A y \in Sync : SyncAware(y, t))
      /\ (\A i \in 1..Len(queue) : queue[i].task = t => queue[i].reason = "manual")
  BY TaskAssumption DEF Known
<1>2. TypeClock /\ TypeSyncs /\ now >= Due
  BY DEF IInv, TypeParts, Clocked
<1>3. Aware(mem'[t])
  <2>1. MemFrom(t)
    BY <1>1, MemFromStep
  <2>2. Aware(Absent)
    BY DEF Aware, Absent
  <2>3. \A y \in Sync : sync[y].pc \in {"set", "schedule"} => Aware(sync[y].seen[t])
    BY <1>1 DEF SyncAware, Listed
  <2>4. QED
    BY <1>1, <2>1, <2>2, <2>3 DEF MemFrom
<1>4. ASSUME NEW y \in Sync PROVE SyncAware(y, t)'
  <2>1. SyncFrom(t)
    BY <1>1, SyncFromStep
  <2>2. sync'[y].pc \in Listed => Aware(sync'[y].seen[t])
    BY <1>1, <2>1 DEF SyncFrom, SyncAware
  <2>3. ComputeNextRunAt(t, sync'[y].seen[t]) = None
    BY <1>2, NextOfOnce
  <2>4. TurnOf(y, t)' => sync'[y].next = None
    BY <1>1, <2>1, <2>3 DEF SyncFrom, SyncAware
  <2>5. QED
    BY <2>2, <2>4 DEF SyncAware
<1>5. ASSUME NEW i \in 1..Len(queue'), queue'[i].task = t PROVE queue'[i].reason = "manual"
  <2>1. QueueFrom(t)
    BY <1>1, QueueFromStep
  <2>2. ASSUME NEW y \in Sync, sync[y].pc \in {"reconcile", "interrupt"} 
        PROVE  ~Overdue(t, sync[y].seen[t], sync[y].at)
    <3>1. Aware(sync[y].seen[t]) /\ sync[y].seen[t] \in Records
      BY <1>1, <1>2, <2>2 DEF SyncAware, Listed, TypeSyncs
    <3>2. sync[y].seen[t].ran \in {None} \cup Nat
      BY <3>1, BoundAssumption DEF Records, Slots
    <3>3. QED
      BY <3>1, <3>2, BoundAssumption DEF Aware, Overdue
  <2>3. QED
    BY <1>1, <1>5, <2>1, <2>2 DEF QueueFrom
<1>6. QED
  BY <1>1, <1>3, <1>4, <1>5 DEF Known

(***************************************************************************)
(* Steps that leave the runs of t alone.                                   *)
(***************************************************************************)
LEMMA RecordedFrame ==
  ASSUME OnceInv, IInv', NEW t \in Once, [Next]_vars, RunsKept(t)
  PROVE  Recorded(t)'
<1>1. /\ IInv /\ StoreMortal /\ OnceSlots /\ Clocked /\ Recorded(t) /\ t \in Task
  BY TaskAssumption DEF OnceInv
<1>2. fired'[t] = 0 \/ (fired'[t] = fired[t] /\ StoreKept(t))
  <2>1. StoreFrom(t) /\ FiredFrom(t)
    BY <1>1, StoreFromStep, FiredFromStep
  <2>2. ASSUME NEW r \in Run, run[r].task = t, RunBegins(r) PROVE FALSE
    <3>1. Held(r) /\ run'[r].pc # run[r].pc
      BY <1>1, <2>2, BeginsEffect DEF Held, RunTo
    <3>2. QED
      BY <2>2, <3>1, MovingRun
  <2>3. QED
    BY <2>1, <2>2 DEF StoreFrom, FiredFrom
<1>3. lost \subseteq lost'
  BY <1>1, LostStep
<1>4. CASE StoreKept(t) /\ fired'[t] = fired[t] /\ fired[t] = 1
  <2>1. CASE Live(t)
    BY <1>1, <1>4, <2>1, LiveFrame DEF Recorded
  <2>2. CASE Done(t)
    BY <1>1, <1>4, <2>2, DoneFrame DEF Recorded
  <2>3. CASE Known(t)
    <3>1. Aware(store'[t])
      BY <1>4, <2>3, AwareKept DEF Known
    <3>2. \A r \in Run : LateRun(r, t)'
      BY <2>3 DEF Known, LateRun, RunsKept, Held
    <3>3. timer'[t] = None
      <4>1. TimerFrom(t)
        BY <1>1, TimerFromStep
      <4>2. timer[t] = None /\ \A y \in Sync : TurnOf(y, t) => sync[y].next = None
        BY <2>3 DEF Known, SyncAware
      <4>3. \A a \in advance : a[1] # t
        BY <1>1 DEF OnceSlots, SlotsOf
      <4>4. QED
        BY <4>1, <4>2, <4>3 DEF TimerFrom
    <3>4. fired[t] > 0
      BY <1>4
    <3>5. QED
      BY <1>1, <1>4, <2>3, <3>1, <3>2, <3>3, <3>4, KnownFrame DEF Recorded
  <2>4. QED
    BY <1>1, <1>3, <1>4, <2>1, <2>2, <2>3 DEF Recorded
<1>5. QED
  BY <1>1, <1>2, <1>3, <1>4 DEF Recorded

(***************************************************************************)
(* A run of t is admitted.                                                 *)
(***************************************************************************)
LEMMA RecordedStarts ==
  ASSUME OnceInv, IInv', NEW t \in Once, NEW r \in Run, PumpStarts(r), queue[index].task = t,
         run'[r].pc = "begin", [Next]_vars
  PROVE  Recorded(t)'
<1>1. /\ IInv /\ OnceSlots /\ Clocked /\ Recorded(t) /\ t \in Task /\ TypeRuns /\ TypeClock
  BY TaskAssumption DEF OnceInv, IInv, TypeParts
<1>2. /\ index \in 1..Len(queue) /\ run[r].pc = "idle" /\ UNCHANGED <<store, mem, timer, sync>>
      /\ \A s \in Run : s # r => run'[s] = run[s]
      /\ run'[r].task = t /\ run'[r].next = None /\ run'[r].at = now
      /\ run'[r].reason = queue[index].reason
      /\ run'[r].reason = "scheduled" => mem[t].enabled
      /\ t \notin runningTaskKeys
  BY <1>1, StartsEffect
<1>3. run'[r].reason \in {"scheduled", "manual"}
  BY DEF IInv, TypeParts, TypeRuns, Runs, Reasons
<1>4. \A s \in Run : Held(s) => run[s].task # t
  BY <1>1, <1>2 DEF IInv, Admitted, RunKeys, HeldRuns
<1>5. UNCHANGED <<fired, lost>>
  BY DEF PumpStarts, history
<1>6. ~Live(t)
  BY <1>4 DEF Live, LiveRun, Held
<1>7. CASE fired[t] = 1 /\ Done(t)
  <2>1. ManualOnly(t)'
    BY <1>2, <1>3, <1>4, <1>7 DEF ManualOnly, Done, Held
  <2>2. \A y \in Sync : Stale(y, t)' = Stale(y, t)
    BY <1>2 DEF Stale
  <2>3. QED
    BY <1>2, <1>5, <1>7, <2>1, <2>2 DEF Done, Recorded
<1>8. CASE fired[t] = 1 /\ Known(t)
  <2>1. Aware(store'[t]) /\ timer'[t] = None
    BY <1>2, <1>8 DEF Known
  <2>2. now >= Due /\ fired[t] > 0
    BY <1>1, <1>8 DEF Clocked
  <2>3. run'[r].reason = "manual"
    BY <1>2, <1>8 DEF Known
  <2>4. \A s \in Run : LateRun(s, t)'
    BY <1>2, <1>4, <2>2, <2>3 DEF LateRun, Held
  <2>5. QED
    BY <1>1, <1>5, <1>8, <2>1, <2>2, <2>4, KnownFrame DEF Recorded
<1>9. QED
  BY <1>1, <1>5, <1>6, <1>7, <1>8 DEF Recorded

(***************************************************************************)
(* The first update of a run of t.                                         *)
(***************************************************************************)
LEMMA RecordedBegins ==
  ASSUME OnceInv, IInv', NEW t \in Once, NEW r \in Run, RunBegins(r), run[r].task = t, [Next]_vars
  PROVE  Recorded(t)'
<1>1. /\ IInv /\ OnceSlots /\ Clocked /\ Recorded(t) /\ t \in Task /\ StoreMortal /\ TypeHistory
      /\ TypeRuns
  BY TaskAssumption DEF OnceInv, IInv, TypeParts
<1>2. /\ run[r].pc = "begin" /\ UNCHANGED <<timer, sync>> /\ Copied(t)
      /\ store'[t].enabled = store[t].enabled
      /\ store[t].present => store'[t].ran = run[r].at
      /\ RunTo(r, "execute", run[r].next, run[r].was)
  BY <1>1, BeginsEffect DEF RunBegins
<1>3. Held(r) /\ UNCHANGED lost
  BY <1>2 DEF Held, RunBegins
<1>4. \A s \in Run : Held(s) /\ run[s].task = t => s = r
  BY <1>1, <1>3, OneRun
<1>5. ~Live(t)
  BY <1>2, <1>4 DEF Live, LiveRun, Held
<1>6. run[r].at \in Nat /\ run[r].reason \in {"scheduled", "manual"}
  BY <1>1, BoundAssumption DEF TypeRuns, Runs, Reasons
<1>7. run[r].at >= Due => Aware(store'[t])
  BY <1>1, <1>2, <1>6, NoneAssumption DEF Aware, StoreMortal, Copied
<1>8. CASE run[r].reason = "scheduled"
  <2>1. ~Done(t) /\ ~Known(t)
    BY <1>1, <1>3, <1>8 DEF Done, ManualOnly, Known, LateRun
  <2>2. SUFFICES ASSUME fired[t] = 0, t \notin lost PROVE Recorded(t)'
    BY <1>1, <1>3, <1>5, <2>1 DEF Recorded
  <2>3. fired'[t] = 1
    BY <1>1, <1>8, <2>2 DEF RunBegins, TypeHistory
  <2>4. run[r].at >= Due
    BY <1>1, <1>3, <1>8 DEF Clocked
  <2>5. LiveRun(r, t)'
    BY <1>2, <1>7, <1>8, <2>4 DEF LiveRun, RunTo
  <2>6. QED
    BY <2>3, <2>5 DEF Recorded, Live
<1>9. CASE run[r].reason = "manual"
  <2>1. UNCHANGED fired
    BY <1>9 DEF RunBegins
  <2>2. CASE fired[t] = 1 /\ Done(t)
    <3>1. ManualOnly(t)'
      BY <1>2, <1>3, <1>9, <2>2 DEF ManualOnly, Done, Held, RunTo
    <3>2. \A y \in Sync : Stale(y, t)' = Stale(y, t)
      BY <1>2 DEF Stale
    <3>3. store'[t].present /\ ~store'[t].enabled /\ ~mem'[t].enabled
      BY <1>2, <2>2 DEF Done, Copied
    <3>4. QED
      BY <2>1, <2>2, <3>1, <3>2, <3>3 DEF Done, Recorded
  <2>3. CASE fired[t] = 1 /\ Known(t)
    <3>1. run[r].at >= Due
      BY <1>1, <1>3, <2>3 DEF Known, LateRun
    <3>2. Aware(store'[t]) /\ timer'[t] = None /\ fired[t] > 0
      BY <1>2, <1>7, <2>3, <3>1 DEF Known
    <3>3. \A s \in Run : LateRun(s, t)'
      BY <1>1, <1>2, <1>3, <2>3 DEF Known, LateRun, Held, RunTo
    <3>4. QED
      BY <1>1, <2>1, <2>3, <3>2, <3>3, KnownFrame DEF Recorded
  <2>4. QED
    BY <1>1, <1>3, <1>5, <2>1, <2>2, <2>3 DEF Recorded
<1>10. QED
  BY <1>6, <1>8, <1>9

(***************************************************************************)
(* The end of the execution.                                               *)
(***************************************************************************)
LEMMA RecordedExecuted ==
  ASSUME OnceInv, IInv', NEW t \in Once, NEW r \in Run, RunExecuted(r), run[r].task = t,
         [Next]_vars
  PROVE  Recorded(t)'
<1> DEFINE latest == IF mem[t].present THEN mem[t] ELSE run[r].was
<1>1. /\ IInv /\ OnceSlots /\ Clocked /\ Recorded(t) /\ t \in Task /\ TypeLock /\ TypeClock
  BY TaskAssumption DEF OnceInv, IInv, TypeParts
<1>2. /\ run[r].pc = "execute" /\ Asks(ProjectOf(t), r) /\ ~In(lock[ProjectOf(t)], r)
      /\ UNCHANGED <<store, mem, timer, sync>>
  BY <1>1, ExecutedEffect
<1>3. IF run[r].reason = "scheduled" /\ latest.enabled
      THEN RunTo(r, "consume", run[r].next, latest)
      ELSE RunTo(r, "finish", ComputeNextRunAt(t, latest), run[r].was)
  BY <1>1, ExecutedEffect
<1>4. Held(r) /\ lost \subseteq lost' /\ UNCHANGED fired
      /\ lost' = Unrecorded(r, ~latest.enabled /\ store[t].enabled)
  BY <1>1, <1>2, LostStep DEF Held, RunExecuted
<1>5. \A s \in Run : Held(s) /\ run[s].task = t => s = r
  BY <1>1, <1>4, OneRun
<1> HIDE DEF latest
<1>6. CASE fired[t] = 1 /\ Live(t)
  <2>1. LiveRun(r, t)
    BY <1>5, <1>6 DEF Live, LiveRun, Held
  <2>2. run[r].reason = "scheduled" /\ Aware(store[t])
    BY <1>2, <2>1 DEF LiveRun
  <2>3. CASE latest.enabled
    <3>1. LiveRun(r, t)'
      BY <1>2, <1>3, <2>1, <2>2, <2>3 DEF LiveRun, RunTo
    <3>2. QED
      BY <1>4, <1>6, <3>1 DEF Recorded, Live
  <2>4. CASE ~latest.enabled /\ store[t].enabled
    BY <1>4, <2>1, <2>4 DEF Unrecorded, Recorded, LiveRun
  <2>5. CASE ~latest.enabled /\ ~store[t].enabled
    <3>1. RunTo(r, "finish", ComputeNextRunAt(t, latest), run[r].was)
      BY <1>3, <2>5
    <3>2. \A y \in Sync : Behind(lock'[ProjectOf(t)], y, r)
      BY <1>1, <1>2, Kinds, ProjectOfTask, LockAsked
    <3>3. LiveRun(r, t)'
      BY <1>2, <2>1, <2>2, <2>5, <3>1, <3>2 DEF LiveRun, RunTo
    <3>4. QED
      BY <1>4, <1>6, <3>3 DEF Recorded, Live
  <2>6. QED
    BY <2>3, <2>4, <2>5
<1>7. run'[r].task = t /\ run'[r].reason = run[r].reason /\ run'[r].at = run[r].at
      /\ \A s \in Run : s # r => run'[s] = run[s]
  BY <1>3 DEF RunTo
<1>8. CASE fired[t] = 1 /\ Done(t)
  <2>1. ManualOnly(t)'
    BY <1>4, <1>7, <1>8 DEF ManualOnly, Done, Held
  <2>2. \A y \in Sync : Stale(y, t)' = Stale(y, t)
    BY <1>2 DEF Stale
  <2>3. QED
    BY <1>2, <1>4, <1>8, <2>1, <2>2 DEF Done, Recorded
<1>9. CASE fired[t] = 1 /\ Known(t)
  <2>1. Aware(store'[t]) /\ timer'[t] = None /\ fired[t] > 0
    BY <1>2, <1>9 DEF Known
  <2>2. run[r].reason = "manual" /\ run[r].at >= Due
    BY <1>4, <1>9 DEF Known, LateRun
  <2>3. now >= Due
    BY <1>1, <2>1 DEF Clocked
  <2>4. run'[r].next = None
    BY <1>1, <1>3, <2>2, <2>3, NextOfOnce DEF RunTo
  <2>5. \A s \in Run : LateRun(s, t)'
    BY <1>7, <1>9, <2>2, <2>4 DEF Known, LateRun, Held
  <2>6. QED
    BY <1>1, <1>4, <1>9, <2>1, <2>5, KnownFrame DEF Recorded
<1>10. QED
  BY <1>1, <1>4, <1>6, <1>8, <1>9 DEF Recorded

(***************************************************************************)
(* The task is disabled.                                                   *)
(***************************************************************************)
LEMMA RecordedConsumes ==
  ASSUME OnceInv, IInv', NEW t \in Once, NEW r \in Run, RunConsumes(r), run[r].task = t,
         [Next]_vars
  PROVE  Recorded(t)'
<1>1. /\ IInv /\ OnceSlots /\ Clocked /\ Recorded(t) /\ t \in Task /\ TypeLock /\ TypeClock /\ Locked
  BY TaskAssumption DEF OnceInv, IInv, TypeParts
<1>2. /\ run[r].pc = "consume" /\ Holds(ProjectOf(t), r) /\ AsksAgain(ProjectOf(t), r)
      /\ UNCHANGED <<timer, sync>>
  BY <1>1, ConsumesEffect
<1>3. \/ /\ ~store'[t].enabled /\ mem'[t] = store'[t]
         /\ store[t].present => store'[t].present
         /\ RunTo(r, "finish", None, run[r].was)
      \/ /\ UNCHANGED <<store, mem>>
         /\ RunTo(r, "finish", ComputeNextRunAt(t, [enabled |-> TRUE]), run[r].was)
         /\ lost' = Unrecorded(r, TRUE)
  BY <1>1, ConsumesEffect
<1>4. Held(r) /\ lost \subseteq lost' /\ UNCHANGED fired
  BY <1>1, <1>2, LostStep DEF Held, RunConsumes
<1>5. \A s \in Run : Held(s) /\ run[s].task = t => s = r
  BY <1>1, <1>4, OneRun
<1>6. run'[r].task = t /\ run'[r].reason = run[r].reason /\ run'[r].at = run[r].at
      /\ run'[r].pc = "finish" /\ \A s \in Run : s # r => run'[s] = run[s]
  BY <1>3 DEF RunTo
<1>7. CASE fired[t] = 1 /\ Live(t)
  <2>1. run[r].reason = "scheduled"
    BY <1>5, <1>7 DEF Live, LiveRun, Held
  <2>2. CASE lost' = Unrecorded(r, TRUE)
    BY <2>1, <2>2 DEF Unrecorded, Recorded
  <2>3. CASE ~store'[t].enabled
    <3>1. Single(lock[ProjectOf(t)], r)
      BY <1>1, ProjectOfTask DEF Locked
    <3>2. \A y \in Sync : Behind(lock'[ProjectOf(t)], y, r)
      BY <1>1, <1>2, <3>1, Kinds, ProjectOfTask, AgainLast
    <3>3. LiveRun(r, t)'
      BY <1>6, <2>1, <2>3, <3>2 DEF LiveRun
    <3>4. QED
      BY <1>4, <1>7, <3>3 DEF Recorded, Live
  <2>4. QED
    BY <1>3, <2>2, <2>3
<1>8. CASE fired[t] = 1 /\ Done(t)
  <2>1. ManualOnly(t)'
    BY <1>4, <1>6, <1>8 DEF ManualOnly, Done, Held
  <2>2. \A y \in Sync : Stale(y, t)' = Stale(y, t)
    BY <1>2 DEF Stale
  <2>3. store'[t].present /\ ~store'[t].enabled /\ ~mem'[t].enabled
    BY <1>3, <1>8 DEF Done
  <2>4. QED
    BY <1>4, <1>8, <2>1, <2>2, <2>3 DEF Done, Recorded
<1>9. CASE fired[t] = 1 /\ Known(t)
  <2>1. Aware(store'[t]) /\ timer'[t] = None /\ fired[t] > 0
    <3>1. Aware(store[t]) /\ timer[t] = None /\ fired[t] > 0
      BY <1>9 DEF Known
    <3>2. ~store'[t].enabled => Aware(store'[t])
      BY DEF Aware
    <3>3. QED
      BY <1>2, <1>3, <3>1, <3>2
  <2>2. run[r].reason = "manual" /\ run[r].at >= Due
    BY <1>4, <1>9 DEF Known, LateRun
  <2>3. now >= Due
    BY <1>1, <2>1 DEF Clocked
  <2>4. run'[r].next = None
    BY <1>1, <1>3, <2>3, NextOfOnce DEF RunTo
  <2>5. \A s \in Run : LateRun(s, t)'
    BY <1>6, <1>9, <2>2, <2>4 DEF Known, LateRun, Held
  <2>6. QED
    BY <1>1, <1>4, <1>9, <2>1, <2>5, KnownFrame DEF Recorded
<1>10. QED
  BY <1>1, <1>4, <1>7, <1>8, <1>9 DEF Recorded

(***************************************************************************)
(* The last update: no stale copy is left to come.                         *)
(***************************************************************************)
LEMMA RecordedFinishes ==
  ASSUME OnceInv, IInv', NEW t \in Once, NEW r \in Run, RunFinishes(r), run[r].task = t,
         [Next]_vars
  PROVE  Recorded(t)'
<1>1. /\ IInv /\ OnceSlots /\ Clocked /\ SyncLocked /\ Recorded(t) /\ t \in Task /\ TypeLock /\ TypeSyncs
  BY TaskAssumption DEF OnceInv, IInv, TypeParts
<1>2. /\ run[r].pc = "finish" /\ Holds(ProjectOf(t), r) /\ UNCHANGED sync /\ Copied(t)
      /\ store'[t].enabled = store[t].enabled /\ store'[t].ran = store[t].ran
      /\ RunTo(r, "settle", run[r].next, run[r].was)
  BY <1>1, FinishesEffect
<1>3. timer'[t] = timer[t] \/ (run[r].next # None /\ timer'[t] = run[r].next)
  BY <1>1, FinishesEffect
<1>4. Held(r) /\ lost \subseteq lost' /\ UNCHANGED fired /\ lost' = Unrecorded(r, ~store[t].present)
  BY <1>1, <1>2, LostStep DEF Held, RunFinishes
<1>5. \A s \in Run : Held(s) /\ run[s].task = t => s = r
  BY <1>1, <1>4, OneRun
<1>6. (\A s \in Run : s # r => run'[s] = run[s]) /\ run'[r].pc = "settle"
  BY <1>2 DEF RunTo
<1>7. \A s \in Run : ~(Held(s)' /\ run'[s].task = t)
  BY <1>5, <1>6 DEF Held
<1>8. ManualOnly(t)' /\ \A s \in Run : LateRun(s, t)'
  BY <1>7 DEF ManualOnly, LateRun
<1>9. \A y \in Sync : Stale(y, t)' = Stale(y, t)
  BY <1>2 DEF Stale
<1>10. CASE fired[t] = 1 /\ Live(t)
  <2>1. LiveRun(r, t)
    BY <1>5, <1>10 DEF Live, LiveRun, Held
  <2>2. run[r].reason = "scheduled" /\ ~store[t].enabled
        /\ \A y \in Sync : Stale(y, t) => Behind(lock[ProjectOf(t)], y, r)
    BY <1>2, <2>1 DEF LiveRun
  <2>3. CASE ~store[t].present
    BY <1>4, <2>1, <2>2, <2>3 DEF Unrecorded, Recorded, LiveRun
  <2>4. CASE store[t].present
    <3>1. store'[t].present /\ ~store'[t].enabled /\ ~mem'[t].enabled
      BY <1>2, <2>2, <2>4 DEF Copied
    <3>2. ASSUME NEW y \in Sync, Stale(y, t) PROVE FALSE
      <4>1. sync[y].project = ProjectOf(t) /\ In(lock[ProjectOf(t)], y)
        BY <1>1, <3>2, ProjectOfTask DEF Stale, SyncLocked, TypeSyncs
      <4>2. /\ lock[ProjectOf(t)] \in Seq(Writers) /\ lock[ProjectOf(t)] # <<>>
            /\ Head(lock[ProjectOf(t)]) = r
        BY <1>1, <1>2, ProjectOfTask DEF TypeLock, Holds
      <4>3. QED
        BY <2>2, <3>2, <4>1, <4>2, WaitPassed
    <3>3. QED
      BY <1>4, <1>8, <1>9, <1>10, <3>1, <3>2 DEF Recorded, Done
  <2>5. QED
    BY <2>3, <2>4
<1>11. CASE fired[t] = 1 /\ Done(t)
  <2>1. store'[t].present /\ ~store'[t].enabled /\ ~mem'[t].enabled
    BY <1>2, <1>11 DEF Done, Copied
  <2>2. QED
    BY <1>4, <1>8, <1>9, <1>11, <2>1 DEF Done, Recorded
<1>12. CASE fired[t] = 1 /\ Known(t)
  <2>1. run[r].next = None
    BY <1>1, <1>4, <1>12 DEF Known, LateRun
  <2>2. Aware(store'[t]) /\ timer'[t] = None /\ fired[t] > 0
    BY <1>2, <1>3, <1>12, <2>1 DEF Known, Aware
  <2>3. QED
    BY <1>1, <1>4, <1>8, <1>12, <2>2, KnownFrame DEF Recorded
<1>13. QED
  BY <1>1, <1>4, <1>10, <1>11, <1>12 DEF Recorded

(***************************************************************************)
(* An update of a run of t fails.                                          *)
(***************************************************************************)
LEMMA RecordedFails ==
  ASSUME OnceInv, IInv', NEW t \in Once, NEW r \in Run, RunFails(r), run[r].task = t, [Next]_vars
  PROVE  Recorded(t)'
<1>1. /\ IInv /\ OnceSlots /\ Clocked /\ Recorded(t) /\ t \in Task
  BY TaskAssumption DEF OnceInv
<1>2. /\ run[r].pc \in {"begin", "finish"} /\ UNCHANGED <<store, mem, timer, sync>>
      /\ RunTo(r, "settle", run[r].next, run[r].was)
  BY <1>1, FailsEffect
<1>3. Held(r) /\ lost \subseteq lost' /\ UNCHANGED fired /\ lost' = Unrecorded(r, run[r].pc = "finish")
  BY <1>1, <1>2, LostStep DEF Held, RunFails
<1>4. \A s \in Run : Held(s) /\ run[s].task = t => s = r
  BY <1>1, <1>3, OneRun
<1>5. (\A s \in Run : s # r => run'[s] = run[s]) /\ run'[r].pc = "settle"
  BY <1>2 DEF RunTo
<1>6. \A s \in Run : ~(Held(s)' /\ run'[s].task = t)
  BY <1>4, <1>5 DEF Held
<1>7. ManualOnly(t)' /\ \A s \in Run : LateRun(s, t)'
  BY <1>6 DEF ManualOnly, LateRun
<1>8. \A y \in Sync : Stale(y, t)' = Stale(y, t)
  BY <1>2 DEF Stale
<1>9. CASE fired[t] = 1 /\ Live(t)
  <2>1. LiveRun(r, t)
    BY <1>4, <1>9 DEF Live, LiveRun, Held
  <2>2. run[r].reason = "scheduled" /\ run[r].pc = "finish"
    BY <1>2, <2>1 DEF LiveRun
  <2>3. QED
    BY <1>3, <2>2 DEF Unrecorded, Recorded
<1>10. CASE fired[t] = 1 /\ Done(t)
  BY <1>2, <1>3, <1>7, <1>8, <1>10 DEF Done, Recorded
<1>11. CASE fired[t] = 1 /\ Known(t)
  <2>1. Aware(store'[t]) /\ timer'[t] = None /\ fired[t] > 0
    BY <1>2, <1>11 DEF Known
  <2>2. QED
    BY <1>1, <1>3, <1>7, <1>11, <2>1, KnownFrame DEF Recorded
<1>12. QED
  BY <1>1, <1>3, <1>9, <1>10, <1>11 DEF Recorded

(***************************************************************************)
(* The process dies.                                                       *)
(***************************************************************************)
LEMMA RecordedCrash ==
  ASSUME OnceInv, NEW t \in Once, Crash
  PROVE  Recorded(t)'
<1>1. Recorded(t) /\ t \in Task
  BY TaskAssumption DEF OnceInv
<1>2. /\ UNCHANGED <<store, fired, lost>> /\ mem'[t] = Absent /\ timer'[t] = None
      /\ queue' = <<>>
  BY <1>1 DEF Crash, history
<1>3. (\A y \in Sync : sync'[y].pc = "idle") /\ (\A r \in Run : run'[r].pc = "idle")
  BY IdleRunTyped DEF Crash, IdleSync
<1>4. Aware(Absent)
  BY DEF Aware, Absent
<1>5. Live(t) \/ Done(t) \/ Known(t) => Aware(store[t])
  BY DEF Live, LiveRun, Done, Known, Aware
<1>6. (\A y \in Sync : SyncAware(y, t)') /\ (\A r \in Run : LateRun(r, t)')
  BY <1>3 DEF SyncAware, LateRun, TurnOf, Listed, Held
<1>7. Aware(store[t]) => Known(t)'
  BY <1>2, <1>4, <1>6 DEF Known
<1>8. QED
  BY <1>1, <1>2, <1>5, <1>7 DEF Recorded

-----------------------------------------------------------------------------
(* The inductive invariant and the theorem.                                *)

(***************************************************************************)
(* The inductive invariant holds initially.                                *)
(***************************************************************************)
LEMMA OnceInit == Init => OnceInv
<1> SUFFICES ASSUME Init PROVE OnceInv
  OBVIOUS
<1>1. IInv
  BY IInvInit
<1>2. /\ store = [t \in Task |-> Fresh] /\ mem = [t \in Task |-> Absent]
      /\ timer = [t \in Task |-> None] /\ advance = {} /\ queue = <<>>
      /\ fired = [t \in Task |-> 0]
      /\ (\A y \in Sync : sync[y].pc = "idle") /\ (\A r \in Run : run[r].pc = "idle")
  BY IdleRunTyped DEF Init, IdleSync
<1>3. Fresh.present /\ Fresh.next = None /\ Absent.next = None
  BY DEF Fresh, Absent
<1>4. StoreMortal
  BY <1>2, <1>3 DEF StoreMortal
<1>5. OnceSlots
  BY <1>2, <1>3, TaskAssumption DEF OnceSlots, SlotsOf, Shots, Listed, TurnOf, Held
<1>6. Clocked
  BY <1>2, TaskAssumption DEF Clocked, Held
<1>7. SyncLocked
  BY <1>2 DEF SyncLocked
<1>8. \A t \in Once : Recorded(t)
  BY <1>2, TaskAssumption DEF Recorded
<1>9. QED
  BY <1>1, <1>4, <1>5, <1>6, <1>7, <1>8 DEF OnceInv

(***************************************************************************)
(* Every step of the runtime preserves the inductive invariant.            *)
(***************************************************************************)
LEMMA OnceStep == OnceInv /\ [Next]_vars => OnceInv'
<1> SUFFICES ASSUME OnceInv, [Next]_vars PROVE OnceInv'
  OBVIOUS
<1>1. IInv /\ StoreMortal /\ OnceSlots /\ Clocked /\ SyncLocked
  BY DEF OnceInv
<1>2. IInv'
  BY <1>1, IInvStep
<1>3. StoreMortal' /\ OnceSlots' /\ Clocked' /\ SyncLocked'
  BY <1>1, <1>2, StoreMortalStep, OnceSlotsStep, ClockedStep, SyncLockedStep
<1>4. ASSUME NEW t \in Once PROVE Recorded(t)'
  <2>1. RunsKept(t) \/ Crash \/ \E r \in Run : Handles(r, t)
    BY <1>1, RunsHandledStep, TaskAssumption DEF RunsHandled
  <2>2. CASE RunsKept(t)
    BY <1>2, <2>2, RecordedFrame
  <2>3. CASE Crash
    BY <2>3, RecordedCrash
  <2>4. ASSUME NEW r \in Run, Handles(r, t) PROVE Recorded(t)'
    BY <1>2, <2>4, RecordedStarts, RecordedBegins, RecordedExecuted, RecordedConsumes,
       RecordedFinishes, RecordedFails DEF Handles
  <2>5. QED
    BY <2>1, <2>2, <2>3, <2>4
<1>5. QED
  BY <1>2, <1>3, <1>4 DEF OnceInv

(***************************************************************************)
(* The inductive invariant holds in every reachable state.                 *)
(***************************************************************************)
THEOREM OnceInvariance == Spec => []OnceInv
BY OnceInit, OnceStep, PTL DEF Spec

(***************************************************************************)
(* Until an edit enables it again, a one-time task is executed by the      *)
(* schedule at most once, whatever is resynchronised, stopped, restarted   *)
(* or fails meanwhile, unless an update that records it fails.             *)
(***************************************************************************)
THEOREM OnceOnlyCorrect == Spec => []OnceOnly
<1>1. OnceInv => OnceOnly
  BY DEF OnceInv, Recorded, OnceOnly
<1>2. QED
  BY <1>1, OnceInvariance, PTL

=============================================================================
