------------------------- MODULE ScheduledTasksProofs -------------------------
(***************************************************************************)
(* Proofs of the properties of ScheduledTasks, for any set of tasks and    *)
(* projects, any limits and any number of synchronisations and runNows.    *)
(***************************************************************************)
EXTENDS ScheduledTasks, FiniteSetTheorems, SequenceTheorems, WellFoundedInduction, TLAPS

(***************************************************************************)
(* The type invariant in parts.                                            *)
(***************************************************************************)
TypeClock ==
    /\ now \in 0..Horizon /\ requests \in 0..Requests /\ events \in 0..Events
    /\ lifecycleGeneration \in Nat
TypeRecords == store \in [Task -> Records] /\ mem \in [Task -> Records]
TypeTimers == timer \in [Task -> Slots] /\ advance \subseteq Task \X Slots
Writers == Run \cup Sync \cup (Task \X Slots)
TypeLock == lock \in [Projects -> Seq(Writers)]
TypeQueue ==
    /\ queue \in Seq(Items)
    /\ queuedTaskKeys \subseteq Task /\ runningTaskKeys \subseteq Task
TypeCounts == runningGlobalCount \in Nat /\ runningCountByProject \in [Projects -> Nat]
TypeRuns == run \in [Run -> Runs] /\ \A r \in Run : run[r].pc # "idle" => run[r].task \in Task
TypeSyncs ==
    /\ sync \in [Sync -> Syncs]
    /\ \A y \in Sync :
        /\ sync[y].pc # "idle" => sync[y].project \in Projects
        /\ sync[y].pc \in Listed => sync[y].seen \in [Task -> Records]
        /\ sync[y].pc \in {"edit", "interrupt"} => sync[y].cur \in Task
TypeFlags == started \in BOOLEAN /\ calls \in [Manual -> {"idle", "waiting", "answered"}]
TypeThread == busy \in Sync \cup {None, "pump"} /\ index \in Nat
TypeHistory == fired \in [Task -> Nat] /\ lost \subseteq Task /\ excused \subseteq Task

\* The loop of pumpQueue looks at positions of the queue.
Pumping == busy = "pump" => index > 0

\* What a synchronisation keeps of its project: the loops stay inside it, and
\* the round under way is about one of its tasks.
Looping ==
    \A y \in Sync :
        /\ sync[y].pc \in {"schedule", "reconcile", "interrupt"} => sync[y].todo \subseteq sync[y].project
        /\ sync[y].pc = "schedule" /\ sync[y].todo # {} => sync[y].cur \in sync[y].todo
        /\ sync[y].pc = "interrupt" => sync[y].cur \in sync[y].project

-----------------------------------------------------------------------------
(* Lemmas about the operators of the model.                                *)

(***************************************************************************)
(* Every task belongs to exactly one project.                              *)
(***************************************************************************)
LEMMA ProjectOfTask ==
  ASSUME NEW t \in Task
  PROVE  ProjectOf(t) \in Projects /\ t \in ProjectOf(t)
         /\ \A p \in Projects : t \in p => p = ProjectOf(t)
<1>1. \E p \in Projects : t \in p
  BY ProjectsAssumption
<1>2. ProjectOf(t) \in Projects /\ t \in ProjectOf(t)
  BY <1>1 DEF ProjectOf
<1>3. QED
  BY <1>2, ProjectsAssumption

(***************************************************************************)
(* A set of tasks that is not empty has a first one.                       *)
(***************************************************************************)
LEMMA FirstTask ==
  ASSUME NEW S \in SUBSET Task, S # {}
  PROVE  First(S) \in S
<1>1. S \in SUBSET Nat
  BY TaskAssumption
<1>2. PICK t \in S : \A u \in S : <<u, t>> \notin OpToRel(<, Nat)
  BY <1>1, NatLessThanWellFounded, WFMin, Zenon
<1>3. ASSUME NEW u \in S PROVE t <= u
  <2>1. OpToRel(<, Nat) = {ss \in Nat \X Nat : ss[1] < ss[2]}
    BY DEF OpToRel
  <2>2. ~(u < t)
    BY <1>1, <1>2, <2>1, Zenon
  <2>3. QED
    BY <1>1, <2>2
<1>4. QED
  BY <1>3 DEF First

(***************************************************************************)
(* syncAllProjects goes on with one of the projects that are left.         *)
(***************************************************************************)
LEMMA FirstOfProjects ==
  ASSUME NEW P \in SUBSET Projects, P # {}
  PROVE  FirstProject(P) \in P
<1>1. UNION P \subseteq Task /\ UNION P # {}
  BY ProjectsAssumption
<1>2. First(UNION P) \in UNION P
  BY <1>1, FirstTask
<1>3. PICK p \in P : First(UNION P) \in p
  BY <1>2, Zenon
<1>4. p = ProjectOf(First(UNION P))
  BY <1>1, <1>2, <1>3, ProjectOfTask
<1>5. QED
  BY <1>3, <1>4 DEF FirstProject

(***************************************************************************)
(* computeNextRunAt returns a slot.                                        *)
(***************************************************************************)
LEMMA NextIsSlot ==
  ASSUME now \in 0..Horizon, NEW t, NEW task
  PROVE  ComputeNextRunAt(t, task) \in Slots
BY BoundAssumption DEF ComputeNextRunAt, Slots


(***************************************************************************)
(* Every step preserves the types of the counters.                         *)
(***************************************************************************)
LEMMA ClockStep ==
  ASSUME TypeClock, [Next]_vars
  PROVE  TypeClock'
<1> USE BoundAssumption
<1> USE DEF TypeClock
<1>1. ASSUME UNCHANGED <<now, requests, events, lifecycleGeneration>> PROVE TypeClock'
  BY <1>1
<1>2. ASSUME NEW a \in advance, Advanced(a) PROVE TypeClock'
  BY <1>2 DEF Advanced, Event, config, scheduler
<1>3. ASSUME NEW r \in Run, RunConsumes(r) PROVE TypeClock'
  <2>1. UNCHANGED <<now, requests, lifecycleGeneration>> /\ (UNCHANGED events \/ Event)
    BY <1>3, Zenon DEF RunConsumes
  <2>2. QED
    BY <2>1 DEF Event
<1>4. ASSUME NEW r \in Run, RunFails(r) PROVE TypeClock'
  BY <1>4 DEF RunFails, Event, config, scheduler
<1>5. ASSUME NEW m \in Manual, NEW t \in Task, RunNow(m, t) PROVE TypeClock'
  BY <1>5 DEF RunNow, Event, config, scheduler
<1>6. ASSUME NEW y \in Sync, NEW p \in Projects, SyncBegins(y, p) PROVE TypeClock'
  BY <1>6 DEF SyncBegins, Event, config, scheduler
<1>7. ASSUME NEW y \in Sync, Start(y) PROVE TypeClock'
  BY <1>7 DEF Start, config, scheduler
<1>8. ASSUME Stop PROVE TypeClock'
  BY <1>8 DEF Stop, Event, Stopped, config, scheduler
<1>9. ASSUME NEW y \in Sync, SyncFails(y) PROVE TypeClock'
  BY <1>9 DEF SyncFails, Event, Stopped, config, scheduler
<1>10. ASSUME NEW y \in Sync, SyncInterrupts(y) PROVE TypeClock'
  BY <1>10 DEF SyncInterrupts, Event, config, scheduler
<1>11. ASSUME Tick PROVE TypeClock'
  BY <1>11 DEF Tick, config, scheduler
<1>12. ASSUME NEW y \in Sync, NEW t \in Task, EditBegins(y, t) PROVE TypeClock'
  BY <1>12 DEF EditBegins, Event, config, scheduler
<1>13. ASSUME Crash PROVE TypeClock'
  BY <1>13 DEF Crash, Event, config, scheduler
<1>14. ASSUME NEW t \in Task, TimerFires(t)
      PROVE  TypeClock'
  BY <1>1, <1>14 DEF TimerFires, config, scheduler
<1>15. ASSUME PumpSkips \/ PumpEnds
      PROVE  TypeClock'
  BY <1>1, <1>15, SMTT(30) DEF PumpSkips, PumpEnds, config, scheduler
<1>16. ASSUME NEW r \in Run, PumpStarts(r) \/ RunBegins(r) \/ RunSession(r) \/ RunExecuted(r) \/
              RunFinishes(r) \/ RunSettles(r)
      PROVE  TypeClock'
  BY <1>1, <1>16 DEF PumpStarts, RunBegins, RunSession, RunExecuted, RunFinishes,
     RunSettles, config, scheduler
<1>17. ASSUME NEW y \in Sync, SyncLists(y) \/ SyncSets(y) \/ SyncSchedules(y) \/ SyncSnapshots(y) \/
              SyncChecks(y) \/ SyncEnds(y) \/ EditApplies(y)
      PROVE  TypeClock'
  BY <1>1, <1>17, Zenon DEF SyncLists, SyncSets, SyncSchedules, SyncSnapshots, SyncChecks,
     SyncEnds, EditApplies, config, scheduler
<1>18. CASE UNCHANGED vars
  BY <1>1, <1>18 DEF vars, config, scheduler, admission, thread, history
<1> HIDE DEF TypeClock
<1>19. QED
  BY <1>2, <1>3, <1>4, <1>5, <1>6, <1>7, <1>8, <1>9, <1>10, <1>11, <1>12, <1>13, <1>14,
     <1>15, <1>16, <1>17, <1>18, Zenon DEF Next, Step, RunStep, SyncStep

(***************************************************************************)
(* What the updates of a record return.                                    *)
(***************************************************************************)
LEMMA RecordUpdates ==
  ASSUME NEW rec \in Records, NEW n \in Slots, NEW s \in Statuses, NEW at \in Slots
  PROVE  /\ [rec EXCEPT !.next = n] \in Records
         /\ [rec EXCEPT !.status = s] \in Records
         /\ [rec EXCEPT !.status = s, !.ran = at] \in Records
         /\ [rec EXCEPT !.status = s, !.next = n] \in Records
         /\ [rec EXCEPT !.enabled = FALSE] \in Records
         /\ [rec EXCEPT !.enabled = rec.present /\ ~rec.enabled] \in Records
BY Zenon DEF Records

(***************************************************************************)
(* Records the runtime starts from.                                        *)
(***************************************************************************)
LEMMA RecordConstants ==
  /\ Fresh \in Records /\ Absent \in Records
BY DEF Records, Fresh, Absent, Slots, Statuses

(***************************************************************************)
(* None and the times of the clock are slots.                              *)
(***************************************************************************)
LEMMA SlotFacts == None \in Slots /\ 0..Horizon \subseteq Slots
BY BoundAssumption DEF Slots

(***************************************************************************)
(* syncTaskSchedule leaves records.                                        *)
(***************************************************************************)
LEMMA ScheduleTyped ==
  ASSUME TypeRecords, NEW t \in Task, NEW n \in Slots, SyncTaskSchedule(t, n)
  PROVE  TypeRecords'
<1>1. [store[t] EXCEPT !.next = n] \in Records
  BY RecordUpdates, SlotFacts, Zenon DEF TypeRecords, Statuses
<1>2. store' \in [Task -> Records]
  BY <1>1 DEF SyncTaskSchedule, Patched, TypeRecords
<1>3. QED
  BY <1>2 DEF SyncTaskSchedule, TypeRecords

(***************************************************************************)
(* Items of the queue; queueTaskRun leaves a queue of them.                *)
(***************************************************************************)
LEMMA QueueTyped ==
  ASSUME TypeQueue, NEW t \in Task, NEW reason \in Reasons, NEW call \in Manual \cup {None},
         QueueTaskRun(t, reason, call)
  PROVE  queue' \in Seq(Items) /\ queuedTaskKeys' \subseteq Task
<1>1. [task |-> t, reason |-> reason, call |-> call] \in Items
  BY DEF Items
<1>2. Append(queue, [task |-> t, reason |-> reason, call |-> call]) \in Seq(Items)
  BY <1>1, AppendProperties DEF TypeQueue
<1>3. QED
  BY <1>2 DEF QueueTaskRun, TypeQueue

(***************************************************************************)
(* What is left of a sequence without its i-th element.                    *)
(***************************************************************************)
Without(s, i) == SubSeq(s, 1, i - 1) \o SubSeq(s, i + 1, Len(s))

(***************************************************************************)
(* The others keep their order.                                            *)
(***************************************************************************)
LEMMA WithoutProperties ==
  ASSUME NEW S, NEW s \in Seq(S), NEW i \in 1..Len(s)
  PROVE  /\ Without(s, i) \in Seq(S)
         /\ Len(Without(s, i)) = Len(s) - 1
         /\ \A j \in 1..Len(s) - 1 : Without(s, i)[j] = s[IF j < i THEN j ELSE j + 1]
<1> DEFINE a == SubSeq(s, 1, i - 1)
           b == SubSeq(s, i + 1, Len(s))
<1>1. Len(s) \in Nat /\ i \in Nat /\ 1 <= i /\ i <= Len(s)
  BY LenProperties
<1>2. /\ a \in Seq(S) /\ Len(a) = i - 1
      /\ \A j \in 1..i - 1 : a[j] = s[j]
  BY <1>1
<1>3. /\ b \in Seq(S) /\ Len(b) = Len(s) - i
      /\ \A j \in 1..Len(s) - i : b[j] = s[i + j]
  BY <1>1
<1>4. /\ a \o b \in Seq(S) /\ Len(a \o b) = Len(a) + Len(b)
      /\ \A j \in 1..Len(a) + Len(b) : (a \o b)[j] = IF j <= Len(a) THEN a[j] ELSE b[j - Len(a)]
  BY <1>2, <1>3, ConcatProperties, Zenon
<1> HIDE DEF a, b
<1>5. ASSUME NEW j \in 1..Len(s) - 1 PROVE (a \o b)[j] = s[IF j < i THEN j ELSE j + 1]
  <2>1. CASE j < i
    BY <1>1, <1>2, <1>3, <1>4, <2>1
  <2>2. CASE ~(j < i)
    <3>1. (a \o b)[j] = b[j - (i - 1)]
      BY <1>1, <1>2, <1>3, <1>4, <2>2
    <3>2. b[j - (i - 1)] = s[i + (j - (i - 1))]
      BY <1>1, <1>3, <2>2
    <3>3. i + (j - (i - 1)) = j + 1
      BY <1>1
    <3>4. QED
      BY <2>2, <3>1, <3>2, <3>3
  <2>3. QED
    BY <2>1, <2>2, Zenon
<1>6. Len(a) + Len(b) = Len(s) - 1
  BY <1>1, <1>2, <1>3
<1>7. QED
  BY <1>4, <1>5, <1>6, Zenon DEF Without, a, b

(***************************************************************************)
(* What a move of the run r to the place c changes.                        *)
(***************************************************************************)
Places == {"idle", "begin", "execute", "consume", "finish", "settle"}

Moved(r, c) ==
    \A s \in Run : /\ run'[s].pc = IF s = r THEN c ELSE run[s].pc
                   /\ run'[s].task = run[s].task

(***************************************************************************)
(* A move keeps the types.                                                 *)
(***************************************************************************)
LEMMA Moves ==
  ASSUME TypeRuns, NEW r \in Run, run[r].task \in Task, NEW c \in Places, NEW n \in Slots,
         \/ run' = [run EXCEPT ![r].pc = c]
         \/ run' = [run EXCEPT ![r].pc = c, ![r].next = n]
  PROVE  TypeRuns' /\ Moved(r, c)
<1>1. CASE run' = [run EXCEPT ![r].pc = c]
  BY <1>1 DEF TypeRuns, Moved, Runs, Places
<1>2. CASE run' = [run EXCEPT ![r].pc = c, ![r].next = n]
  <2>1. run' = [run EXCEPT ![r] = [run[r] EXCEPT !.pc = c, !.next = n]]
    BY <1>2, Zenon DEF TypeRuns, Runs
  <2>2. /\ [run[r] EXCEPT !.pc = c, !.next = n] \in Runs
        /\ [run[r] EXCEPT !.pc = c, !.next = n].pc = c
        /\ [run[r] EXCEPT !.pc = c, !.next = n].task = run[r].task
    BY ZenonT(30) DEF TypeRuns, Runs, Places
  <2>3. QED
    BY <2>1, <2>2 DEF TypeRuns, Moved
<1>3. QED
  BY <1>1, <1>2

(***************************************************************************)
(* An activation that is not in use.                                       *)
(***************************************************************************)
LEMMA IdleRunTyped == IdleRun \in Runs /\ IdleRun.pc = "idle"
BY BoundAssumption, SlotFacts, RecordConstants DEF IdleRun, Runs, Reasons

(***************************************************************************)
(* The end of the execution is a move.                                     *)
(***************************************************************************)
LEMMA ExecutedMoves ==
  ASSUME TypeClock, TypeRecords, TypeRuns, NEW r \in Run, RunExecuted(r)
  PROVE  /\ run[r].task \in Task /\ run[r].pc = "execute"
         /\ TypeRuns' /\ \E c \in {"consume", "finish"} : Moved(r, c)
<1> DEFINE t == run[r].task
           latest == IF mem[t].present THEN mem[t] ELSE run[r].was
<1>1. t \in Task /\ run[r].pc = "execute"
  BY DEF RunExecuted, TypeRuns
<1>2. latest \in Records
  BY <1>1 DEF TypeRecords, TypeRuns, Runs
<1>3. \/ run' = [run EXCEPT ![r].pc = "consume", ![r].was = latest]
      \/ run' = [run EXCEPT ![r].pc = "finish", ![r].next = ComputeNextRunAt(t, latest)]
  BY DEF RunExecuted
<1> HIDE DEF latest
<1>4. CASE run' = [run EXCEPT ![r].pc = "consume", ![r].was = latest]
  <2>1. run' = [run EXCEPT ![r] = [run[r] EXCEPT !.pc = "consume", !.was = latest]]
    BY <1>4, Zenon DEF TypeRuns, Runs
  <2>2. /\ [run[r] EXCEPT !.pc = "consume", !.was = latest] \in Runs
        /\ [run[r] EXCEPT !.pc = "consume", !.was = latest].pc = "consume"
        /\ [run[r] EXCEPT !.pc = "consume", !.was = latest].task = t
    BY <1>2, Zenon DEF TypeRuns, Runs
  <2>3. QED
    BY <1>1, <2>1, <2>2 DEF TypeRuns, Moved
<1>5. CASE run' = [run EXCEPT ![r].pc = "finish", ![r].next = ComputeNextRunAt(t, latest)]
  <2>1. ComputeNextRunAt(t, latest) \in Slots
    BY NextIsSlot DEF TypeClock
  <2>2. QED
    BY <1>1, <1>5, <2>1, Moves, Zenon DEF Places
<1>6. QED
  BY <1>1, <1>3, <1>4, <1>5

(***************************************************************************)
(* Every step preserves the types of the task records, on disk and in      *)
(* memory.                                                                 *)
(***************************************************************************)
LEMMA RecordsStep ==
  ASSUME TypeRecords, TypeTimers, TypeRuns, TypeSyncs, Looping, [Next]_vars
  PROVE  TypeRecords'
<1> USE RecordUpdates, RecordConstants, SlotFacts, ScheduleTyped
<1> USE DEF TypeRecords, TypeTimers, TypeRuns, TypeSyncs, Looping, Statuses
<1>1. ASSUME UNCHANGED <<store, mem>> PROVE TypeRecords'
  BY <1>1, Zenon
<1>2. ASSUME NEW a \in advance, Advanced(a) PROVE TypeRecords'
  BY <1>2, Zenon DEF Advanced, Patched, config, scheduler
<1>3. ASSUME NEW r \in Run, RunBegins(r) PROVE TypeRecords'
  <2>1. run[r].task \in Task /\ run[r].at \in Slots
    BY <1>3, Zenon DEF RunBegins, Writes, Runs
  <2>2. QED
    BY <1>3, <2>1, Zenon DEF RunBegins, Patched
<1>4. ASSUME NEW r \in Run, RunSession(r) PROVE TypeRecords'
  BY <1>4, Zenon DEF RunSession, config, scheduler
<1>5. ASSUME NEW r \in Run, RunConsumes(r) PROVE TypeRecords'
  <2>1. run[r].task \in Task
    BY <1>5, Zenon DEF RunConsumes, Writes
  <2>2. PICK rec \in Records : \/ /\ store' = [store EXCEPT ![run[r].task] = rec]
                                 /\ mem' = [mem EXCEPT ![run[r].task] = rec]
                              \/ UNCHANGED <<store, mem>>
    <3>1. store[run[r].task] \in Records
      BY <2>1, Zenon
    <3>2. [store[run[r].task] EXCEPT !.enabled = FALSE] \in Records
      BY <3>1, RecordUpdates, SlotFacts, Zenon
    <3>3. run[r].was \in Records
      BY Zenon DEF Runs
    <3>4. [run[r].was EXCEPT !.enabled = FALSE] \in Records
      BY <3>3, RecordUpdates, SlotFacts, Zenon
    <3>5. QED
      BY <1>5, <3>1, <3>2, <3>4, Zenon DEF RunConsumes
  <2>3. [store EXCEPT ![run[r].task] = rec] \in [Task -> Records]
        /\ [mem EXCEPT ![run[r].task] = rec] \in [Task -> Records]
    BY <2>1, Zenon
  <2>4. QED
    BY <2>2, <2>3, Zenon
<1>6. ASSUME NEW r \in Run, RunFinishes(r) PROVE TypeRecords'
  <2>1. run[r].task \in Task /\ run[r].next \in Slots
    BY <1>6, Zenon DEF RunFinishes, Writes, Runs
  <2>2. QED
    BY <1>6, <2>1, Zenon DEF RunFinishes, Patched
<1>7. ASSUME NEW y \in Sync, SyncSets(y) PROVE TypeRecords'
  <2>1. sync[y].seen \in [Task -> Records]
    BY <1>7, Zenon DEF SyncSets, Listed
  <2>2. store' = store
    BY <1>7, Zenon DEF SyncSets
  <2>3. PICK list \in {store, sync[y].seen} :
          mem' = [t \in Task |-> IF t \in sync[y].project THEN list[t] ELSE mem[t]]
    BY <1>7, Zenon DEF SyncSets
  <2>4. list \in [Task -> Records]
    BY <2>1, Zenon
  <2>5. mem' \in [Task -> Records]
    BY <2>3, <2>4, Zenon
  <2>6. QED
    BY <2>2, <2>5, Zenon
<1>8. ASSUME NEW y \in Sync, SyncSchedules(y) PROVE TypeRecords'
  <2>1. sync[y].seen \in [Task -> Records] /\ sync[y].cur \in Task /\ sync[y].next \in Slots
    BY <1>8, Zenon DEF SyncSchedules, Listed, Syncs
  <2>2. QED
    BY <1>8, <2>1, Zenon DEF SyncSchedules
<1>9. ASSUME NEW y \in Sync, SyncInterrupts(y) PROVE TypeRecords'
  <2>1. sync[y].cur \in Task
    BY <1>9, Zenon DEF SyncInterrupts
  <2>2. store' = store \/ store' = Patched(sync[y].cur, [store[sync[y].cur] EXCEPT !.status = "interrupted"])
    BY <1>9, Zenon DEF SyncInterrupts
  <2>3. [store[sync[y].cur] EXCEPT !.status = "interrupted"] \in Records
    BY <2>1, Zenon
  <2>4. store' \in [Task -> Records]
    BY <2>1, <2>2, <2>3, ZenonT(30) DEF Patched
  <2>5. QED
    BY <1>9, <2>1, <2>4, Zenon DEF SyncInterrupts
<1>10. ASSUME NEW y \in Sync, EditApplies(y) PROVE TypeRecords'
  <2>1. sync[y].cur \in Task
    BY <1>10, Zenon DEF EditApplies
  <2>2. [store[sync[y].cur] EXCEPT !.enabled = store[sync[y].cur].present /\ ~store[sync[y].cur].enabled] \in Records
    BY <2>1, Zenon
  <2>3. \/ store' = [store EXCEPT ![sync[y].cur] =
               [store[sync[y].cur] EXCEPT !.enabled = store[sync[y].cur].present /\ ~store[sync[y].cur].enabled]]
        \/ store' = [store EXCEPT ![sync[y].cur] = Absent]
    BY <1>10, Zenon DEF EditApplies
  <2>4. store' \in [Task -> Records]
    BY <2>1, <2>2, <2>3, ZenonT(30)
  <2>5. QED
    BY <1>10, <2>4, Zenon DEF EditApplies, scheduler
<1>11. ASSUME Crash PROVE TypeRecords'
  BY <1>11, Zenon DEF Crash, config, scheduler
<1>12. ASSUME NEW t \in Task, TimerFires(t)
      PROVE  TypeRecords'
  BY <1>1, <1>12, Zenon DEF TimerFires, config, scheduler
<1>13. ASSUME PumpSkips \/ PumpEnds \/ Stop \/ Tick
      PROVE  TypeRecords'
  BY <1>1, <1>13, Zenon DEF PumpSkips, PumpEnds, Stop, Tick, config, scheduler
<1>14. ASSUME NEW r \in Run, PumpStarts(r) \/ RunExecuted(r) \/ RunFails(r) \/ RunSettles(r)
      PROVE  TypeRecords'
  BY <1>1, <1>14, Zenon DEF PumpStarts, RunExecuted, RunFails, RunSettles, config, scheduler
<1>15. ASSUME NEW m \in Manual, NEW t \in Task, RunNow(m, t)
      PROVE  TypeRecords'
  BY <1>1, <1>15, Zenon DEF RunNow, config, scheduler
<1>16. ASSUME NEW y \in Sync, NEW p \in Projects, SyncBegins(y, p)
      PROVE  TypeRecords'
  BY <1>1, <1>16, Zenon DEF SyncBegins, config, scheduler
<1>17. ASSUME NEW y \in Sync, Start(y) \/ SyncLists(y) \/ SyncFails(y) \/ SyncSnapshots(y) \/
              SyncChecks(y) \/ SyncEnds(y)
      PROVE  TypeRecords'
  BY <1>1, <1>17, Zenon DEF Start, SyncLists, SyncFails, SyncSnapshots, SyncChecks, SyncEnds,
     config, scheduler
<1>18. ASSUME NEW y \in Sync, NEW t \in Task, EditBegins(y, t)
      PROVE  TypeRecords'
  BY <1>1, <1>18, Zenon DEF EditBegins, config, scheduler
<1>19. CASE UNCHANGED vars
  BY <1>1, <1>19, Zenon DEF vars, config, scheduler, admission, thread, history
<1> HIDE DEF TypeRecords, TypeTimers, TypeRuns, TypeSyncs, Looping, Statuses
<1>20. QED
  BY <1>2, <1>3, <1>4, <1>5, <1>6, <1>7, <1>8, <1>9, <1>10, <1>11, <1>12, <1>13, <1>14,
     <1>15, <1>16, <1>17, <1>18, <1>19, Zenon DEF Next, Step, RunStep, SyncStep

(***************************************************************************)
(* Every step preserves the types of the timers.                           *)
(***************************************************************************)
LEMMA TimersStep ==
  ASSUME TypeClock, TypeRecords, TypeRecords', TypeTimers, TypeRuns, TypeSyncs, Looping,
         [Next]_vars
  PROVE  TypeTimers'
<1> USE SlotFacts, NextIsSlot
<1> USE DEF TypeClock, TypeRecords, TypeTimers, TypeRuns, TypeSyncs, Looping, Records
<1>1. ASSUME UNCHANGED <<timer, advance>> PROVE TypeTimers'
  BY <1>1
<1>2. ASSUME NEW t \in Task, TimerFires(t) PROVE TypeTimers'
  BY <1>2 DEF TimerFires, scheduler
<1>3. ASSUME NEW a \in advance, Advanced(a) PROVE TypeTimers'
  BY <1>3 DEF Advanced, SyncTaskSchedule, Rearmed, scheduler
<1>4. ASSUME NEW r \in Run, RunFinishes(r) PROVE TypeTimers'
  BY <1>4 DEF RunFinishes, Writes, Rearmed, scheduler
<1>5. ASSUME Stop PROVE TypeTimers'
  BY <1>5 DEF Stop, Stopped, scheduler
<1>6. ASSUME NEW y \in Sync, SyncSets(y) PROVE TypeTimers'
  BY <1>6 DEF SyncSets, scheduler
<1>7. ASSUME NEW y \in Sync, SyncSchedules(y) PROVE TypeTimers'
  BY <1>7 DEF SyncSchedules, SyncTaskSchedule, Rearmed, scheduler
<1>8. ASSUME NEW y \in Sync, SyncFails(y) PROVE TypeTimers'
  BY <1>8 DEF SyncFails, Stopped, scheduler
<1>9. ASSUME Crash PROVE TypeTimers'
  BY <1>9 DEF Crash, scheduler
<1>10. ASSUME PumpSkips \/ PumpEnds \/ Tick
      PROVE  TypeTimers'
  BY <1>1, <1>10 DEF PumpSkips, PumpEnds, Tick, scheduler
<1>11. ASSUME NEW r \in Run, PumpStarts(r) \/ RunBegins(r) \/ RunSession(r) \/ RunExecuted(r) \/
              RunConsumes(r) \/ RunFails(r) \/ RunSettles(r)
      PROVE  TypeTimers'
  BY <1>1, <1>11, Zenon DEF PumpStarts, RunBegins, RunSession, RunExecuted, RunConsumes, RunFails,
     RunSettles, scheduler
<1>12. ASSUME NEW m \in Manual, NEW t \in Task, RunNow(m, t)
      PROVE  TypeTimers'
  BY <1>1, <1>12 DEF RunNow, scheduler
<1>13. ASSUME NEW y \in Sync, NEW p \in Projects, SyncBegins(y, p)
      PROVE  TypeTimers'
  BY <1>1, <1>13 DEF SyncBegins, scheduler
<1>14. ASSUME NEW y \in Sync, Start(y) \/ SyncLists(y) \/ SyncSnapshots(y) \/ SyncChecks(y) \/
              SyncInterrupts(y) \/ SyncEnds(y) \/ EditApplies(y)
      PROVE  TypeTimers'
  BY <1>1, <1>14, Zenon DEF Start, SyncLists, SyncSnapshots, SyncChecks, SyncInterrupts, SyncEnds,
     EditApplies, scheduler
<1>15. ASSUME NEW y \in Sync, NEW t \in Task, EditBegins(y, t)
      PROVE  TypeTimers'
  BY <1>1, <1>15 DEF EditBegins, scheduler
<1>16. CASE UNCHANGED vars
  BY <1>1, <1>16 DEF vars, config, scheduler, admission, thread, history
<1> HIDE DEF TypeClock, TypeRecords, TypeTimers, TypeRuns, TypeSyncs, Looping, Records
<1>17. QED
  BY <1>2, <1>3, <1>4, <1>5, <1>6, <1>7, <1>8, <1>9, <1>10, <1>11, <1>12, <1>13, <1>14,
     <1>15, <1>16, Zenon DEF Next, Step, RunStep, SyncStep

(***************************************************************************)
(* What asking for a lock and passing it on leave.                         *)
(***************************************************************************)
LEMMA LockTyped ==
  ASSUME TypeLock, NEW p \in Projects, NEW w \in Writers,
         Asks(p, w) \/ (lock[p] # <<>> /\ (Frees(p) \/ AsksAgain(p, w)))
  PROVE  TypeLock'
<1>1. lock[p] \in Seq(Writers)
  BY DEF TypeLock
<1>2. Append(lock[p], w) \in Seq(Writers)
  BY <1>1, AppendProperties
<1>3. ASSUME lock[p] # <<>> PROVE Tail(lock[p]) \in Seq(Writers)
  BY <1>1, <1>3, HeadTailProperties
<1>4. ASSUME lock[p] # <<>> PROVE Append(Tail(lock[p]), w) \in Seq(Writers)
  BY <1>3, <1>4, AppendProperties
<1>5. QED
  BY <1>2, <1>3, <1>4, Zenon DEF TypeLock, Asks, Frees, AsksAgain

(***************************************************************************)
(* Every step preserves the types of the write locks.                      *)
(***************************************************************************)
LEMMA LockStep ==
  ASSUME TypeClock, TypeTimers, TypeLock, TypeQueue, TypeRuns, TypeSyncs, TypeThread,
         Pumping, [Next]_vars
  PROVE  TypeLock'
<1> USE DEF TypeLock
<1>1. ASSUME UNCHANGED lock PROVE TypeLock'
  BY <1>1
<1>2. ASSUME NEW t \in Task, TimerFires(t) PROVE TypeLock'
  <2>1. ProjectOf(t) \in Projects /\ <<t, ComputeNextRunAt(t, mem[t])>> \in Writers
    BY ProjectOfTask, NextIsSlot DEF TypeClock, Writers
  <2>2. QED
    BY <1>2, <2>1, LockTyped DEF TimerFires
<1>3. ASSUME NEW a \in advance, Advanced(a) PROVE TypeLock'
  <2>1. ProjectOf(a[1]) \in Projects /\ lock[ProjectOf(a[1])] # <<>> /\ a \in Writers
    BY <1>3, ProjectOfTask DEF Advanced, Holds, TypeTimers, Writers
  <2>2. QED
    BY <1>3, <2>1, LockTyped DEF Advanced
<1>4. ASSUME NEW r \in Run, PumpStarts(r) PROVE TypeLock'
  <2>1. queue[index].task \in Task /\ r \in Writers
    <3>1. index \in 1..Len(queue) /\ queue[index] \in Items
      BY <1>4 DEF PumpStarts, TypeThread, Pumping, TypeQueue
    <3>2. QED
      BY <3>1 DEF Items, Writers
  <2>2. UNCHANGED lock \/ Asks(ProjectOf(queue[index].task), r)
    BY <1>4 DEF PumpStarts
  <2>3. QED
    BY <2>1, <2>2, ProjectOfTask, LockTyped
<1>5. ASSUME NEW r \in Run, RunBegins(r) PROVE TypeLock'
  <2>1. run[r].task \in Task /\ lock[ProjectOf(run[r].task)] # <<>> /\ r \in Writers
    BY <1>5 DEF RunBegins, Writes, Holds, TypeRuns, Writers
  <2>2. QED
    BY <1>5, <2>1, ProjectOfTask, LockTyped DEF RunBegins
<1>6. ASSUME NEW r \in Run, RunExecuted(r) PROVE TypeLock'
  <2>1. run[r].task \in Task /\ r \in Writers
    BY <1>6 DEF RunExecuted, TypeRuns, Writers
  <2>2. QED
    BY <1>6, <2>1, ProjectOfTask, LockTyped DEF RunExecuted
<1>7. ASSUME NEW r \in Run, RunConsumes(r) PROVE TypeLock'
  <2>1. run[r].task \in Task /\ lock[ProjectOf(run[r].task)] # <<>> /\ r \in Writers
    BY <1>7 DEF RunConsumes, Writes, Holds, TypeRuns, Writers
  <2>2. QED
    BY <1>7, <2>1, ProjectOfTask, LockTyped DEF RunConsumes
<1>8. ASSUME NEW r \in Run, RunFinishes(r) PROVE TypeLock'
  <2>1. run[r].task \in Task /\ lock[ProjectOf(run[r].task)] # <<>> /\ r \in Writers
    BY <1>8 DEF RunFinishes, Writes, Holds, TypeRuns, Writers
  <2>2. QED
    BY <1>8, <2>1, ProjectOfTask, LockTyped DEF RunFinishes
<1>9. ASSUME NEW r \in Run, RunFails(r) PROVE TypeLock'
  <2>1. run[r].task \in Task /\ lock[ProjectOf(run[r].task)] # <<>> /\ r \in Writers
    BY <1>9 DEF RunFails, Writes, Holds, TypeRuns, Writers
  <2>2. QED
    BY <1>9, <2>1, ProjectOfTask, LockTyped DEF RunFails
<1>10. ASSUME NEW y \in Sync, SyncLists(y) PROVE TypeLock'
  <2>1. sync[y].project \in Projects /\ y \in Writers
    BY <1>10 DEF SyncLists, TypeSyncs, Writers
  <2>2. QED
    BY <1>10, <2>1, LockTyped DEF SyncLists
<1>11. ASSUME NEW y \in Sync, SyncSets(y) PROVE TypeLock'
  <2>1. sync[y].project \in Projects /\ lock[sync[y].project] # <<>> /\ y \in Writers
    BY <1>11 DEF SyncSets, Holds, TypeSyncs, Writers
  <2>2. QED
    BY <1>11, <2>1, LockTyped DEF SyncSets
<1>12. ASSUME NEW y \in Sync, SyncSchedules(y) PROVE TypeLock'
  <2>1. sync[y].project \in Projects /\ lock[sync[y].project] # <<>> /\ y \in Writers
    BY <1>12 DEF SyncSchedules, Holds, TypeSyncs, Writers
  <2>2. QED
    BY <1>12, <2>1, LockTyped DEF SyncSchedules
<1>13. ASSUME NEW y \in Sync, SyncFails(y) PROVE TypeLock'
  <2>1. sync[y].project \in Projects /\ lock[sync[y].project] # <<>> /\ y \in Writers
    BY <1>13 DEF SyncFails, Holds, TypeSyncs, Writers
  <2>2. QED
    BY <1>13, <2>1, LockTyped DEF SyncFails
<1>14. ASSUME NEW y \in Sync, SyncChecks(y) PROVE TypeLock'
  <2>1. sync[y].project \in Projects /\ y \in Writers
    BY <1>14 DEF SyncChecks, TypeSyncs, Writers
  <2>2. UNCHANGED lock \/ Asks(sync[y].project, y)
    BY <1>14 DEF SyncChecks
  <2>3. QED
    BY <2>1, <2>2, LockTyped
<1>15. ASSUME NEW y \in Sync, SyncInterrupts(y) PROVE TypeLock'
  <2>1. sync[y].project \in Projects /\ lock[sync[y].project] # <<>> /\ y \in Writers
    BY <1>15 DEF SyncInterrupts, Holds, TypeSyncs, Writers
  <2>2. QED
    BY <1>15, <2>1, LockTyped DEF SyncInterrupts
<1>16. ASSUME NEW y \in Sync, NEW t \in Task, EditBegins(y, t) PROVE TypeLock'
  <2>1. ProjectOf(t) \in Projects /\ y \in Writers
    BY ProjectOfTask DEF Writers
  <2>2. QED
    BY <1>16, <2>1, LockTyped DEF EditBegins
<1>17. ASSUME NEW y \in Sync, EditApplies(y) PROVE TypeLock'
  <2>1. sync[y].project \in Projects /\ lock[sync[y].project] # <<>> /\ y \in Writers
    BY <1>17 DEF EditApplies, Holds, TypeSyncs, Writers
  <2>2. QED
    BY <1>17, <2>1, LockTyped DEF EditApplies
<1>18. ASSUME Crash PROVE TypeLock'
  BY <1>18, EmptySeq DEF Crash
<1>19. ASSUME PumpSkips \/ PumpEnds \/ Stop \/ Tick
      PROVE  TypeLock'
  BY <1>1, <1>19 DEF PumpSkips, PumpEnds, Stop, Tick, config
<1>20. ASSUME NEW r \in Run, RunSession(r) \/ RunSettles(r)
      PROVE  TypeLock'
  BY <1>1, <1>20 DEF RunSession, RunSettles, config
<1>21. ASSUME NEW m \in Manual, NEW t \in Task, RunNow(m, t)
      PROVE  TypeLock'
  BY <1>1, <1>21 DEF RunNow, config
<1>22. ASSUME NEW y \in Sync, NEW p \in Projects, SyncBegins(y, p)
      PROVE  TypeLock'
  BY <1>1, <1>22 DEF SyncBegins, config
<1>23. ASSUME NEW y \in Sync, Start(y) \/ SyncSnapshots(y) \/ SyncEnds(y)
      PROVE  TypeLock'
  BY <1>1, <1>23, Zenon DEF Start, SyncSnapshots, SyncEnds, config
<1>24. CASE UNCHANGED vars
  BY <1>1, <1>24 DEF vars, config, scheduler, admission, thread, history
<1> HIDE DEF TypeLock
<1>25. QED
  BY <1>2, <1>3, <1>4, <1>5, <1>6, <1>7, <1>8, <1>9, <1>10, <1>11, <1>12, <1>13, <1>14,
     <1>15, <1>16, <1>17, <1>18, <1>19, <1>20, <1>21, <1>22, <1>23, <1>24, Zenon DEF Next,
     Step, RunStep, SyncStep

(***************************************************************************)
(* Every step preserves the types of the queue and its keys.               *)
(***************************************************************************)
LEMMA QueueStep ==
  ASSUME TypeQueue, TypeRuns, TypeSyncs, TypeThread, Pumping, Looping, [Next]_vars
  PROVE  TypeQueue'
<1> USE FirstTask, QueueTyped
<1> USE DEF TypeQueue, TypeRuns, TypeSyncs, TypeThread, Pumping, Looping, Reasons
<1>1. ASSUME UNCHANGED <<queue, queuedTaskKeys, runningTaskKeys>> PROVE TypeQueue'
  BY <1>1
<1>2. ASSUME NEW t \in Task, TimerFires(t) PROVE TypeQueue'
  BY <1>2 DEF TimerFires, admission
<1>3. ASSUME NEW r \in Run, PumpStarts(r) PROVE TypeQueue'
  <2>1. index \in 1..Len(queue) /\ queue[index] \in Items
    BY <1>3 DEF PumpStarts
  <2>2. queue' = Without(queue, index)
    BY <1>3 DEF PumpStarts, Without
  <2>3. queue' \in Seq(Items)
    BY <2>1, <2>2, WithoutProperties
  <2>4. queue[index].task \in Task
    BY <2>1 DEF Items
  <2>5. QED
    BY <1>3, <2>3, <2>4, Zenon DEF PumpStarts
<1>4. ASSUME NEW r \in Run, RunFinishes(r) PROVE TypeQueue'
  BY <1>4 DEF RunFinishes, Writes, Released, admission
<1>5. ASSUME NEW r \in Run, RunFails(r) PROVE TypeQueue'
  BY <1>5 DEF RunFails, Writes, Released, admission
<1>6. ASSUME NEW m \in Manual, NEW t \in Task, RunNow(m, t) PROVE TypeQueue'
  BY <1>6 DEF RunNow, admission
<1>7. ASSUME Stop PROVE TypeQueue'
  BY <1>7 DEF Stop, Stopped, admission
<1>8. ASSUME NEW y \in Sync, SyncFails(y) PROVE TypeQueue'
  <2>1. UNCHANGED <<queue, queuedTaskKeys>> \/ (queue' = <<>> /\ queuedTaskKeys' = {})
    BY <1>8 DEF SyncFails, Stopped
  <2>2. UNCHANGED runningTaskKeys
    BY <1>8 DEF SyncFails
  <2>3. queue' \in Seq(Items) /\ queuedTaskKeys' \subseteq Task
    <3>1. CASE UNCHANGED <<queue, queuedTaskKeys>>
      BY <3>1
    <3>2. CASE queue' = <<>> /\ queuedTaskKeys' = {}
      BY <3>2, EmptySeq
    <3>3. QED
      BY <2>1, <3>1, <3>2, Zenon
  <2>4. QED
    BY <2>2, <2>3
<1>9. ASSUME NEW y \in Sync, SyncChecks(y) PROVE TypeQueue'
  <2>1. First(sync[y].todo) \in Task
    BY <1>9 DEF SyncChecks, Syncs
  <2>2. QED
    BY <1>9, <2>1 DEF SyncChecks, CatchUp
<1>10. ASSUME NEW y \in Sync, SyncInterrupts(y) PROVE TypeQueue'
  BY <1>10 DEF SyncInterrupts, CatchUp, admission
<1>11. ASSUME Crash PROVE TypeQueue'
  BY <1>11 DEF Crash, admission
<1>12. ASSUME NEW a \in advance, Advanced(a)
      PROVE  TypeQueue'
  BY <1>1, <1>12 DEF Advanced, admission
<1>13. ASSUME PumpSkips \/ PumpEnds \/ Tick
      PROVE  TypeQueue'
  BY <1>1, <1>13 DEF PumpSkips, PumpEnds, Tick, admission
<1>14. ASSUME NEW r \in Run, RunBegins(r) \/ RunSession(r) \/ RunExecuted(r) \/ RunConsumes(r) \/
              RunSettles(r)
      PROVE  TypeQueue'
  BY <1>1, <1>14, Zenon DEF RunBegins, RunSession, RunExecuted, RunConsumes, RunSettles, admission
<1>15. ASSUME NEW y \in Sync, NEW p \in Projects, SyncBegins(y, p)
      PROVE  TypeQueue'
  BY <1>1, <1>15 DEF SyncBegins, admission
<1>16. ASSUME NEW y \in Sync, Start(y) \/ SyncLists(y) \/ SyncSets(y) \/ SyncSchedules(y) \/
              SyncSnapshots(y) \/ SyncEnds(y) \/ EditApplies(y)
      PROVE  TypeQueue'
  BY <1>1, <1>16, Zenon DEF Start, SyncLists, SyncSets, SyncSchedules, SyncSnapshots, SyncEnds,
     EditApplies, admission
<1>17. ASSUME NEW y \in Sync, NEW t \in Task, EditBegins(y, t)
      PROVE  TypeQueue'
  BY <1>1, <1>17 DEF EditBegins, admission
<1>18. CASE UNCHANGED vars
  BY <1>1, <1>18 DEF vars, config, scheduler, admission, thread, history
<1> HIDE DEF TypeQueue, TypeRuns, TypeSyncs, TypeThread, Pumping, Looping, Reasons
<1>19. QED
  BY <1>2, <1>3, <1>4, <1>5, <1>6, <1>7, <1>8, <1>9, <1>10, <1>11, <1>12, <1>13, <1>14,
     <1>15, <1>16, <1>17, <1>18, Zenon DEF Next, Step, RunStep, SyncStep

(***************************************************************************)
(* Every step preserves the types of the runs.                             *)
(***************************************************************************)
LEMMA RunsStep ==
  ASSUME TypeClock, TypeRecords, TypeQueue, TypeRuns, TypeThread, Pumping, [Next]_vars
  PROVE  TypeRuns'
<1> USE IdleRunTyped
<1> USE DEF TypeRuns
<1>1. ASSUME UNCHANGED run PROVE TypeRuns'
  BY <1>1
<1>2. ASSUME NEW r \in Run, PumpStarts(r) PROVE TypeRuns'
  <2>1. index \in 1..Len(queue) /\ queue[index] \in Items
    BY <1>2 DEF PumpStarts, TypeThread, Pumping, TypeQueue
  <2>2. mem[queue[index].task] \in Records /\ lifecycleGeneration \in Nat /\ now \in 0..Horizon
    BY <2>1 DEF TypeRecords, TypeClock, Items
  <2>3. PICK c \in {"begin", "settle"} : run' = [run EXCEPT ![r] =
          [IdleRun EXCEPT !.pc = c, !.task = queue[index].task, !.reason = queue[index].reason,
                          !.call = queue[index].call, !.gen = lifecycleGeneration,
                          !.was = mem[queue[index].task], !.at = now]]
    BY <1>2, Zenon DEF PumpStarts
  <2>4. run'[r] \in Runs /\ run'[r].task \in Task
    BY <2>1, <2>2, <2>3, Zenon DEF IdleRun, Runs, Items, Places
  <2>5. QED
    BY <2>3, <2>4
<1>3. ASSUME NEW r \in Run, RunBegins(r) PROVE TypeRuns'
  BY <1>3, Moves, SlotFacts, Zenon DEF RunBegins, Writes, Places
<1>4. ASSUME NEW r \in Run, RunExecuted(r) PROVE TypeRuns'
  BY <1>4, ExecutedMoves
<1>5. ASSUME NEW r \in Run, RunConsumes(r) PROVE TypeRuns'
  <2>1. PICK n \in Slots : run' = [run EXCEPT ![r].pc = "finish", ![r].next = n]
    BY <1>5, NextIsSlot, SlotFacts, Zenon DEF RunConsumes, TypeClock
  <2>2. run[r].task \in Task
    BY <1>5 DEF RunConsumes, Writes
  <2>3. QED
    BY <2>1, <2>2, Moves, Zenon DEF Places
<1>6. ASSUME NEW r \in Run, RunFinishes(r) PROVE TypeRuns'
  BY <1>6, Moves, SlotFacts, Zenon DEF RunFinishes, Writes, Released, Places
<1>7. ASSUME NEW r \in Run, RunFails(r) PROVE TypeRuns'
  BY <1>7, Moves, SlotFacts, Zenon DEF RunFails, Writes, Released, Places
<1>8. ASSUME NEW r \in Run, RunSettles(r) PROVE TypeRuns'
  BY <1>8 DEF RunSettles
<1>9. ASSUME Crash PROVE TypeRuns'
  BY <1>9 DEF Crash
<1>10. ASSUME NEW t \in Task, TimerFires(t)
      PROVE  TypeRuns'
  BY <1>1, <1>10 DEF TimerFires
<1>11. ASSUME NEW a \in advance, Advanced(a)
      PROVE  TypeRuns'
  BY <1>1, <1>11 DEF Advanced
<1>12. ASSUME PumpSkips \/ PumpEnds \/ Stop \/ Tick
      PROVE  TypeRuns'
  BY <1>1, <1>12 DEF PumpSkips, PumpEnds, Stop, Tick
<1>13. ASSUME NEW r \in Run, RunSession(r)
      PROVE  TypeRuns'
  BY <1>1, <1>13 DEF RunSession
<1>14. ASSUME NEW m \in Manual, NEW t \in Task, RunNow(m, t)
      PROVE  TypeRuns'
  BY <1>1, <1>14 DEF RunNow
<1>15. ASSUME NEW y \in Sync, NEW p \in Projects, SyncBegins(y, p)
      PROVE  TypeRuns'
  BY <1>1, <1>15 DEF SyncBegins
<1>16. ASSUME NEW y \in Sync, Start(y) \/ SyncLists(y) \/ SyncSets(y) \/ SyncSchedules(y) \/
              SyncFails(y) \/ SyncSnapshots(y) \/ SyncChecks(y) \/
              SyncInterrupts(y) \/ SyncEnds(y) \/ EditApplies(y)
      PROVE  TypeRuns'
  BY <1>1, <1>16, Zenon DEF Start, SyncLists, SyncSets, SyncSchedules, SyncFails, SyncSnapshots,
     SyncChecks, SyncInterrupts, SyncEnds, EditApplies
<1>17. ASSUME NEW y \in Sync, NEW t \in Task, EditBegins(y, t)
      PROVE  TypeRuns'
  BY <1>1, <1>17 DEF EditBegins
<1>18. CASE UNCHANGED vars
  BY <1>1, <1>18 DEF vars, config, scheduler, admission, thread, history
<1> HIDE DEF TypeRuns
<1>19. QED
  BY <1>2, <1>3, <1>4, <1>5, <1>6, <1>7, <1>8, <1>9, <1>10, <1>11, <1>12, <1>13, <1>14,
     <1>15, <1>16, <1>17, <1>18, Zenon DEF Next, Step, RunStep, SyncStep

(***************************************************************************)
(* What holds of one synchronisation.                                      *)
(***************************************************************************)
Legal(rec) ==
    /\ rec \in Syncs
    /\ rec.pc # "idle" => rec.project \in Projects
    /\ rec.pc \in Listed => rec.seen \in [Task -> Records]
    /\ rec.pc \in {"edit", "interrupt"} => rec.cur \in Task
    /\ rec.pc \in {"schedule", "reconcile", "interrupt"} => rec.todo \subseteq rec.project
    /\ rec.pc = "schedule" /\ rec.todo # {} => rec.cur \in rec.todo
    /\ rec.pc = "interrupt" => rec.cur \in rec.project

(***************************************************************************)
(* Every synchronisation is legal.                                         *)
(***************************************************************************)
LEMMA LegalSyncs ==
  ASSUME TypeSyncs, Looping
  PROVE  \A y \in Sync : Legal(sync[y])
BY DEF TypeSyncs, Looping, Legal

(***************************************************************************)
(* An update of one synchronisation by a legal record.                     *)
(***************************************************************************)
LEMMA SyncUpdated ==
  ASSUME TypeSyncs, Looping, NEW y \in Sync, NEW rec, Legal(rec), sync' = [sync EXCEPT ![y] = rec]
  PROVE  TypeSyncs' /\ Looping'
<1>1. sync' \in [Sync -> Syncs] /\ \A z \in Sync : Legal(sync'[z])
  BY LegalSyncs DEF Legal, TypeSyncs
<1>2. QED
  BY <1>1 DEF Legal, TypeSyncs, Looping

(***************************************************************************)
(* A synchronisation that is not in use is legal.                          *)
(***************************************************************************)
LEMMA IdleSyncLegal == Legal(IdleSync)
BY BoundAssumption, SlotFacts DEF Legal, IdleSync, Syncs, Listed

(***************************************************************************)
(* A call of syncProject is legal.                                         *)
(***************************************************************************)
LEMMA CalledLegal ==
  ASSUME NEW p \in Projects, NEW left \in SUBSET Projects, NEW start \in BOOLEAN
  PROVE  Legal([IdleSync EXCEPT !.pc = "list", !.left = left, !.project = p, !.start = start])
<1>1. p \in SUBSET Task
  BY ProjectsAssumption
<1>2. IdleSync \in Syncs
  BY IdleSyncLegal DEF Legal
<1>3. QED
  BY <1>1, <1>2, Zenon DEF Legal, Syncs, Listed

(***************************************************************************)
(* The first loop turns to the tasks S of its project.                     *)
(***************************************************************************)
LEMMA TurnedLegal ==
  ASSUME TypeClock, TypeSyncs, Looping, NEW y \in Sync, sync[y].pc # "idle",
         NEW list \in [Task -> Records], NEW S \in SUBSET sync[y].project, Turned(y, list, S)
  PROVE  TypeSyncs' /\ Looping'
<1> DEFINE c == IF S = {} THEN None ELSE First(S)
           n == IF S = {} THEN None ELSE ComputeNextRunAt(First(S), list[First(S)])
           rec == [sync[y] EXCEPT !.pc = "schedule", !.seen = list, !.todo = S, !.cur = c, !.next = n]
<1>1. sync[y] \in Syncs /\ sync[y].project \in Projects /\ sync[y].project \subseteq Task
  BY ProjectsAssumption DEF TypeSyncs, Syncs
<1>2. S \subseteq Task /\ (S # {} => c \in S) /\ (S = {} => c = None)
  BY <1>1, FirstTask
<1>3. n \in Slots
  BY NextIsSlot, SlotFacts DEF TypeClock
<1>4. sync' = [sync EXCEPT ![y] = rec]
  BY Zenon DEF Turned, TypeSyncs, Syncs
<1> HIDE DEF c, n
<1>5. Legal(rec)
  BY <1>1, <1>2, <1>3, Zenon DEF Legal, Syncs, Listed
<1> HIDE DEF rec
<1>6. QED
  BY <1>4, <1>5, SyncUpdated, Zenon

(***************************************************************************)
(* Every step preserves the types of the synchronisations and keeps their  *)
(* loops inside their project.                                             *)
(***************************************************************************)
LEMMA SyncsStep ==
  ASSUME TypeClock, TypeRecords, TypeSyncs, Looping, [Next]_vars
  PROVE  TypeSyncs' /\ Looping'
<1> USE DEF TypeClock
<1>1. ASSUME UNCHANGED sync PROVE TypeSyncs' /\ Looping'
  BY <1>1 DEF TypeSyncs, Looping
<1>2. ASSUME NEW y \in Sync, NEW p \in Projects, SyncBegins(y, p) PROVE TypeSyncs' /\ Looping'
  BY <1>2, CalledLegal, SyncUpdated, Zenon DEF SyncBegins, Called
<1>3. ASSUME NEW y \in Sync, Start(y) PROVE TypeSyncs' /\ Looping'
  <2>1. FirstProject(Projects) \in Projects
    BY ProjectsAssumption, FirstOfProjects
  <2>2. QED
    BY <1>3, <2>1, CalledLegal, SyncUpdated, Zenon DEF Start, Called
<1>4. ASSUME NEW y \in Sync, SyncLists(y) PROVE TypeSyncs' /\ Looping'
  <2> DEFINE rec == [sync[y] EXCEPT !.pc = "set", !.seen = store]
  <2>1. sync' = [sync EXCEPT ![y] = rec]
    BY <1>4, Zenon DEF SyncLists, TypeSyncs, Syncs
  <2>2. Legal(sync[y])
    BY LegalSyncs
  <2>3. Legal(rec)
    BY <1>4, <2>2, Zenon DEF SyncLists, TypeRecords, Legal, Syncs, Listed
  <2> HIDE DEF rec
  <2>4. QED
    BY <2>1, <2>3, SyncUpdated, Zenon
<1>5. ASSUME NEW y \in Sync, SyncSets(y) PROVE TypeSyncs' /\ Looping'
  <2>1. PICK list \in {store, sync[y].seen} :
          Turned(y, list, {t \in sync[y].project : list[t].present})
    BY <1>5, Zenon DEF SyncSets
  <2>2. list \in [Task -> Records] /\ sync[y].pc # "idle"
    BY <1>5 DEF SyncSets, TypeSyncs, TypeRecords, Listed
  <2>3. {t \in sync[y].project : list[t].present} \in SUBSET sync[y].project
    OBVIOUS
  <2>4. QED
    BY <2>1, <2>2, <2>3, TurnedLegal
<1>6. ASSUME NEW y \in Sync, SyncSchedules(y) PROVE TypeSyncs' /\ Looping'
  <2>1. Turned(y, sync[y].seen, sync[y].todo \ {sync[y].cur})
    BY <1>6 DEF SyncSchedules
  <2>2. sync[y].seen \in [Task -> Records] /\ sync[y].pc # "idle"
    BY <1>6 DEF SyncSchedules, TypeSyncs, Listed
  <2>3. sync[y].todo \ {sync[y].cur} \in SUBSET sync[y].project
    BY <1>6 DEF SyncSchedules, Looping
  <2>4. QED
    BY <2>1, <2>2, <2>3, TurnedLegal
<1>7. ASSUME NEW y \in Sync, SyncFails(y) PROVE TypeSyncs' /\ Looping'
  BY <1>7, IdleSyncLegal, SyncUpdated, Zenon DEF SyncFails
<1>8. ASSUME NEW y \in Sync, SyncSnapshots(y) PROVE TypeSyncs' /\ Looping'
  <2> DEFINE rec == [sync[y] EXCEPT !.pc = "reconcile", !.seen = mem, !.at = now, !.next = None,
                                  !.todo = {t \in sync[y].project : mem[t].present}]
  <2>1. sync' = [sync EXCEPT ![y] = rec]
    BY <1>8, Zenon DEF SyncSnapshots, TypeSyncs, Syncs
  <2>2. Legal(sync[y])
    BY LegalSyncs
  <2>3. Legal(rec)
    BY <1>8, <2>2, SlotFacts, Zenon DEF SyncSnapshots, TypeRecords, Legal, Syncs, Listed
  <2> HIDE DEF rec
  <2>4. QED
    BY <2>1, <2>3, SyncUpdated, Zenon
<1>9. ASSUME NEW y \in Sync, SyncChecks(y) PROVE TypeSyncs' /\ Looping'
  <2> DEFINE rec == [sync[y] EXCEPT !.pc = "interrupt", !.cur = First(sync[y].todo)]
             oth == [sync[y] EXCEPT !.todo = sync[y].todo \ {First(sync[y].todo)}]
  <2>1. sync' = [sync EXCEPT ![y] = rec] \/ sync' = [sync EXCEPT ![y] = oth]
    BY <1>9, Zenon DEF SyncChecks, TypeSyncs, Syncs
  <2>2. Legal(sync[y]) /\ sync[y].pc = "reconcile" /\ sync[y].todo # {}
    BY <1>9, LegalSyncs DEF SyncChecks
  <2>3. First(sync[y].todo) \in sync[y].todo
    BY <2>2, FirstTask DEF Legal, Syncs
  <2>4. Legal(rec)
    BY <2>2, <2>3, Zenon DEF Legal, Syncs, Listed
  <2>5. Legal(oth)
    BY <2>2, <2>3 DEF Legal, Syncs, Listed
  <2> HIDE DEF rec, oth
  <2>6. QED
    BY <2>1, <2>4, <2>5, SyncUpdated
<1>10. ASSUME NEW y \in Sync, SyncInterrupts(y) PROVE TypeSyncs' /\ Looping'
  <2> DEFINE rec == [sync[y] EXCEPT !.pc = "reconcile", !.cur = None, !.todo = sync[y].todo \ {sync[y].cur}]
  <2>1. sync' = [sync EXCEPT ![y] = rec]
    BY <1>10, Zenon DEF SyncInterrupts, TypeSyncs, Syncs
  <2>2. Legal(sync[y])
    BY LegalSyncs
  <2>3. Legal(rec)
    BY <1>10, <2>2, Zenon DEF SyncInterrupts, Legal, Syncs, Listed
  <2> HIDE DEF rec
  <2>4. QED
    BY <2>1, <2>3, SyncUpdated, Zenon
<1>11. ASSUME NEW y \in Sync, SyncEnds(y) PROVE TypeSyncs' /\ Looping'
  <2>1. CASE sync[y].left = {}
    BY <1>11, <2>1, IdleSyncLegal, SyncUpdated DEF SyncEnds
  <2>2. CASE sync[y].left # {}
    <3>1. sync[y].left \in SUBSET Projects /\ sync[y].start \in BOOLEAN
      BY DEF TypeSyncs, Syncs
    <3>2. FirstProject(sync[y].left) \in Projects
      BY <2>2, <3>1, FirstOfProjects
    <3>3. QED
      BY <1>11, <2>2, <3>1, <3>2, CalledLegal, SyncUpdated, Zenon DEF SyncEnds, Called
  <2>3. QED
    BY <2>1, <2>2
<1>12. ASSUME NEW y \in Sync, NEW t \in Task, EditBegins(y, t) PROVE TypeSyncs' /\ Looping'
  <2> DEFINE rec == [IdleSync EXCEPT !.pc = "edit", !.project = ProjectOf(t), !.cur = t]
  <2>1. sync' = [sync EXCEPT ![y] = rec]
    BY <1>12 DEF EditBegins
  <2>2. ProjectOf(t) \in Projects /\ ProjectOf(t) \subseteq Task
    BY ProjectOfTask, ProjectsAssumption
  <2>3. IdleSync \in Syncs
    BY IdleSyncLegal DEF Legal
  <2>4. IdleSync.todo = {}
    BY DEF IdleSync
  <2>5. Legal(rec)
    BY <2>2, <2>3, <2>4, Zenon DEF Legal, Syncs, Listed
  <2> HIDE DEF rec
  <2>6. QED
    BY <2>1, <2>5, SyncUpdated, Zenon
<1>13. ASSUME NEW y \in Sync, EditApplies(y) PROVE TypeSyncs' /\ Looping'
  <2>1. sync[y].project \in Projects
    BY <1>13 DEF EditApplies, TypeSyncs
  <2>2. QED
    BY <1>13, <2>1, CalledLegal, SyncUpdated, Zenon DEF EditApplies, Called
<1>14. ASSUME Crash PROVE TypeSyncs' /\ Looping'
  BY <1>14, IdleSyncLegal DEF Crash, Legal, TypeSyncs, Looping
<1>15. ASSUME NEW t \in Task, TimerFires(t)
      PROVE  TypeSyncs' /\ Looping'
  BY <1>1, <1>15 DEF TimerFires
<1>16. ASSUME NEW a \in advance, Advanced(a)
      PROVE  TypeSyncs' /\ Looping'
  BY <1>1, <1>16 DEF Advanced
<1>17. ASSUME PumpSkips \/ PumpEnds \/ Stop \/ Tick
      PROVE  TypeSyncs' /\ Looping'
  BY <1>1, <1>17 DEF PumpSkips, PumpEnds, Stop, Tick
<1>18. ASSUME NEW r \in Run, PumpStarts(r) \/ RunBegins(r) \/ RunSession(r) \/ RunExecuted(r) \/
              RunConsumes(r) \/ RunFinishes(r) \/ RunFails(r) \/
              RunSettles(r)
      PROVE  TypeSyncs' /\ Looping'
  BY <1>1, <1>18, Zenon DEF PumpStarts, RunBegins, RunSession, RunExecuted, RunConsumes,
     RunFinishes, RunFails, RunSettles
<1>19. ASSUME NEW m \in Manual, NEW t \in Task, RunNow(m, t)
      PROVE  TypeSyncs' /\ Looping'
  BY <1>1, <1>19 DEF RunNow
<1>20. CASE UNCHANGED vars
  BY <1>1, <1>20 DEF vars, config, scheduler, admission, thread, history
<1> HIDE DEF TypeClock
<1>21. QED
  BY <1>2, <1>3, <1>4, <1>5, <1>6, <1>7, <1>8, <1>9, <1>10, <1>11, <1>12, <1>13, <1>14,
     <1>15, <1>16, <1>17, <1>18, <1>19, <1>20, Zenon DEF Next, Step, RunStep, SyncStep

(***************************************************************************)
(* Every step preserves the types of the flags and answers.                *)
(***************************************************************************)
LEMMA FlagsStep ==
  ASSUME TypeFlags, TypeRuns, [Next]_vars
  PROVE  TypeFlags'
<1> USE NoneAssumption
<1> USE DEF TypeFlags, TypeRuns, Runs
<1>1. ASSUME UNCHANGED <<started, calls>> PROVE TypeFlags'
  BY <1>1
<1>2. ASSUME NEW r \in Run, RunSettles(r) PROVE TypeFlags'
  BY <1>2 DEF RunSettles, Answered, scheduler
<1>3. ASSUME NEW m \in Manual, NEW t \in Task, RunNow(m, t) PROVE TypeFlags'
  BY <1>3 DEF RunNow, scheduler
<1>4. ASSUME NEW y \in Sync, Start(y) PROVE TypeFlags'
  BY <1>4 DEF Start, scheduler
<1>5. ASSUME Stop PROVE TypeFlags'
  BY <1>5, Zenon DEF Stop, Stopped, scheduler
<1>6. ASSUME NEW y \in Sync, SyncFails(y) PROVE TypeFlags'
  BY <1>6, Zenon DEF SyncFails, Stopped, scheduler
<1>7. ASSUME Crash PROVE TypeFlags'
  BY <1>7, Zenon DEF Crash, scheduler
<1>8. ASSUME NEW t \in Task, TimerFires(t)
      PROVE  TypeFlags'
  BY <1>1, <1>8 DEF TimerFires, scheduler
<1>9. ASSUME NEW a \in advance, Advanced(a)
      PROVE  TypeFlags'
  BY <1>1, <1>9 DEF Advanced, scheduler
<1>10. ASSUME PumpSkips \/ PumpEnds \/ Tick
      PROVE  TypeFlags'
  BY <1>1, <1>10 DEF PumpSkips, PumpEnds, Tick, scheduler
<1>11. ASSUME NEW r \in Run, PumpStarts(r) \/ RunBegins(r) \/ RunSession(r) \/ RunExecuted(r) \/
              RunConsumes(r) \/ RunFinishes(r) \/ RunFails(r)
      PROVE  TypeFlags'
  BY <1>1, <1>11, Zenon DEF PumpStarts, RunBegins, RunSession, RunExecuted, RunConsumes,
     RunFinishes, RunFails, scheduler
<1>12. ASSUME NEW y \in Sync, NEW p \in Projects, SyncBegins(y, p)
      PROVE  TypeFlags'
  BY <1>1, <1>12 DEF SyncBegins, scheduler
<1>13. ASSUME NEW y \in Sync, SyncLists(y) \/ SyncSets(y) \/ SyncSchedules(y) \/ SyncSnapshots(y) \/
              SyncChecks(y) \/ SyncInterrupts(y) \/ SyncEnds(y) \/
              EditApplies(y)
      PROVE  TypeFlags'
  BY <1>1, <1>13, Zenon DEF SyncLists, SyncSets, SyncSchedules, SyncSnapshots, SyncChecks,
     SyncInterrupts, SyncEnds, EditApplies, scheduler
<1>14. ASSUME NEW y \in Sync, NEW t \in Task, EditBegins(y, t)
      PROVE  TypeFlags'
  BY <1>1, <1>14 DEF EditBegins, scheduler
<1>15. CASE UNCHANGED vars
  BY <1>1, <1>15 DEF vars, config, scheduler, admission, thread, history
<1> HIDE DEF TypeFlags, TypeRuns, Runs
<1>16. QED
  BY <1>2, <1>3, <1>4, <1>5, <1>6, <1>7, <1>8, <1>9, <1>10, <1>11, <1>12, <1>13, <1>14,
     <1>15, Zenon DEF Next, Step, RunStep, SyncStep

(***************************************************************************)
(* Every step preserves the types of the thread.                           *)
(***************************************************************************)
LEMMA ThreadStep ==
  ASSUME TypeThread, Pumping, [Next]_vars
  PROVE  TypeThread' /\ Pumping'
<1> USE NoneAssumption, WriterAssumption
<1> USE DEF TypeThread, Pumping
<1>1. ASSUME UNCHANGED <<busy, index>> PROVE TypeThread' /\ Pumping'
  BY <1>1
<1>2. ASSUME NEW t \in Task, TimerFires(t) PROVE TypeThread' /\ Pumping'
  BY <1>2 DEF TimerFires, PumpQueue, thread
<1>3. ASSUME PumpSkips PROVE TypeThread' /\ Pumping'
  BY <1>3 DEF PumpSkips, thread
<1>4. ASSUME PumpEnds PROVE TypeThread' /\ Pumping'
  BY <1>4 DEF PumpEnds, thread
<1>5. ASSUME NEW r \in Run, RunSettles(r) PROVE TypeThread' /\ Pumping'
  BY <1>5 DEF RunSettles, PumpQueue, thread
<1>6. ASSUME NEW m \in Manual, NEW t \in Task, RunNow(m, t) PROVE TypeThread' /\ Pumping'
  BY <1>6 DEF RunNow, PumpQueue, thread
<1>7. ASSUME NEW y \in Sync, SyncSnapshots(y) PROVE TypeThread' /\ Pumping'
  BY <1>7 DEF SyncSnapshots, thread
<1>8. ASSUME NEW y \in Sync, SyncChecks(y) PROVE TypeThread' /\ Pumping'
  BY <1>8 DEF SyncChecks, thread
<1>9. ASSUME NEW y \in Sync, SyncInterrupts(y) PROVE TypeThread' /\ Pumping'
  BY <1>9 DEF SyncInterrupts, thread
<1>10. ASSUME NEW y \in Sync, SyncEnds(y) PROVE TypeThread' /\ Pumping'
  BY <1>10 DEF SyncEnds, PumpQueue, thread
<1>11. ASSUME NEW a \in advance, Advanced(a)
      PROVE  TypeThread' /\ Pumping'
  BY <1>1, <1>11 DEF Advanced, thread
<1>12. ASSUME NEW r \in Run, PumpStarts(r) \/ RunBegins(r) \/ RunSession(r) \/ RunExecuted(r) \/
              RunConsumes(r) \/ RunFinishes(r) \/ RunFails(r)
      PROVE  TypeThread' /\ Pumping'
  BY <1>1, <1>12, Zenon DEF PumpStarts, RunBegins, RunSession, RunExecuted, RunConsumes,
     RunFinishes, RunFails, thread
<1>13. ASSUME NEW y \in Sync, NEW p \in Projects, SyncBegins(y, p)
      PROVE  TypeThread' /\ Pumping'
  BY <1>1, <1>13 DEF SyncBegins, thread
<1>14. ASSUME NEW y \in Sync, Start(y) \/ SyncLists(y) \/ SyncSets(y) \/ SyncSchedules(y) \/
              SyncFails(y) \/ EditApplies(y)
      PROVE  TypeThread' /\ Pumping'
  BY <1>1, <1>14, Zenon DEF Start, SyncLists, SyncSets, SyncSchedules, SyncFails, EditApplies,
     thread
<1>15. ASSUME Stop \/ Tick \/ Crash
      PROVE  TypeThread' /\ Pumping'
  BY <1>1, <1>15 DEF Stop, Tick, Crash, thread
<1>16. ASSUME NEW y \in Sync, NEW t \in Task, EditBegins(y, t)
      PROVE  TypeThread' /\ Pumping'
  BY <1>1, <1>16 DEF EditBegins, thread
<1>17. CASE UNCHANGED vars
  BY <1>1, <1>17 DEF vars, config, scheduler, admission, thread, history
<1> HIDE DEF TypeThread, Pumping
<1>18. QED
  BY <1>2, <1>3, <1>4, <1>5, <1>6, <1>7, <1>8, <1>9, <1>10, <1>11, <1>12, <1>13, <1>14,
     <1>15, <1>16, <1>17, Zenon DEF Next, Step, RunStep, SyncStep

(***************************************************************************)
(* Every step preserves the types of the history.                          *)
(***************************************************************************)
LEMMA HistoryStep ==
  ASSUME TypeTimers, TypeRuns, TypeSyncs, Looping, TypeHistory, [Next]_vars
  PROVE  TypeHistory'
<1> USE NoneAssumption
<1> USE DEF TypeTimers, TypeRuns, TypeSyncs, Looping, TypeHistory, Syncs
<1>1. ASSUME UNCHANGED <<fired, lost, excused>> PROVE TypeHistory'
  BY <1>1
<1>2. ASSUME NEW a \in advance, Advanced(a) PROVE TypeHistory'
  BY <1>2 DEF Advanced, history
<1>3. ASSUME NEW r \in Run, RunBegins(r) PROVE TypeHistory'
  BY <1>3 DEF RunBegins, Writes, history
<1>4. ASSUME NEW r \in Run, RunConsumes(r) PROVE TypeHistory'
  BY <1>4 DEF RunConsumes, Writes, Unrecorded, history
<1>5. ASSUME NEW r \in Run, RunFinishes(r) PROVE TypeHistory'
  BY <1>5 DEF RunFinishes, Writes, Unrecorded, history
<1>6. ASSUME NEW r \in Run, RunFails(r) PROVE TypeHistory'
  BY <1>6 DEF RunFails, Writes, Unrecorded, history
<1>7. ASSUME NEW y \in Sync, SyncSchedules(y) PROVE TypeHistory'
  BY <1>7, Zenon DEF SyncSchedules, history
<1>8. ASSUME NEW y \in Sync, SyncFails(y) PROVE TypeHistory'
  BY <1>8 DEF SyncFails, history
<1>9. ASSUME NEW t \in Task, TimerFires(t)
      PROVE  TypeHistory'
  BY <1>1, <1>9 DEF TimerFires, history
<1>10. ASSUME PumpSkips \/ PumpEnds \/ Stop \/ Tick \/ Crash
      PROVE  TypeHistory'
  BY <1>1, <1>10 DEF PumpSkips, PumpEnds, Stop, Tick, Crash, history
<1>11. ASSUME NEW r \in Run, PumpStarts(r) \/ RunSession(r) \/ RunSettles(r)
      PROVE  TypeHistory'
  BY <1>1, <1>11 DEF PumpStarts, RunSession, RunSettles, history
<1>12. ASSUME NEW r \in Run, RunExecuted(r) PROVE TypeHistory'
  BY <1>12 DEF RunExecuted, Unrecorded, history
<1>13. ASSUME NEW y \in Sync, EditApplies(y) PROVE TypeHistory'
  BY <1>13 DEF EditApplies, history
<1>14. ASSUME NEW m \in Manual, NEW t \in Task, RunNow(m, t)
      PROVE  TypeHistory'
  BY <1>1, <1>14 DEF RunNow, history
<1>15. ASSUME NEW y \in Sync, NEW p \in Projects, SyncBegins(y, p)
      PROVE  TypeHistory'
  BY <1>1, <1>15 DEF SyncBegins, history
<1>16. ASSUME NEW y \in Sync, Start(y) \/ SyncLists(y) \/ SyncSets(y) \/ SyncSnapshots(y) \/
              SyncChecks(y) \/ SyncInterrupts(y) \/ SyncEnds(y)
      PROVE  TypeHistory'
  BY <1>1, <1>16, Zenon DEF Start, SyncLists, SyncSets, SyncSnapshots, SyncChecks, SyncInterrupts,
     SyncEnds, history
<1>17. ASSUME NEW y \in Sync, NEW t \in Task, EditBegins(y, t)
      PROVE  TypeHistory'
  BY <1>1, <1>17 DEF EditBegins, history
<1>18. CASE UNCHANGED vars
  BY <1>1, <1>18 DEF vars, config, scheduler, admission, thread, history
<1> HIDE DEF TypeTimers, TypeRuns, TypeSyncs, Looping, TypeHistory, Syncs
<1>19. QED
  BY <1>2, <1>3, <1>4, <1>5, <1>6, <1>7, <1>8, <1>9, <1>10, <1>11, <1>12, <1>13, <1>14,
     <1>15, <1>16, <1>17, <1>18, Zenon DEF Next, Step, RunStep, SyncStep

-----------------------------------------------------------------------------
(* Admission: the keys and the counters.                                   *)

HeldRuns == {r \in Run : Held(r)}
HeldIn(p) == {r \in Run : Held(r) /\ run[r].task \in p}

\* The running keys and the counters are the runs under way.
RunKeys ==
    /\ runningTaskKeys = {run[r].task : r \in HeldRuns}
    /\ \A r, s \in Run : Held(r) /\ Held(s) /\ run[r].task = run[s].task => r = s
Counters ==
    /\ runningGlobalCount = Cardinality(HeldRuns)
    /\ runningGlobalCount <= maxGlobalConcurrency
    /\ \A p \in Projects :
        /\ runningCountByProject[p] = Cardinality(HeldIn(p))
        /\ runningCountByProject[p] <= maxProjectConcurrency
Admitted == RunKeys /\ Counters /\ TypeCounts

\* The queued keys are those of the queue, and none is running.
QueueKeys ==
    /\ queuedTaskKeys = {queue[i].task : i \in 1..Len(queue)}
    /\ \A i, j \in 1..Len(queue) : queue[i].task = queue[j].task => i = j
Apart == queuedTaskKeys \cap runningTaskKeys = {}

(***************************************************************************)
(* The runs under way can be counted.                                      *)
(***************************************************************************)
LEMMA HeldFinite ==
  /\ IsFiniteSet(HeldRuns) /\ Cardinality(HeldRuns) \in Nat
  /\ \A p \in Projects : IsFiniteSet(HeldIn(p)) /\ Cardinality(HeldIn(p)) \in Nat
<1>1. IsFiniteSet(Run)
  BY RunAssumption
<1>2. HeldRuns \subseteq Run /\ \A p \in Projects : HeldIn(p) \subseteq Run
  BY DEF HeldRuns, HeldIn
<1>3. QED
  BY <1>1, <1>2, FS_Subset, FS_CardinalityType

(***************************************************************************)
(* A step that leaves the runs under way what they are.                    *)
(***************************************************************************)
LEMMA SlotsKept ==
  ASSUME Admitted, UNCHANGED <<runningTaskKeys, runningGlobalCount, runningCountByProject>>,
         \A s \in Run : Held(s)' <=> Held(s),
         \A s \in Run : Held(s) => run'[s].task = run[s].task
  PROVE  Admitted'
<1>1. HeldRuns' = HeldRuns /\ \A p \in Projects : HeldIn(p)' = HeldIn(p)
  BY DEF HeldRuns, HeldIn
<1>2. RunKeys'
  <2>1. \A r \in HeldRuns : run'[r].task = run[r].task
    BY DEF HeldRuns
  <2>2. {run'[r].task : r \in HeldRuns} = {run[r].task : r \in HeldRuns}
    BY <2>1
  <2>3. \A r, s \in Run : Held(r)' /\ Held(s)' /\ run'[r].task = run'[s].task => r = s
    BY DEF Admitted, RunKeys
  <2>4. QED
    BY <1>1, <2>2, <2>3, Zenon DEF Admitted, RunKeys
<1>3. Counters' /\ TypeCounts'
  BY <1>1 DEF Admitted, Counters, TypeCounts
<1>4. QED
  BY <1>2, <1>3 DEF Admitted

(***************************************************************************)
(* The runs that r is not one of stay what they are.                       *)
(***************************************************************************)
OthersKept(r) ==
    \A s \in Run : s # r => (Held(s)' <=> Held(s)) /\ run'[s].task = run[s].task

(***************************************************************************)
(* A run takes a slot of the global limit and one of its project.          *)
(***************************************************************************)
LEMMA SlotTaken ==
  ASSUME Admitted, NEW r \in Run, NEW t \in Task, ~Held(r), Held(r)', run'[r].task = t,
         OthersKept(r), t \notin runningTaskKeys, CanRunTask(t),
         runningTaskKeys' = runningTaskKeys \cup {t},
         runningGlobalCount' = runningGlobalCount + 1,
         runningCountByProject' =
             [runningCountByProject EXCEPT ![ProjectOf(t)] = runningCountByProject[ProjectOf(t)] + 1]
  PROVE  Admitted'
<1>1. HeldRuns' = HeldRuns \cup {r} /\ r \notin HeldRuns
  BY DEF HeldRuns, OthersKept
<1>2. ASSUME NEW p \in Projects
      PROVE  HeldIn(p)' = (IF p = ProjectOf(t) THEN HeldIn(p) \cup {r} ELSE HeldIn(p))
             /\ r \notin HeldIn(p)
  <2>1. t \in p <=> p = ProjectOf(t)
    BY ProjectOfTask
  <2>2. QED
    BY <2>1 DEF HeldIn, OthersKept
<1>3. RunKeys'
  <2>1. \A s \in HeldRuns : run'[s].task = run[s].task
    BY <1>1 DEF HeldRuns, OthersKept
  <2>2. {run'[s].task : s \in HeldRuns \cup {r}} = {run[s].task : s \in HeldRuns} \cup {t}
    BY <2>1
  <2>3. \A s \in Run : Held(s) => run[s].task # t
    BY DEF Admitted, RunKeys, HeldRuns
  <2>4. \A s, u \in Run : Held(s)' /\ Held(u)' /\ run'[s].task = run'[u].task => s = u
    BY <2>3 DEF Admitted, RunKeys, OthersKept
  <2>5. QED
    BY <1>1, <2>2, <2>4, Zenon DEF Admitted, RunKeys
<1>4. Cardinality(HeldRuns') = Cardinality(HeldRuns) + 1
  BY <1>1, HeldFinite, FS_AddElement, Zenon
<1>5. ASSUME NEW p \in Projects
      PROVE  Cardinality(HeldIn(p)') = Cardinality(HeldIn(p)) + (IF p = ProjectOf(t) THEN 1 ELSE 0)
  BY <1>2, HeldFinite, FS_AddElement
<1>6. Counters' /\ TypeCounts'
  <2>1. runningGlobalCount' \in Nat /\ runningGlobalCount' = Cardinality(HeldRuns')
        /\ runningGlobalCount' <= maxGlobalConcurrency
    BY <1>4, LimitAssumption DEF Admitted, Counters, TypeCounts, CanRunTask
  <2>2. ASSUME NEW p \in Projects
        PROVE  /\ runningCountByProject'[p] = Cardinality(HeldIn(p)')
               /\ runningCountByProject'[p] <= maxProjectConcurrency
    <3>1. CASE p = ProjectOf(t)
      BY <1>5, <3>1, LimitAssumption DEF Admitted, Counters, TypeCounts, CanRunTask
    <3>2. CASE p # ProjectOf(t)
      BY <1>5, <3>2, HeldFinite DEF Admitted, Counters, TypeCounts
    <3>3. QED
      BY <3>1, <3>2
  <2>3. runningCountByProject' \in [Projects -> Nat]
    BY ProjectOfTask DEF Admitted, TypeCounts
  <2>4. QED
    BY <2>1, <2>2, <2>3 DEF Counters, TypeCounts
<1>7. QED
  BY <1>3, <1>6 DEF Admitted

(***************************************************************************)
(* The finally block gives back what the run took, once.                   *)
(***************************************************************************)
LEMMA SlotFreed ==
  ASSUME Admitted, NEW r \in Run, NEW t \in Task, Held(r), ~Held(r)', run[r].task = t,
         OthersKept(r),
         runningTaskKeys' = runningTaskKeys \ {t},
         runningGlobalCount' = runningGlobalCount - 1,
         runningCountByProject' = [runningCountByProject EXCEPT ![ProjectOf(t)] = @ - 1]
  PROVE  Admitted'
<1>1. HeldRuns' = HeldRuns \ {r} /\ r \in HeldRuns
  BY DEF HeldRuns, OthersKept
<1>2. ASSUME NEW p \in Projects
      PROVE  /\ HeldIn(p)' = IF p = ProjectOf(t) THEN HeldIn(p) \ {r} ELSE HeldIn(p)
             /\ p = ProjectOf(t) => r \in HeldIn(p)
  <2>1. t \in p <=> p = ProjectOf(t)
    BY ProjectOfTask
  <2>2. QED
    BY <2>1 DEF HeldIn, OthersKept
<1>3. RunKeys'
  <2>1. \A s \in HeldRuns \ {r} : run'[s].task = run[s].task /\ run[s].task # t
    BY <1>1 DEF HeldRuns, OthersKept, Admitted, RunKeys
  <2>2. {run'[s].task : s \in HeldRuns \ {r}} = {run[s].task : s \in HeldRuns} \ {t}
    BY <1>1, <2>1
  <2>3. \A s, u \in Run : Held(s)' /\ Held(u)' /\ run'[s].task = run'[u].task => s = u
    BY DEF Admitted, RunKeys, OthersKept
  <2>4. QED
    BY <1>1, <2>2, <2>3 DEF Admitted, RunKeys
<1>4. Cardinality(HeldRuns') = Cardinality(HeldRuns) - 1 /\ Cardinality(HeldRuns') \in Nat
  BY <1>1, HeldFinite, FS_RemoveElement, FS_CardinalityType
<1>5. ASSUME NEW p \in Projects
      PROVE  /\ Cardinality(HeldIn(p)') = Cardinality(HeldIn(p)) - (IF p = ProjectOf(t) THEN 1 ELSE 0)
             /\ Cardinality(HeldIn(p)') \in Nat
  <2>1. IsFiniteSet(HeldIn(p)) /\ Cardinality(HeldIn(p)) \in Nat
    BY HeldFinite
  <2>2. CASE p = ProjectOf(t)
    <3>1. HeldIn(p)' = HeldIn(p) \ {r} /\ r \in HeldIn(p)
      BY <1>2, <2>2
    <3>2. IsFiniteSet(HeldIn(p) \ {r}) /\ Cardinality(HeldIn(p) \ {r}) = Cardinality(HeldIn(p)) - 1
      BY <2>1, <3>1, FS_RemoveElement
    <3>3. QED
      BY <2>2, <3>1, <3>2, FS_CardinalityType
  <2>3. CASE p # ProjectOf(t)
    BY <1>2, <2>1, <2>3
  <2>4. QED
    BY <2>2, <2>3
<1>6. Counters' /\ TypeCounts'
  <2>1. runningGlobalCount' \in Nat /\ runningGlobalCount' = Cardinality(HeldRuns')
        /\ runningGlobalCount' <= maxGlobalConcurrency
    BY <1>4, LimitAssumption DEF Admitted, Counters, TypeCounts
  <2>2. ASSUME NEW p \in Projects
        PROVE  /\ runningCountByProject'[p] = Cardinality(HeldIn(p)')
               /\ runningCountByProject'[p] <= maxProjectConcurrency
               /\ runningCountByProject'[p] \in Nat
    <3>1. CASE p = ProjectOf(t)
      BY <1>5, <3>1, LimitAssumption DEF Admitted, Counters, TypeCounts
    <3>2. CASE p # ProjectOf(t)
      BY <1>5, <3>2, HeldFinite DEF Admitted, Counters, TypeCounts
    <3>3. QED
      BY <3>1, <3>2
  <2>3. runningCountByProject' \in [Projects -> Nat]
    BY <2>2, Zenon DEF Admitted, TypeCounts
  <2>4. QED
    BY <2>1, <2>2, <2>3 DEF Counters, TypeCounts
<1>7. QED
  BY <1>3, <1>6 DEF Admitted

(***************************************************************************)
(* queueTaskRun adds a task that is neither queued nor running, or nothing.*)
(***************************************************************************)
LEMMA QueuedOnce ==
  ASSUME TypeQueue, QueueKeys, Apart, NEW t \in Task, NEW reason, NEW call,
         QueueTaskRun(t, reason, call), UNCHANGED runningTaskKeys
  PROVE  QueueKeys' /\ Apart'
<1>1. CASE t \in queuedTaskKeys \cup runningTaskKeys
  BY <1>1 DEF QueueTaskRun, QueueKeys, Apart
<1>2. CASE t \notin queuedTaskKeys \cup runningTaskKeys
  <2> DEFINE e == [task |-> t, reason |-> reason, call |-> call]
  <2>1. queue' = Append(queue, e) /\ queuedTaskKeys' = queuedTaskKeys \cup {t}
    BY <1>2 DEF QueueTaskRun
  <2>2. Len(queue) \in Nat /\ Len(queue') = Len(queue) + 1
        /\ \A i \in 1..Len(queue) : queue'[i] = queue[i]
    BY <2>1 DEF TypeQueue
  <2>3. queue'[Len(queue) + 1].task = t
    <3>1. Append(queue, e)[Len(queue) + 1] = e
      BY <2>2 DEF TypeQueue
    <3>2. e.task = t
      OBVIOUS
    <3>3. QED
      BY <2>1, <3>1, <3>2
  <2> HIDE DEF e
  <2>4. \A i \in 1..Len(queue) : queue[i].task # t
    BY <1>2 DEF QueueKeys
  <2>5. {queue'[i].task : i \in 1..Len(queue) + 1} = {queue[i].task : i \in 1..Len(queue)} \cup {t}
    <3>1. 1..Len(queue) + 1 = 1..Len(queue) \cup {Len(queue) + 1}
      BY <2>2
    <3>2. QED
      BY <2>2, <2>3, <3>1
  <2>6. \A i, j \in 1..Len(queue) + 1 : queue'[i].task = queue'[j].task => i = j
    <3>1. ASSUME NEW i \in 1..Len(queue) + 1, NEW j \in 1..Len(queue) + 1,
                 queue'[i].task = queue'[j].task
          PROVE  i = j
      <4>1. CASE i \in 1..Len(queue) /\ j \in 1..Len(queue)
        BY <2>2, <3>1, <4>1 DEF QueueKeys
      <4>2. CASE i = Len(queue) + 1 \/ j = Len(queue) + 1
        BY <2>2, <2>3, <2>4, <3>1, <4>2
      <4>3. QED
        BY <2>2, <4>1, <4>2
    <3>2. QED
      BY <3>1
  <2>7. QED
    BY <1>2, <2>1, <2>2, <2>5, <2>6, Zenon DEF QueueKeys, Apart
<1>3. QED
  BY <1>1, <1>2

(***************************************************************************)
(* The item pumpQueue takes out was the only one of its task.              *)
(***************************************************************************)
LEMMA TakenOut ==
  ASSUME TypeQueue, QueueKeys, NEW i \in 1..Len(queue), queue' = Without(queue, i),
         queuedTaskKeys' = queuedTaskKeys \ {queue[i].task}
  PROVE  QueueKeys'
<1> DEFINE at(j) == IF j < i THEN j ELSE j + 1
<1>1. Len(queue) \in Nat /\ i \in Nat /\ Len(queue') = Len(queue) - 1
      /\ \A j \in 1..Len(queue) - 1 : queue'[j] = queue[at(j)]
  BY WithoutProperties DEF TypeQueue
<1>2. \A j \in 1..Len(queue) - 1 : at(j) \in 1..Len(queue) /\ at(j) # i
  BY <1>1
<1>3. \A k \in 1..Len(queue) : k # i => \E j \in 1..Len(queue) - 1 : at(j) = k
  <2>1. ASSUME NEW k \in 1..Len(queue), k # i PROVE \E j \in 1..Len(queue) - 1 : at(j) = k
    <3>1. CASE k < i
      BY <1>1, <3>1, SMTT(30)
    <3>2. CASE k > i
      <4>1. k - 1 \in 1..Len(queue) - 1 /\ at(k - 1) = k
        BY <1>1, <3>2
      <4>2. QED
        BY <4>1
    <3>3. QED
      BY <1>1, <2>1, <3>1, <3>2
  <2>2. QED
    BY <2>1
<1>4. \A j, k \in 1..Len(queue) - 1 : at(j) = at(k) => j = k
  BY <1>1
<1> HIDE DEF at
<1>5. {queue'[j].task : j \in 1..Len(queue')} = queuedTaskKeys'
  <2>1. ASSUME NEW j \in 1..Len(queue') PROVE queue'[j].task \in queuedTaskKeys'
    <3>1. queue'[j] = queue[at(j)] /\ at(j) \in 1..Len(queue) /\ at(j) # i
      BY <1>1, <1>2, <2>1
    <3>2. queue[at(j)].task # queue[i].task
      BY <3>1 DEF QueueKeys
    <3>3. QED
      BY <3>1, <3>2 DEF QueueKeys
  <2>2. ASSUME NEW t \in queuedTaskKeys' PROVE \E j \in 1..Len(queue') : queue'[j].task = t
    <3>1. PICK k \in 1..Len(queue) : queue[k].task = t
      BY <2>2 DEF QueueKeys
    <3>2. k # i
      BY <2>2, <3>1
    <3>3. PICK j \in 1..Len(queue) - 1 : at(j) = k
      BY <1>3, <3>2
    <3>4. QED
      BY <1>1, <3>1, <3>3, Zenon
  <2>3. QED
    BY <2>1, <2>2
<1>6. \A j, k \in 1..Len(queue') : queue'[j].task = queue'[k].task => j = k
  BY <1>1, <1>2, <1>4 DEF QueueKeys
<1>7. QED
  BY <1>5, <1>6, Zenon DEF QueueKeys

(***************************************************************************)
(* Every step keeps the running keys and the counters exact.               *)
(***************************************************************************)
LEMMA AdmittedStep ==
  ASSUME TypeClock, TypeRecords, TypeQueue, TypeRuns, TypeThread, Pumping, Apart,
         QueueKeys, Admitted, [Next]_vars
  PROVE  Admitted'
<1> USE DEF Admitted
<1>1. ASSUME UNCHANGED <<run, runningTaskKeys, runningGlobalCount, runningCountByProject>> PROVE Admitted'
  BY <1>1 DEF RunKeys, Counters, TypeCounts, HeldRuns, HeldIn, Held
<1>2. ASSUME NEW r \in Run, PumpStarts(r) PROVE Admitted'
  <2> DEFINE t == queue[index].task
             refused == \/ ~mem[t].present
                        \/ queue[index].reason = "scheduled" /\ ~mem[t].enabled
                        \/ t \in runningTaskKeys
  <2>1. index \in 1..Len(queue) /\ queue[index] \in Items
    BY <1>2 DEF PumpStarts, TypeThread, Pumping, TypeQueue
  <2>2. t \in Task
    BY <2>1 DEF Items
  <2>3. /\ \A s \in Run : s # r => run'[s] = run[s]
        /\ run'[r].pc = (IF refused THEN "settle" ELSE "begin") /\ run'[r].task = t
    BY <1>2 DEF PumpStarts, TypeRuns, IdleRun
  <2>4. run[r].pc = "idle" /\ CanRunTask(t)
    BY <1>2 DEF PumpStarts, Startable
  <2>5. OthersKept(r) /\ ~Held(r)
    BY <2>3, <2>4 DEF OthersKept, Held
  <2>6. CASE refused
    <3>1. UNCHANGED <<runningTaskKeys, runningGlobalCount, runningCountByProject>>
      BY <1>2, <2>6 DEF PumpStarts
    <3>2. ~Held(r)'
      BY <2>3, <2>6 DEF Held
    <3>3. QED
      BY <2>5, <3>1, <3>2, SlotsKept DEF OthersKept
  <2>7. CASE ~refused
    <3>1. /\ runningTaskKeys' = runningTaskKeys \cup {t}
          /\ runningGlobalCount' = runningGlobalCount + 1
          /\ runningCountByProject' =
                 [runningCountByProject EXCEPT ![ProjectOf(t)] = runningCountByProject[ProjectOf(t)] + 1]
      BY <1>2, <2>7 DEF PumpStarts
    <3>2. Held(r)'
      BY <2>3, <2>7 DEF Held
    <3>3. QED
      BY <2>2, <2>3, <2>4, <2>5, <2>7, <3>1, <3>2, SlotTaken, Zenon
  <2>8. QED
    BY <2>6, <2>7
<1>3. ASSUME NEW r \in Run, RunBegins(r) PROVE Admitted'
  <2>1. run[r].task \in Task /\ run[r].pc \in {"begin"}
    BY <1>3 DEF RunBegins, Writes, TypeRuns
  <2>2. PICK c \in {"execute"}, n \in Slots :
          run' = [run EXCEPT ![r].pc = c] \/ run' = [run EXCEPT ![r].pc = c, ![r].next = n]
    BY <1>3, NextIsSlot, SlotFacts DEF RunBegins, TypeClock
  <2>3. Moved(r, c)
    BY <2>1, <2>2, Moves, Zenon DEF Places
  <2>4. \A s \in Run : (Held(s)' <=> Held(s)) /\ run'[s].task = run[s].task
    BY <2>1, <2>2, <2>3 DEF Moved, Held
  <2>5. UNCHANGED <<runningTaskKeys, runningGlobalCount, runningCountByProject>>
    BY <1>3 DEF RunBegins, admission
  <2>6. QED
    BY <2>4, <2>5, SlotsKept
<1>4. ASSUME NEW r \in Run, RunExecuted(r) PROVE Admitted'
  <2>1. run[r].task \in Task /\ run[r].pc \in {"execute"}
    BY <1>4 DEF RunExecuted, Writes, TypeRuns
  <2>2. PICK c \in {"consume", "finish"} : Moved(r, c)
    BY <1>4, ExecutedMoves
  <2>3. Moved(r, c)
    BY <2>2
<2>4. \A s \in Run : (Held(s)' <=> Held(s)) /\ run'[s].task = run[s].task
    BY <2>1, <2>2, <2>3 DEF Moved, Held
  <2>5. UNCHANGED <<runningTaskKeys, runningGlobalCount, runningCountByProject>>
    BY <1>4 DEF RunExecuted, admission
  <2>6. QED
    BY <2>4, <2>5, SlotsKept
<1>5. ASSUME NEW r \in Run, RunConsumes(r) PROVE Admitted'
  <2>1. run[r].task \in Task /\ run[r].pc \in {"consume"}
    BY <1>5 DEF RunConsumes, Writes, TypeRuns
  <2>2. PICK c \in {"finish"}, n \in Slots :
          run' = [run EXCEPT ![r].pc = c] \/ run' = [run EXCEPT ![r].pc = c, ![r].next = n]
    BY <1>5, NextIsSlot, SlotFacts, Zenon DEF RunConsumes, TypeClock
  <2>3. Moved(r, c)
    BY <2>1, <2>2, Moves, Zenon DEF Places
  <2>4. \A s \in Run : (Held(s)' <=> Held(s)) /\ run'[s].task = run[s].task
    BY <2>1, <2>2, <2>3 DEF Moved, Held
  <2>5. UNCHANGED <<runningTaskKeys, runningGlobalCount, runningCountByProject>>
    BY <1>5 DEF RunConsumes, admission
  <2>6. QED
    BY <2>4, <2>5, SlotsKept
<1>6. ASSUME NEW r \in Run, RunFinishes(r) PROVE Admitted'
  <2>1. run[r].task \in Task /\ Held(r) /\ Released(r, run[r].task)
    BY <1>6 DEF RunFinishes, Writes, TypeRuns, Held
  <2>2. Moved(r, "settle")
    BY <2>1, Moves, SlotFacts, Zenon DEF Released, Places
  <2>3. ~Held(r)' /\ OthersKept(r)
    BY <2>2 DEF Moved, Held, OthersKept
  <2>4. QED
    BY <2>1, <2>3, SlotFreed, Zenon DEF Released
<1>7. ASSUME NEW r \in Run, RunFails(r) PROVE Admitted'
  <2>1. run[r].task \in Task /\ Held(r) /\ Released(r, run[r].task)
    BY <1>7 DEF RunFails, Writes, TypeRuns, Held
  <2>2. Moved(r, "settle")
    BY <2>1, Moves, SlotFacts, Zenon DEF Released, Places
  <2>3. ~Held(r)' /\ OthersKept(r)
    BY <2>2 DEF Moved, Held, OthersKept
  <2>4. QED
    BY <2>1, <2>3, SlotFreed, Zenon DEF Released
<1>8. ASSUME NEW r \in Run, RunSettles(r) PROVE Admitted'
  <2>1. /\ \A s \in Run : s # r => run'[s] = run[s]
        /\ run'[r] = IdleRun
    BY <1>8 DEF RunSettles, TypeRuns
  <2>2. run[r].pc = "settle" /\ UNCHANGED <<runningTaskKeys, runningGlobalCount, runningCountByProject>>
    BY <1>8 DEF RunSettles, admission
  <2>3. ~Held(r) /\ ~Held(r)' /\ OthersKept(r)
    BY <2>1, <2>2, IdleRunTyped DEF Held, OthersKept
  <2>4. QED
    BY <2>2, <2>3, SlotsKept DEF OthersKept
<1>9. ASSUME Crash PROVE Admitted'
  <2>1. \A s \in Run : ~Held(s)'
    BY <1>9, IdleRunTyped DEF Crash, Held
  <2>2. HeldRuns' = {} /\ \A p \in Projects : HeldIn(p)' = {}
    BY <2>1 DEF HeldRuns, HeldIn
  <2>3. RunKeys'
    BY <1>9, <2>1, <2>2 DEF Crash, RunKeys
  <2>4. Cardinality({}) = 0
    BY FS_EmptySet
  <2>5. Counters' /\ TypeCounts'
    <3>1. runningGlobalCount' = 0 /\ runningCountByProject' = [p \in Projects |-> 0]
      BY <1>9 DEF Crash
    <3>2. 0 <= maxGlobalConcurrency /\ 0 <= maxProjectConcurrency
      BY LimitAssumption
    <3>3. QED
      BY <2>2, <2>4, <3>1, <3>2 DEF Counters, TypeCounts
  <2>6. QED
    BY <2>3, <2>5
<1>10. ASSUME NEW t \in Task, TimerFires(t)
      PROVE  Admitted'
  BY <1>1, <1>10 DEF TimerFires, admission
<1>11. ASSUME NEW a \in advance, Advanced(a)
      PROVE  Admitted'
  BY <1>1, <1>11 DEF Advanced, admission
<1>12. ASSUME PumpSkips \/ PumpEnds \/ Stop \/ Tick
      PROVE  Admitted'
  BY <1>1, <1>12 DEF PumpSkips, PumpEnds, Stop, Tick, admission
<1>13. ASSUME NEW r \in Run, RunSession(r)
      PROVE  Admitted'
  BY <1>1, <1>13 DEF RunSession, admission
<1>14. ASSUME NEW m \in Manual, NEW t \in Task, RunNow(m, t)
      PROVE  Admitted'
  BY <1>1, <1>14 DEF RunNow, admission
<1>15. ASSUME NEW y \in Sync, NEW p \in Projects, SyncBegins(y, p)
      PROVE  Admitted'
  BY <1>1, <1>15 DEF SyncBegins, admission
<1>16. ASSUME NEW y \in Sync, Start(y) \/ SyncLists(y) \/ SyncSets(y) \/ SyncSchedules(y) \/
              SyncFails(y) \/ SyncSnapshots(y) \/ SyncChecks(y) \/
              SyncInterrupts(y) \/ SyncEnds(y) \/ EditApplies(y)
      PROVE  Admitted'
  BY <1>1, <1>16, Zenon DEF Start, SyncLists, SyncSets, SyncSchedules, SyncFails, SyncSnapshots,
     SyncChecks, SyncInterrupts, SyncEnds, EditApplies, admission
<1>17. ASSUME NEW y \in Sync, NEW t \in Task, EditBegins(y, t)
      PROVE  Admitted'
  BY <1>1, <1>17 DEF EditBegins, admission
<1>18. CASE UNCHANGED vars
  BY <1>1, <1>18 DEF vars, config, scheduler, admission, thread, history
<1> HIDE DEF Admitted
<1>19. QED
  BY <1>2, <1>3, <1>4, <1>5, <1>6, <1>7, <1>8, <1>9, <1>10, <1>11, <1>12, <1>13, <1>14,
     <1>15, <1>16, <1>17, <1>18, Zenon DEF Next, Step, RunStep, SyncStep

(***************************************************************************)
(* Every step keeps the queued keys exact and apart from the running ones. *)
(***************************************************************************)
LEMMA QueueKeysStep ==
  ASSUME TypeQueue, TypeRuns, TypeSyncs, TypeThread, Pumping, Looping, QueueKeys, Apart,
         [Next]_vars
  PROVE  QueueKeys' /\ Apart'
<1> USE DEF Apart
<1>1. ASSUME UNCHANGED <<queue, queuedTaskKeys, runningTaskKeys>> PROVE QueueKeys' /\ Apart'
  BY <1>1 DEF QueueKeys
<1>2. ASSUME NEW t \in Task, TimerFires(t) PROVE QueueKeys' /\ Apart'
  <2>1. UNCHANGED <<queue, queuedTaskKeys>> \/ QueueTaskRun(t, "scheduled", None)
    BY <1>2 DEF TimerFires
  <2>2. UNCHANGED runningTaskKeys
    BY <1>2 DEF TimerFires
  <2>3. QED
    BY <2>1, <2>2, QueuedOnce DEF QueueKeys
<1>3. ASSUME NEW r \in Run, PumpStarts(r) PROVE QueueKeys' /\ Apart'
  <2>1. index \in 1..Len(queue)
    BY <1>3 DEF PumpStarts, TypeThread, Pumping, TypeQueue
  <2>2. queue' = Without(queue, index) /\ queuedTaskKeys' = queuedTaskKeys \ {queue[index].task}
    BY <1>3 DEF PumpStarts, Without
  <2>3. QueueKeys'
    BY <2>1, <2>2, TakenOut
  <2>4. runningTaskKeys' \subseteq runningTaskKeys \cup {queue[index].task}
    BY <1>3 DEF PumpStarts
  <2>5. QED
    BY <2>2, <2>3, <2>4
<1>4. ASSUME NEW r \in Run, RunFinishes(r) PROVE QueueKeys' /\ Apart'
  BY <1>4 DEF RunFinishes, Released, QueueKeys
<1>5. ASSUME NEW r \in Run, RunFails(r) PROVE QueueKeys' /\ Apart'
  BY <1>5 DEF RunFails, Released, QueueKeys
<1>6. ASSUME NEW m \in Manual, NEW t \in Task, RunNow(m, t) PROVE QueueKeys' /\ Apart'
  <2>1. UNCHANGED <<queue, queuedTaskKeys>> \/ QueueTaskRun(t, "manual", m)
    BY <1>6 DEF RunNow
  <2>2. UNCHANGED runningTaskKeys
    BY <1>6 DEF RunNow
  <2>3. QED
    BY <2>1, <2>2, QueuedOnce, Zenon DEF QueueKeys
<1>7. ASSUME Stop PROVE QueueKeys' /\ Apart'
  BY <1>7 DEF Stop, Stopped, QueueKeys
<1>8. ASSUME NEW y \in Sync, SyncFails(y) PROVE QueueKeys' /\ Apart'
  BY <1>8 DEF SyncFails, Stopped, QueueKeys
<1>9. ASSUME NEW y \in Sync, SyncChecks(y) PROVE QueueKeys' /\ Apart'
  <2>1. First(sync[y].todo) \in Task
    BY <1>9, FirstTask DEF SyncChecks, TypeSyncs, Syncs
  <2>2. UNCHANGED <<queue, queuedTaskKeys>> \/ QueueTaskRun(First(sync[y].todo), "scheduled", None)
    BY <1>9 DEF SyncChecks, CatchUp
  <2>3. UNCHANGED runningTaskKeys
    BY <1>9 DEF SyncChecks
  <2>4. QED
    BY <2>1, <2>2, <2>3, QueuedOnce, Zenon DEF QueueKeys
<1>10. ASSUME NEW y \in Sync, SyncInterrupts(y) PROVE QueueKeys' /\ Apart'
  <2>1. sync[y].cur \in Task
    BY <1>10 DEF SyncInterrupts, TypeSyncs
  <2>2. UNCHANGED <<queue, queuedTaskKeys>> \/ QueueTaskRun(sync[y].cur, "scheduled", None)
    BY <1>10 DEF SyncInterrupts, CatchUp
  <2>3. UNCHANGED runningTaskKeys
    BY <1>10 DEF SyncInterrupts
  <2>4. QED
    BY <2>1, <2>2, <2>3, QueuedOnce DEF QueueKeys
<1>11. ASSUME Crash PROVE QueueKeys' /\ Apart'
  BY <1>11 DEF Crash, QueueKeys
<1>12. ASSUME NEW a \in advance, Advanced(a)
      PROVE  QueueKeys' /\ Apart'
  BY <1>1, <1>12 DEF Advanced, admission
<1>13. ASSUME PumpSkips \/ PumpEnds \/ Tick
      PROVE  QueueKeys' /\ Apart'
  BY <1>1, <1>13 DEF PumpSkips, PumpEnds, Tick, admission
<1>14. ASSUME NEW r \in Run, RunBegins(r) \/ RunSession(r) \/ RunExecuted(r) \/ RunConsumes(r) \/
              RunSettles(r)
      PROVE  QueueKeys' /\ Apart'
  BY <1>1, <1>14, Zenon DEF RunBegins, RunSession, RunExecuted, RunConsumes, RunSettles, admission
<1>15. ASSUME NEW y \in Sync, NEW p \in Projects, SyncBegins(y, p)
      PROVE  QueueKeys' /\ Apart'
  BY <1>1, <1>15 DEF SyncBegins, admission
<1>16. ASSUME NEW y \in Sync, Start(y) \/ SyncLists(y) \/ SyncSets(y) \/ SyncSchedules(y) \/
              SyncSnapshots(y) \/ SyncEnds(y) \/ EditApplies(y)
      PROVE  QueueKeys' /\ Apart'
  BY <1>1, <1>16, Zenon DEF Start, SyncLists, SyncSets, SyncSchedules, SyncSnapshots, SyncEnds,
     EditApplies, admission
<1>17. ASSUME NEW y \in Sync, NEW t \in Task, EditBegins(y, t)
      PROVE  QueueKeys' /\ Apart'
  BY <1>1, <1>17 DEF EditBegins, admission
<1>18. CASE UNCHANGED vars
  BY <1>1, <1>18 DEF vars, config, scheduler, admission, thread, history
<1> HIDE DEF Apart
<1>19. QED
  BY <1>2, <1>3, <1>4, <1>5, <1>6, <1>7, <1>8, <1>9, <1>10, <1>11, <1>12, <1>13, <1>14,
     <1>15, <1>16, <1>17, <1>18, Zenon DEF Next, Step, RunStep, SyncStep

-----------------------------------------------------------------------------
(* The write locks as queues.                                              *)

\* x waits in s; w only behind x; x once.
In(s, x) == \E i \in 1..Len(s) : s[i] = x
Behind(s, x, w) == \A i, j \in 1..Len(s) : s[i] = w /\ s[j] = x => j < i
Single(s, x) == \A i, j \in 1..Len(s) : s[i] = x /\ s[j] = x => i = j

(***************************************************************************)
(* What joining a queue leaves of its order.                               *)
(***************************************************************************)
LEMMA WaitAppended ==
  ASSUME NEW S, NEW s \in Seq(S), NEW w \in S
  PROVE  /\ \A x : In(Append(s, w), x) <=> In(s, x) \/ x = w
         /\ \A x, v : Behind(s, x, v) /\ w # x => Behind(Append(s, w), x, v)
         /\ \A x : x # w /\ ~In(s, w) => Behind(Append(s, w), x, w)
         /\ \A x : Single(s, x) /\ (x # w \/ ~In(s, w)) => Single(Append(s, w), x)
<1> DEFINE a == Append(s, w)
<1>1. /\ Len(s) \in Nat /\ Len(a) = Len(s) + 1
      /\ \A i \in 1..Len(s) : a[i] = s[i]
      /\ a[Len(s) + 1] = w
  BY AppendProperties, LenProperties
<1> HIDE DEF a
<1>2. ASSUME NEW x PROVE In(a, x) <=> In(s, x) \/ x = w
  BY <1>1 DEF In
<1>3. ASSUME NEW x, NEW v, Behind(s, x, v), w # x PROVE Behind(a, x, v)
  BY <1>1, <1>3 DEF Behind
<1>4. ASSUME NEW x, x # w, ~In(s, w) PROVE Behind(a, x, w)
  BY <1>1, <1>4 DEF Behind, In
<1>5. ASSUME NEW x, Single(s, x), x # w \/ ~In(s, w) PROVE Single(a, x)
  BY <1>1, <1>5 DEF Single, In
<1>6. QED
  BY <1>2, <1>3, <1>4, <1>5 DEF a

(***************************************************************************)
(* What leaving the head of a queue leaves of its order.                   *)
(***************************************************************************)
LEMMA WaitPassed ==
  ASSUME NEW S, NEW s \in Seq(S), s # <<>>
  PROVE  /\ In(s, Head(s)) /\ Tail(s) \in Seq(S)
         /\ \A x : In(Tail(s), x) => In(s, x)
         /\ \A x : In(s, x) /\ x # Head(s) => In(Tail(s), x)
         /\ \A x, v : Behind(s, x, v) => Behind(Tail(s), x, v)
         /\ \A x : Single(s, x) => Single(Tail(s), x)
         /\ Single(s, Head(s)) => ~In(Tail(s), Head(s))
         /\ \A x : Behind(s, x, Head(s)) => ~In(s, x)
<1> DEFINE b == Tail(s)
<1>1. /\ Len(s) \in Nat \ {0} /\ b \in Seq(S) /\ Len(b) = Len(s) - 1
      /\ \A i \in 1..Len(s) - 1 : b[i] = s[i + 1]
      /\ Head(s) = s[1]
  <2>1. Len(s) \in Nat \ {0} /\ b \in Seq(S)
    BY EmptySeq, LenProperties, HeadTailProperties
  <2>2. QED
    BY <2>1, HeadTailProperties
<1> HIDE DEF b
<1>2. In(s, Head(s))
  BY <1>1 DEF In
<1>3. ASSUME NEW x, In(b, x) PROVE In(s, x)
  BY <1>1, <1>3 DEF In
<1>4. ASSUME NEW x, In(s, x), x # Head(s) PROVE In(b, x)
  <2>1. PICK i \in 1..Len(s) : s[i] = x
    BY <1>4 DEF In
  <2>2. i - 1 \in 1..Len(b) /\ b[i - 1] = x
    BY <1>1, <1>4, <2>1
  <2>3. QED
    BY <2>2 DEF In
<1>5. ASSUME NEW x, NEW v, Behind(s, x, v) PROVE Behind(b, x, v)
  <2>1. ASSUME NEW i \in 1..Len(b), NEW j \in 1..Len(b), b[i] = v, b[j] = x PROVE j < i
    <3>1. i + 1 \in 1..Len(s) /\ j + 1 \in 1..Len(s) /\ s[i + 1] = v /\ s[j + 1] = x
      BY <1>1, <2>1
    <3>2. j + 1 < i + 1
      BY <1>5, <3>1 DEF Behind
    <3>3. QED
      BY <1>1, <3>2
  <2>2. QED
    BY <2>1 DEF Behind
<1>6. ASSUME NEW x, Single(s, x) PROVE Single(b, x)
  <2>1. ASSUME NEW i \in 1..Len(b), NEW j \in 1..Len(b), b[i] = x, b[j] = x PROVE i = j
    <3>1. i + 1 \in 1..Len(s) /\ j + 1 \in 1..Len(s) /\ s[i + 1] = x /\ s[j + 1] = x
      BY <1>1, <2>1
    <3>2. i + 1 = j + 1
      BY <1>6, <3>1 DEF Single
    <3>3. QED
      BY <1>1, <3>2
  <2>2. QED
    BY <2>1 DEF Single
<1>7. ASSUME Single(s, Head(s)), In(b, Head(s)) PROVE FALSE
  <2>1. PICK i \in 1..Len(b) : b[i] = Head(s)
    BY <1>7 DEF In
  <2>2. i + 1 \in 1..Len(s) /\ 1 \in 1..Len(s) /\ s[i + 1] = Head(s) /\ s[1] = Head(s)
    BY <1>1, <2>1
  <2>3. i + 1 = 1
    BY <1>7, <2>2 DEF Single
  <2>4. QED
    BY <1>1, <2>3
<1>8. ASSUME NEW x, Behind(s, x, Head(s)), In(s, x) PROVE FALSE
  <2>1. PICK j \in 1..Len(s) : s[j] = x
    BY <1>8 DEF In
  <2>2. 1 \in 1..Len(s) /\ s[1] = Head(s)
    BY <1>1
  <2>3. j < 1
    BY <1>8, <2>1, <2>2 DEF Behind
  <2>4. QED
    BY <1>1, <2>1, <2>3
<1>9. QED
  BY <1>1, <1>2, <1>3, <1>4, <1>5, <1>6, <1>7, <1>8 DEF b

(***************************************************************************)
(* What the operations of withProjectWriteLock leave of the queues, for    *)
(* every project q; h is the one that has passed the lock on.              *)
(***************************************************************************)
LEMMA LockAsked ==
  ASSUME TypeLock, NEW p \in Projects, NEW w \in Writers, Asks(p, w), NEW q \in Projects
  PROVE  /\ \A x : In(lock'[q], x) <=> In(lock[q], x) \/ (q = p /\ x = w)
         /\ \A x, v : Behind(lock[q], x, v) /\ w # x => Behind(lock'[q], x, v)
         /\ \A x : q = p /\ x # w /\ ~In(lock[q], w) => Behind(lock'[q], x, w)
         /\ \A x : Single(lock[q], x) /\ (x # w \/ ~In(lock[q], w)) => Single(lock'[q], x)
<1>1. lock[q] \in Seq(Writers) /\ lock'[q] = IF q = p THEN Append(lock[q], w) ELSE lock[q]
  BY DEF TypeLock, Asks
<1>2. CASE q = p
  BY <1>1, <1>2, WaitAppended
<1>3. CASE q # p
  BY <1>1, <1>3
<1>4. QED
  BY <1>2, <1>3

(***************************************************************************)
(* The holder passes the lock on.                                          *)
(***************************************************************************)
LEMMA LockFreed ==
  ASSUME TypeLock, NEW p \in Projects, lock[p] # <<>>, Frees(p), NEW q \in Projects
  PROVE  /\ \A x : In(lock'[q], x) => In(lock[q], x)
         /\ \A x : In(lock[q], x) /\ x # Head(lock[p]) => In(lock'[q], x)
         /\ \A x, v : Behind(lock[q], x, v) => Behind(lock'[q], x, v)
         /\ \A x : Single(lock[q], x) => Single(lock'[q], x)
         /\ q = p /\ Single(lock[q], Head(lock[p])) => ~In(lock'[q], Head(lock[p]))
<1>1. lock[q] \in Seq(Writers) /\ lock'[q] = IF q = p THEN Tail(lock[q]) ELSE lock[q]
  BY DEF TypeLock, Frees
<1>2. CASE q = p
  BY <1>1, <1>2, WaitPassed
<1>3. CASE q # p
  BY <1>1, <1>3
<1>4. QED
  BY <1>2, <1>3

(***************************************************************************)
(* The holder passes the lock on and asks for it again.                    *)
(***************************************************************************)
LEMMA LockAgain ==
  ASSUME TypeLock, NEW p \in Projects, NEW w \in Writers, Holds(p, w), AsksAgain(p, w),
         NEW q \in Projects
  PROVE  /\ \A x : In(lock'[q], x) <=> In(lock[q], x)
         /\ \A x, v : Behind(lock[q], x, v) /\ w # x => Behind(lock'[q], x, v)
         /\ \A x : Single(lock[q], x) => Single(lock'[q], x)
<1>1. /\ lock[q] \in Seq(Writers)
      /\ lock'[q] = IF q = p THEN Append(Tail(lock[q]), w) ELSE lock[q]
      /\ lock[p] # <<>> /\ Head(lock[p]) = w
  BY DEF TypeLock, AsksAgain, Holds
<1>2. CASE q = p
  <2>1. /\ Tail(lock[q]) \in Seq(Writers) /\ In(lock[q], w)
        /\ \A x : In(Tail(lock[q]), x) => In(lock[q], x)
        /\ \A x : In(lock[q], x) /\ x # w => In(Tail(lock[q]), x)
        /\ \A x, v : Behind(lock[q], x, v) => Behind(Tail(lock[q]), x, v)
        /\ \A x : Single(lock[q], x) => Single(Tail(lock[q]), x)
        /\ Single(lock[q], w) => ~In(Tail(lock[q]), w)
    BY <1>1, <1>2, WaitPassed
  <2> DEFINE b == Tail(lock[q])
  <2> HIDE DEF b
  <2>2. b \in Seq(Writers) /\ lock'[q] = Append(b, w)
    BY <1>1, <1>2, <2>1 DEF b
  <2>3. /\ \A x : In(lock'[q], x) <=> In(b, x) \/ x = w
        /\ \A x, v : Behind(b, x, v) /\ w # x => Behind(lock'[q], x, v)
        /\ \A x : Single(b, x) /\ (x # w \/ ~In(b, w)) => Single(lock'[q], x)
    BY <2>2, WaitAppended
  <2>4. QED
    BY <2>1, <2>3 DEF b
<1>3. CASE q # p
  BY <1>1, <1>3
<1>4. QED
  BY <1>2, <1>3

(***************************************************************************)
(* A run waits for the lock of its project where it updates the            *)
(* configuration, and there once.                                          *)
(***************************************************************************)
Updating == {"begin", "consume", "finish"}
Locked ==
    \A p \in Projects, r \in Run :
        /\ In(lock[p], r) => run[r].pc \in Updating /\ p = ProjectOf(run[r].task)
        /\ Single(lock[p], r)

(***************************************************************************)
(* While a synchronisation waits to mark the run of a task as interrupted, *)
(* no run of that task gets past its first update.                         *)
(***************************************************************************)
Pending(y, r) ==
    run[r].pc = "begin" /\ Behind(lock[sync[y].project], y, r)
WaitsFirst(y) ==
    /\ In(lock[sync[y].project], y)
    /\ \A r \in Run : Held(r) /\ run[r].task = sync[y].cur => Pending(y, r)
Waiting == \A y \in Sync : sync[y].pc = "interrupt" => WaitsFirst(y)

(***************************************************************************)
(* A run is a writer and not a synchronisation.                            *)
(***************************************************************************)
LEMMA Kinds ==
  ASSUME NEW r \in Run
  PROVE  r \in Writers /\ r \notin Sync
BY WriterAssumption DEF Writers

(***************************************************************************)
(* The queues move by a writer that is not a run.                          *)
(***************************************************************************)
LEMMA LockedKept ==
  ASSUME TypeLock, Locked, UNCHANGED run, NEW p \in Projects, NEW w \in Writers, w \notin Run,
         \/ UNCHANGED lock
         \/ Asks(p, w)
         \/ Holds(p, w) /\ (Frees(p) \/ AsksAgain(p, w))
  PROVE  Locked'
<1>1. ASSUME NEW q \in Projects, NEW r \in Run
      PROVE  (In(lock'[q], r) => In(lock[q], r)) /\ (Single(lock[q], r) => Single(lock'[q], r))
  <2>1. w # r
    OBVIOUS
  <2>2. CASE UNCHANGED lock
    BY <2>2
  <2>3. CASE Asks(p, w)
    BY <2>1, <2>3, LockAsked
  <2>4. CASE Holds(p, w) /\ Frees(p)
    BY <2>4, LockFreed, Zenon DEF Holds
  <2>5. CASE Holds(p, w) /\ AsksAgain(p, w)
    BY <2>1, <2>5, LockAgain
  <2>6. QED
    BY <2>2, <2>3, <2>4, <2>5
<1>2. QED
  BY <1>1 DEF Locked

(***************************************************************************)
(* The run r, and no other, moves from the place b to the place c.         *)
(***************************************************************************)
LEMMA LockedRun ==
  ASSUME TypeLock, TypeRuns, Locked, NEW r \in Run, run[r].task \in Task,
         NEW c \in Places, Moved(r, c),
         \/ /\ run[r].pc \notin Updating /\ c \in Updating
            /\ Asks(ProjectOf(run[r].task), r)
         \/ /\ Holds(ProjectOf(run[r].task), r)
            /\ Frees(ProjectOf(run[r].task))
         \/ /\ Holds(ProjectOf(run[r].task), r) /\ c \in Updating
            /\ AsksAgain(ProjectOf(run[r].task), r)
  PROVE  Locked'
<1> DEFINE p == ProjectOf(run[r].task)
<1>1. p \in Projects /\ r \in Writers
  BY ProjectOfTask, Kinds
<1>2. \A s \in Run : /\ run'[s].task = run[s].task
                     /\ s # r => run'[s].pc = run[s].pc
  BY DEF Moved
<1>3. run'[r].pc = c
  BY DEF Moved
<1> HIDE DEF p
<1>4. CASE run[r].pc \notin Updating /\ c \in Updating /\ Asks(p, r)
  <2>1. \A q \in Projects : ~In(lock[q], r)
    BY <1>4 DEF Locked
  <2>2. ASSUME NEW q \in Projects, NEW s \in Run
        PROVE  /\ In(lock'[q], s) => run'[s].pc \in Updating /\ q = ProjectOf(run'[s].task)
               /\ Single(lock'[q], s)
    <3>1. /\ In(lock'[q], s) => In(lock[q], s) \/ (q = p /\ s = r)
          /\ Single(lock[q], s) => Single(lock'[q], s)
      BY <1>1, <1>4, <2>1, LockAsked
    <3>2. QED
      BY <1>2, <1>3, <1>4, <2>1, <3>1 DEF Locked, p
  <2>3. QED
    BY <2>2 DEF Locked
<1>5. CASE Holds(p, r) /\ Frees(p)
  <2>1. ASSUME NEW q \in Projects, NEW s \in Run
        PROVE  /\ In(lock'[q], s) => run'[s].pc \in Updating /\ q = ProjectOf(run'[s].task)
               /\ Single(lock'[q], s)
    <3>1. /\ In(lock'[q], s) => In(lock[q], s)
          /\ Single(lock[q], s) => Single(lock'[q], s)
          /\ q = p => ~In(lock'[q], r)
      BY <1>1, <1>5, LockFreed, Zenon DEF Holds, Locked
    <3>2. In(lock[q], r) => q = p
      BY DEF Locked, p
    <3>3. QED
      BY <1>2, <3>1, <3>2 DEF Locked
  <2>2. QED
    BY <2>1 DEF Locked
<1>6. CASE Holds(p, r) /\ c \in Updating /\ AsksAgain(p, r)
  <2>1. ASSUME NEW q \in Projects, NEW s \in Run
        PROVE  /\ In(lock'[q], s) => run'[s].pc \in Updating /\ q = ProjectOf(run'[s].task)
               /\ Single(lock'[q], s)
    <3>1. /\ In(lock'[q], s) => In(lock[q], s)
          /\ Single(lock[q], s) => Single(lock'[q], s)
      BY <1>1, <1>6, LockAgain
    <3>2. QED
      BY <1>2, <1>3, <1>6, <3>1 DEF Locked
  <2>2. QED
    BY <2>1 DEF Locked
<1>7. QED
  BY <1>4, <1>5, <1>6 DEF p

(***************************************************************************)
(* The queues move by a writer that does not wait to mark a run.           *)
(***************************************************************************)
LEMMA TurnedOnly ==
  ASSUME TypeSyncs, NEW y \in Sync, NEW list, NEW S, Turned(y, list, S)
  PROVE  sync'[y].pc = "schedule" /\ \A z \in Sync : z # y => sync'[z] = sync[z]
<1> DEFINE c == IF S = {} THEN None ELSE First(S)
           n == IF S = {} THEN None ELSE ComputeNextRunAt(First(S), list[First(S)])
<1>1. sync' = [sync EXCEPT ![y].pc = "schedule", ![y].seen = list, ![y].todo = S, ![y].cur = c,
                           ![y].next = n]
  BY Zenon DEF Turned
<1> HIDE DEF c, n
<1>2. QED
  BY <1>1 DEF TypeSyncs, Syncs

(***************************************************************************)
(* For one synchronisation that waits to mark a run.                       *)
(***************************************************************************)
LEMMA WaitingOne ==
  ASSUME TypeLock, TypeSyncs, Waiting, NEW p \in Projects, NEW w \in Writers,
         \/ UNCHANGED lock
         \/ Asks(p, w)
         \/ Holds(p, w) /\ (Frees(p) \/ AsksAgain(p, w)),
         NEW z \in Sync, sync[z].pc = "interrupt", w # z, sync'[z] = sync[z],
         \A r \in Run : Held(r)' /\ run'[r].task = sync[z].cur
             => Held(r) /\ run[r].task = run'[r].task /\ run[r].pc = run'[r].pc
  PROVE  WaitsFirst(z)'
<1> DEFINE q == sync[z].project
<1>1. q \in Projects
  BY DEF TypeSyncs
<1>2. /\ In(lock[q], z)
      /\ \A r \in Run : Held(r) /\ run[r].task = sync[z].cur
           => run[r].pc = "begin" /\ Behind(lock[q], z, r)
  BY DEF Waiting, WaitsFirst, Pending
<1> HIDE DEF q
<1>3. (In(lock[q], z) => In(lock'[q], z))
      /\ \A v : Behind(lock[q], z, v) => Behind(lock'[q], z, v)
  <2>1. CASE UNCHANGED lock
    BY <2>1
  <2>2. CASE Asks(p, w)
    BY <1>1, <2>2, LockAsked
  <2>3. CASE Holds(p, w) /\ Frees(p)
    BY <1>1, <2>3, LockFreed, Zenon DEF Holds
  <2>4. CASE Holds(p, w) /\ AsksAgain(p, w)
    BY <1>1, <2>4, LockAgain
  <2>5. QED
    BY <2>1, <2>2, <2>3, <2>4
<1>4. ASSUME NEW r \in Run, Held(r)', run'[r].task = sync'[z].cur
      PROVE  run'[r].pc = "begin" /\ Behind(lock'[q], z, r)
  BY <1>2, <1>3, <1>4
<1>5. QED
  BY <1>2, <1>3, <1>4 DEF WaitsFirst, Pending, q

(***************************************************************************)
(* For all of them.                                                        *)
(***************************************************************************)
LEMMA WaitingKept ==
  ASSUME TypeLock, TypeSyncs, Waiting, NEW p \in Projects, NEW w \in Writers,
         \/ UNCHANGED lock
         \/ Asks(p, w)
         \/ Holds(p, w) /\ (Frees(p) \/ AsksAgain(p, w)),
         \A z \in Sync : sync'[z].pc = "interrupt" => w # z /\ sync'[z] = sync[z],
         \A z \in Sync, r \in Run :
             sync'[z].pc = "interrupt" /\ Held(r)' /\ run'[r].task = sync[z].cur
                 => Held(r) /\ run[r].task = run'[r].task /\ run[r].pc = run'[r].pc
  PROVE  Waiting'
<1>1. ASSUME NEW z \in Sync, sync'[z].pc = "interrupt" PROVE WaitsFirst(z)'
  <2>1. sync[z].pc = "interrupt" /\ w # z /\ sync'[z] = sync[z]
    BY <1>1
  <2>2. \A r \in Run : Held(r)' /\ run'[r].task = sync[z].cur
             => Held(r) /\ run[r].task = run'[r].task /\ run[r].pc = run'[r].pc
    BY <1>1
  <2>3. QED
    BY <2>1, <2>2, WaitingOne
<1>2. QED
  BY <1>1 DEF Waiting

(***************************************************************************)
(* A run that holds the lock at its first update is not of a task that     *)
(* waits to be marked.                                                     *)
(***************************************************************************)
LEMMA HolderNotPending ==
  ASSUME TypeLock, TypeSyncs, Looping, Waiting, NEW r \in Run, run[r].task \in Task,
         Held(r), run[r].pc = "begin" => Holds(ProjectOf(run[r].task), r),
         NEW z \in Sync, sync[z].pc = "interrupt"
  PROVE  run[r].task # sync[z].cur
<1>1. SUFFICES ASSUME run[r].task = sync[z].cur PROVE FALSE
  OBVIOUS
<1>2. sync[z].project \in Projects /\ sync[z].cur \in sync[z].project
  BY DEF TypeSyncs, Looping
<1>3. sync[z].project = ProjectOf(run[r].task)
  BY <1>1, <1>2, ProjectOfTask
<1>4. In(lock[sync[z].project], z) /\ run[r].pc = "begin" /\ Behind(lock[sync[z].project], z, r)
  BY <1>1 DEF Waiting, WaitsFirst, Pending
<1>5. lock[sync[z].project] \in Seq(Writers) /\ lock[sync[z].project] # <<>>
      /\ Head(lock[sync[z].project]) = r
  BY <1>2, <1>3, <1>4 DEF Holds, TypeLock
<1>6. QED
  BY <1>4, <1>5, WaitPassed

(***************************************************************************)
(* Every step keeps the runs in the queues of the write locks where they   *)
(* belong.                                                                 *)
(***************************************************************************)
LEMMA LockedStep ==
  ASSUME TypeClock, TypeRecords, TypeTimers, TypeLock, TypeQueue, TypeRuns, TypeSyncs, TypeThread,
         Pumping, Locked, [Next]_vars
  PROVE  Locked'
<1> USE DEF TypeClock
<1>1. ASSUME UNCHANGED <<lock, run>> PROVE Locked'
  BY <1>1 DEF Locked
<1>2. ASSUME NEW t \in Task, TimerFires(t) PROVE Locked'
  <2>1. ProjectOf(t) \in Projects /\ <<t, ComputeNextRunAt(t, mem[t])>> \in Writers
        /\ <<t, ComputeNextRunAt(t, mem[t])>> \notin Run
    BY ProjectOfTask, NextIsSlot, TaskAssumption, WriterAssumption DEF Writers, Slots
  <2>2. UNCHANGED run
    BY <1>2 DEF TimerFires
  <2>3. UNCHANGED lock \/ Asks(ProjectOf(t), <<t, ComputeNextRunAt(t, mem[t])>>)
    BY <1>2 DEF TimerFires
  <2>4. QED
    BY <2>1, <2>2, <2>3, LockedKept
<1>3. ASSUME NEW a \in advance, Advanced(a) PROVE Locked'
  <2>1. a \in Task \X Slots
    BY <1>3 DEF TypeTimers
  <2>2. a[1] \in Task /\ a \in Writers /\ a \in Nat \X Slots
    BY <2>1, TaskAssumption, Zenon DEF Writers
  <2>3. ProjectOf(a[1]) \in Projects /\ a \in Writers /\ a \notin Run
    BY <2>2, ProjectOfTask, WriterAssumption DEF Slots
  <2>4. UNCHANGED run
    BY <1>3 DEF Advanced
  <2>5. QED
    BY <1>3, <2>3, <2>4, LockedKept DEF Advanced
<1>4. ASSUME NEW r \in Run, PumpStarts(r) PROVE Locked'
  <2> DEFINE t == queue[index].task
  <2>1. index \in 1..Len(queue) /\ queue[index] \in Items
    BY <1>4 DEF PumpStarts, TypeThread, Pumping, TypeQueue
  <2>2. t \in Task /\ ProjectOf(t) \in Projects /\ r \in Writers
    BY <2>1, ProjectOfTask, Kinds DEF Items
  <2>3. /\ \A s \in Run : s # r => run'[s] = run[s]
        /\ run'[r].task = t /\ run[r].pc = "idle"
    BY <1>4 DEF PumpStarts, TypeRuns, IdleRun
  <2>4. \/ UNCHANGED lock
        \/ Asks(ProjectOf(t), r) /\ run'[r].pc = "begin"
    BY <1>4 DEF PumpStarts, TypeRuns, IdleRun
  <2>5. \A q \in Projects : ~In(lock[q], r)
    BY <2>3 DEF Locked, Updating
  <2> HIDE DEF t
  <2>6. CASE UNCHANGED lock
    BY <2>3, <2>5, <2>6 DEF Locked
  <2>7. CASE Asks(ProjectOf(t), r) /\ run'[r].pc = "begin"
    <3>1. ASSUME NEW q \in Projects, NEW s \in Run
          PROVE  /\ In(lock'[q], s) => run'[s].pc \in Updating /\ q = ProjectOf(run'[s].task)
                 /\ Single(lock'[q], s)
      <4>1. /\ In(lock'[q], s) => In(lock[q], s) \/ (q = ProjectOf(t) /\ s = r)
            /\ Single(lock[q], s) => Single(lock'[q], s)
        BY <2>2, <2>5, <2>7, LockAsked
      <4>2. QED
        BY <2>3, <2>5, <2>7, <4>1 DEF Locked, Updating
    <3>2. QED
      BY <3>1 DEF Locked
  <2>8. QED
    BY <2>4, <2>6, <2>7
<1>5. ASSUME NEW r \in Run, RunBegins(r) PROVE Locked'
  <2>1. run[r].task \in Task /\ run[r].pc \in {"begin"}
    BY <1>5 DEF RunBegins, Writes, TypeRuns
  <2>2. PICK c \in {"execute"}, n \in Slots :
          run' = [run EXCEPT ![r].pc = c] \/ run' = [run EXCEPT ![r].pc = c, ![r].next = n]
    BY <1>5, NextIsSlot, SlotFacts DEF RunBegins, TypeClock, Released
  <2>3. Moved(r, c)
    BY <2>1, <2>2, Moves, Zenon DEF Places
  <2>4. Holds(ProjectOf(run[r].task), r) /\ Frees(ProjectOf(run[r].task))
    BY <1>5 DEF RunBegins, Writes
  <2>5. QED
    BY <2>1, <2>2, <2>3, <2>4, LockedRun DEF Places, Updating
<1>6. ASSUME NEW r \in Run, RunExecuted(r) PROVE Locked'
  <2>1. run[r].task \in Task /\ run[r].pc \in {"execute"}
    BY <1>6 DEF RunExecuted, Writes, TypeRuns
  <2>2. PICK c \in {"consume", "finish"} : Moved(r, c)
    BY <1>6, ExecutedMoves
  <2>3. Moved(r, c)
    BY <2>2
<2>4. Asks(ProjectOf(run[r].task), r)
    BY <1>6 DEF RunExecuted, Writes
  <2>5. QED
    BY <2>1, <2>2, <2>3, <2>4, LockedRun DEF Places, Updating
<1>7. ASSUME NEW r \in Run, RunConsumes(r) PROVE Locked'
  <2>1. run[r].task \in Task /\ run[r].pc \in {"consume"}
    BY <1>7 DEF RunConsumes, Writes, TypeRuns
  <2>2. PICK c \in {"finish"}, n \in Slots :
          run' = [run EXCEPT ![r].pc = c] \/ run' = [run EXCEPT ![r].pc = c, ![r].next = n]
    BY <1>7, NextIsSlot, SlotFacts, Zenon DEF RunConsumes, TypeClock, Released
  <2>3. Moved(r, c)
    BY <2>1, <2>2, Moves, Zenon DEF Places
  <2>4. Holds(ProjectOf(run[r].task), r) /\ AsksAgain(ProjectOf(run[r].task), r)
    BY <1>7 DEF RunConsumes, Writes
  <2>5. QED
    BY <2>1, <2>2, <2>3, <2>4, LockedRun DEF Places, Updating
<1>8. ASSUME NEW r \in Run, RunFinishes(r) PROVE Locked'
  <2>1. run[r].task \in Task /\ run[r].pc \in {"finish"}
    BY <1>8 DEF RunFinishes, Writes, TypeRuns
  <2>2. PICK c \in {"settle"}, n \in Slots :
          run' = [run EXCEPT ![r].pc = c] \/ run' = [run EXCEPT ![r].pc = c, ![r].next = n]
    BY <1>8, NextIsSlot, SlotFacts DEF RunFinishes, TypeClock, Released
  <2>3. Moved(r, c)
    BY <2>1, <2>2, Moves, Zenon DEF Places
  <2>4. Holds(ProjectOf(run[r].task), r) /\ Frees(ProjectOf(run[r].task))
    BY <1>8 DEF RunFinishes, Writes
  <2>5. QED
    BY <2>1, <2>2, <2>3, <2>4, LockedRun DEF Places, Updating
<1>9. ASSUME NEW r \in Run, RunFails(r) PROVE Locked'
  <2>1. run[r].task \in Task /\ run[r].pc \in {"begin", "finish"}
    BY <1>9 DEF RunFails, Writes, TypeRuns
  <2>2. PICK c \in {"settle"}, n \in Slots :
          run' = [run EXCEPT ![r].pc = c] \/ run' = [run EXCEPT ![r].pc = c, ![r].next = n]
    BY <1>9, NextIsSlot, SlotFacts DEF RunFails, TypeClock, Released
  <2>3. Moved(r, c)
    BY <2>1, <2>2, Moves, Zenon DEF Places
  <2>4. Holds(ProjectOf(run[r].task), r) /\ Frees(ProjectOf(run[r].task))
    BY <1>9 DEF RunFails, Writes
  <2>5. QED
    BY <2>1, <2>2, <2>3, <2>4, LockedRun DEF Places, Updating
<1>10. ASSUME NEW r \in Run, RunSettles(r) PROVE Locked'
  <2>1. /\ \A s \in Run : s # r => run'[s] = run[s]
        /\ run[r].pc = "settle" /\ UNCHANGED lock
    BY <1>10 DEF RunSettles, TypeRuns, config
  <2>2. \A q \in Projects : ~In(lock[q], r)
    BY <2>1 DEF Locked, Updating
  <2>3. QED
    BY <2>1, <2>2 DEF Locked
<1>11. ASSUME NEW y \in Sync, SyncLists(y) PROVE Locked'
  <2>1. sync[y].project \in Projects /\ y \in Writers /\ y \notin Run
    BY <1>11, WriterAssumption DEF SyncLists, TypeSyncs, Writers
  <2>2. UNCHANGED run
    BY <1>11 DEF SyncLists
  <2>3. QED
    BY <1>11, <2>1, <2>2, LockedKept DEF SyncLists
<1>12. ASSUME NEW y \in Sync, SyncSets(y) PROVE Locked'
  <2>1. sync[y].project \in Projects /\ y \in Writers /\ y \notin Run
    BY <1>12, WriterAssumption DEF SyncSets, TypeSyncs, Writers
  <2>2. UNCHANGED run
    BY <1>12 DEF SyncSets
  <2>3. QED
    BY <1>12, <2>1, <2>2, LockedKept DEF SyncSets
<1>13. ASSUME NEW y \in Sync, SyncSchedules(y) PROVE Locked'
  <2>1. sync[y].project \in Projects /\ y \in Writers /\ y \notin Run
    BY <1>13, WriterAssumption DEF SyncSchedules, TypeSyncs, Writers
  <2>2. UNCHANGED run
    BY <1>13 DEF SyncSchedules
  <2>3. QED
    BY <1>13, <2>1, <2>2, LockedKept DEF SyncSchedules
<1>14. ASSUME NEW y \in Sync, SyncFails(y) PROVE Locked'
  <2>1. sync[y].project \in Projects /\ y \in Writers /\ y \notin Run
    BY <1>14, WriterAssumption DEF SyncFails, TypeSyncs, Writers
  <2>2. UNCHANGED run
    BY <1>14 DEF SyncFails
  <2>3. QED
    BY <1>14, <2>1, <2>2, LockedKept DEF SyncFails
<1>15. ASSUME NEW y \in Sync, SyncChecks(y) PROVE Locked'
  <2>1. sync[y].project \in Projects /\ y \in Writers /\ y \notin Run
    BY <1>15, WriterAssumption DEF SyncChecks, TypeSyncs, Writers
  <2>2. UNCHANGED run
    BY <1>15 DEF SyncChecks
  <2>3. QED
    BY <1>15, <2>1, <2>2, LockedKept DEF SyncChecks
<1>16. ASSUME NEW y \in Sync, SyncInterrupts(y) PROVE Locked'
  <2>1. sync[y].project \in Projects /\ y \in Writers /\ y \notin Run
    BY <1>16, WriterAssumption DEF SyncInterrupts, TypeSyncs, Writers
  <2>2. UNCHANGED run
    BY <1>16 DEF SyncInterrupts
  <2>3. QED
    BY <1>16, <2>1, <2>2, LockedKept DEF SyncInterrupts
<1>17. ASSUME NEW y \in Sync, NEW t \in Task, EditBegins(y, t) PROVE Locked'
  <2>1. ProjectOf(t) \in Projects /\ y \in Writers /\ y \notin Run
    BY ProjectOfTask, WriterAssumption DEF Writers
  <2>2. UNCHANGED run
    BY <1>17 DEF EditBegins
  <2>3. QED
    BY <1>17, <2>1, <2>2, LockedKept DEF EditBegins
<1>18. ASSUME NEW y \in Sync, EditApplies(y) PROVE Locked'
  <2>1. sync[y].project \in Projects /\ y \in Writers /\ y \notin Run
    BY <1>18, WriterAssumption DEF EditApplies, TypeSyncs, Writers
  <2>2. UNCHANGED run
    BY <1>18 DEF EditApplies
  <2>3. QED
    BY <1>18, <2>1, <2>2, LockedKept DEF EditApplies
<1>19. ASSUME Crash PROVE Locked'
  <2>1. \A q \in Projects : lock'[q] = <<>>
    BY <1>19 DEF Crash
  <2>2. \A x : ~In(<<>>, x) /\ Single(<<>>, x)
    BY DEF In, Single
  <2>3. QED
    BY <2>1, <2>2 DEF Locked
<1>20. ASSUME PumpSkips \/ PumpEnds \/ Stop \/ Tick
      PROVE  Locked'
  BY <1>1, <1>20 DEF PumpSkips, PumpEnds, Stop, Tick, config
<1>21. ASSUME NEW r \in Run, RunSession(r)
      PROVE  Locked'
  BY <1>1, <1>21 DEF RunSession, config
<1>22. ASSUME NEW m \in Manual, NEW t \in Task, RunNow(m, t)
      PROVE  Locked'
  BY <1>1, <1>22 DEF RunNow, config
<1>23. ASSUME NEW y \in Sync, NEW p \in Projects, SyncBegins(y, p)
      PROVE  Locked'
  BY <1>1, <1>23 DEF SyncBegins, config
<1>24. ASSUME NEW y \in Sync, Start(y) \/ SyncSnapshots(y) \/ SyncEnds(y)
      PROVE  Locked'
  BY <1>1, <1>24, Zenon DEF Start, SyncSnapshots, SyncEnds, config
<1>25. CASE UNCHANGED vars
  BY <1>1, <1>25 DEF vars, config, scheduler, admission, thread, history
<1> HIDE DEF TypeClock
<1>26. QED
  BY <1>2, <1>3, <1>4, <1>5, <1>6, <1>7, <1>8, <1>9, <1>10, <1>11, <1>12, <1>13, <1>14,
     <1>15, <1>16, <1>17, <1>18, <1>19, <1>20, <1>21, <1>22, <1>23, <1>24, <1>25, Zenon DEF
     Next, Step, RunStep, SyncStep

(***************************************************************************)
(* Every step keeps the runs of a task behind the synchronisation that     *)
(* waits to mark it.                                                       *)
(***************************************************************************)
LEMMA WaitingStep ==
  ASSUME TypeClock, TypeRecords, TypeTimers, TypeLock, TypeQueue, TypeRuns, TypeSyncs, Looping,
         TypeThread, Pumping, RunKeys, Locked, Waiting, [Next]_vars
  PROVE  Waiting'
<1> USE DEF TypeClock
<1>1. ASSUME UNCHANGED <<lock, run, sync>> PROVE Waiting'
  BY <1>1 DEF Waiting, WaitsFirst, Pending, Held
<1>2. ASSUME NEW t \in Task, TimerFires(t) PROVE Waiting'
  <2>1. ProjectOf(t) \in Projects /\ <<t, ComputeNextRunAt(t, mem[t])>> \in Writers
        /\ <<t, ComputeNextRunAt(t, mem[t])>> \notin Sync
    BY ProjectOfTask, NextIsSlot, TaskAssumption, WriterAssumption DEF Writers, Slots
  <2>2. UNCHANGED <<run, sync>>
    BY <1>2 DEF TimerFires
  <2>3. UNCHANGED lock \/ Asks(ProjectOf(t), <<t, ComputeNextRunAt(t, mem[t])>>)
    BY <1>2 DEF TimerFires
  <2>4. QED
    BY <2>1, <2>2, <2>3, WaitingKept DEF Held
<1>3. ASSUME NEW a \in advance, Advanced(a) PROVE Waiting'
  <2>1. ProjectOf(a[1]) \in Projects /\ a \in Writers /\ a \notin Sync
    <3>1. a \in Task \X Slots
      BY <1>3 DEF TypeTimers
    <3>2. a \in Nat \X Slots
      BY <3>1, TaskAssumption, Zenon
    <3>3. a \notin Sync
      BY <3>2, WriterAssumption DEF Slots
    <3>4. QED
      BY <3>1, <3>3, ProjectOfTask DEF Writers
  <2>2. UNCHANGED <<run, sync>>
    BY <1>3 DEF Advanced
  <2>3. Holds(ProjectOf(a[1]), a) /\ Frees(ProjectOf(a[1]))
    BY <1>3 DEF Advanced
  <2>4. QED
    BY <2>1, <2>2, <2>3, WaitingKept DEF Held
<1>4. ASSUME NEW r \in Run, PumpStarts(r) PROVE Waiting'
  <2> DEFINE t == queue[index].task
  <2>1. index \in 1..Len(queue) /\ queue[index] \in Items
    BY <1>4, SMTT(30) DEF PumpStarts, TypeThread, Pumping, TypeQueue
  <2>2. t \in Task /\ ProjectOf(t) \in Projects /\ r \in Writers /\ r \notin Sync
    BY <2>1, ProjectOfTask, Kinds DEF Items
  <2>3. /\ \A s \in Run : s # r => run'[s] = run[s]
        /\ run'[r].task = t /\ run[r].pc = "idle" /\ UNCHANGED sync
    BY <1>4 DEF PumpStarts, TypeRuns, IdleRun
  <2>4. \/ UNCHANGED lock /\ run'[r].pc = "settle"
        \/ Asks(ProjectOf(t), r) /\ run'[r].pc = "begin"
    BY <1>4, Zenon DEF PumpStarts, TypeRuns, IdleRun
  <2>5. \A q \in Projects : ~In(lock[q], r)
    BY <2>3 DEF Locked, Updating
  <2> HIDE DEF t
  <2>6. CASE UNCHANGED lock /\ run'[r].pc = "settle"
    <3>1. \A s \in Run : Held(s)' => s # r
      BY <2>6 DEF Held
    <3>2. \A s \in Run : Held(s)' => Held(s) /\ run'[s] = run[s]
      BY <2>3, <3>1 DEF Held
    <3>3. QED
      BY <2>2, <2>3, <2>6, <3>2, WaitingKept
  <2>7. CASE Asks(ProjectOf(t), r) /\ run'[r].pc = "begin"
    <3>1. ASSUME NEW z \in Sync, sync[z].pc = "interrupt" PROVE WaitsFirst(z)'
      <4> DEFINE q == sync[z].project
      <4>1. q \in Projects /\ sync[z].cur \in q /\ r # z
        BY <2>2, <3>1 DEF TypeSyncs, Looping
      <4>2. In(lock[q], z)
            /\ \A s \in Run : Held(s) /\ run[s].task = sync[z].cur
                  => run[s].pc = "begin" /\ Behind(lock[q], z, s)
        BY <3>1 DEF Waiting, WaitsFirst, Pending
      <4> HIDE DEF q
      <4>3. /\ In(lock'[q], z)
            /\ \A v : Behind(lock[q], z, v) => Behind(lock'[q], z, v)
            /\ q = ProjectOf(t) => Behind(lock'[q], z, r)
        BY <2>2, <2>5, <2>7, <4>1, <4>2, LockAsked
      <4>4. ASSUME NEW s \in Run, Held(s)', run'[s].task = sync[z].cur
            PROVE  run'[s].pc = "begin" /\ Behind(lock'[q], z, s)
        <5>1. CASE s # r
          BY <2>3, <4>2, <4>3, <4>4, <5>1 DEF Held
        <5>2. CASE s = r
          <6>1. q = ProjectOf(t)
            BY <2>2, <2>3, <4>1, <4>4, <5>2, ProjectOfTask
          <6>2. QED
            BY <2>7, <4>3, <5>2, <6>1
        <5>3. QED
          BY <5>1, <5>2
      <4>5. QED
        BY <2>3, <4>3, <4>4 DEF WaitsFirst, Pending, q
    <3>2. QED
      BY <2>3, <3>1 DEF Waiting
  <2>8. QED
    BY <2>4, <2>6, <2>7
<1>5. ASSUME NEW r \in Run, RunBegins(r) PROVE Waiting'
  <2>1. run[r].task \in Task /\ run[r].pc \in {"begin"} /\ Held(r) /\ r \in Writers
        /\ ProjectOf(run[r].task) \in Projects
    BY <1>5, Kinds, ProjectOfTask DEF RunBegins, Writes, TypeRuns, Held
  <2>2. PICK c \in {"execute"}, n \in Slots :
          run' = [run EXCEPT ![r].pc = c] \/ run' = [run EXCEPT ![r].pc = c, ![r].next = n]
    BY <1>5, NextIsSlot, SlotFacts DEF RunBegins, TypeClock, Released
  <2>3. Moved(r, c) /\ UNCHANGED sync
    BY <1>5, <2>1, <2>2, Moves, Zenon DEF Places, RunBegins
  <2>4. Holds(ProjectOf(run[r].task), r) /\ Frees(ProjectOf(run[r].task))
    BY <1>5 DEF RunBegins, Writes
  <2>5. \A z \in Sync : sync[z].pc = "interrupt" => run[r].task # sync[z].cur /\ r # z
    BY <2>1, <2>4, HolderNotPending, Kinds
  <2>6. \A z \in Sync, s \in Run :
             sync'[z].pc = "interrupt" /\ Held(s)' /\ run'[s].task = sync[z].cur
                 => Held(s) /\ run[s].task = run'[s].task /\ run[s].pc = run'[s].pc
    BY <2>3, <2>5 DEF Moved, Held
  <2>7. QED
    BY <2>1, <2>3, <2>4, <2>5, <2>6, WaitingKept
<1>6. ASSUME NEW r \in Run, RunExecuted(r) PROVE Waiting'
  <2>1. run[r].task \in Task /\ run[r].pc \in {"execute"} /\ Held(r) /\ r \in Writers
        /\ ProjectOf(run[r].task) \in Projects
    BY <1>6, Kinds, ProjectOfTask DEF RunExecuted, Writes, TypeRuns, Held
  <2>2. PICK c \in {"consume", "finish"} : Moved(r, c)
    BY <1>6, ExecutedMoves
  <2>3. Moved(r, c) /\ UNCHANGED sync
    BY <1>6, <2>2 DEF RunExecuted
<2>4. Asks(ProjectOf(run[r].task), r) /\ run[r].pc # "begin"
    BY <1>6 DEF RunExecuted, Writes
  <2>5. \A z \in Sync : sync[z].pc = "interrupt" => run[r].task # sync[z].cur /\ r # z
    BY <2>1, <2>4, HolderNotPending, Kinds
  <2>6. \A z \in Sync, s \in Run :
             sync'[z].pc = "interrupt" /\ Held(s)' /\ run'[s].task = sync[z].cur
                 => Held(s) /\ run[s].task = run'[s].task /\ run[s].pc = run'[s].pc
    BY <2>3, <2>5 DEF Moved, Held
  <2>7. QED
    BY <2>1, <2>3, <2>4, <2>5, <2>6, WaitingKept
<1>7. ASSUME NEW r \in Run, RunConsumes(r) PROVE Waiting'
  <2>1. run[r].task \in Task /\ run[r].pc \in {"consume"} /\ Held(r) /\ r \in Writers
        /\ ProjectOf(run[r].task) \in Projects
    BY <1>7, Kinds, ProjectOfTask DEF RunConsumes, Writes, TypeRuns, Held
  <2>2. PICK c \in {"finish"}, n \in Slots :
          run' = [run EXCEPT ![r].pc = c] \/ run' = [run EXCEPT ![r].pc = c, ![r].next = n]
    BY <1>7, NextIsSlot, SlotFacts, Zenon DEF RunConsumes, TypeClock, Released
  <2>3. Moved(r, c) /\ UNCHANGED sync
    BY <1>7, <2>1, <2>2, Moves, Zenon DEF Places, RunConsumes
  <2>4. Holds(ProjectOf(run[r].task), r) /\ AsksAgain(ProjectOf(run[r].task), r)
    BY <1>7 DEF RunConsumes, Writes
  <2>5. \A z \in Sync : sync[z].pc = "interrupt" => run[r].task # sync[z].cur /\ r # z
    BY <2>1, <2>4, HolderNotPending, Kinds
  <2>6. \A z \in Sync, s \in Run :
             sync'[z].pc = "interrupt" /\ Held(s)' /\ run'[s].task = sync[z].cur
                 => Held(s) /\ run[s].task = run'[s].task /\ run[s].pc = run'[s].pc
    BY <2>3, <2>5 DEF Moved, Held
  <2>7. QED
    BY <2>1, <2>3, <2>4, <2>5, <2>6, WaitingKept
<1>8. ASSUME NEW r \in Run, RunFinishes(r) PROVE Waiting'
  <2>1. run[r].task \in Task /\ run[r].pc \in {"finish"} /\ Held(r) /\ r \in Writers
        /\ ProjectOf(run[r].task) \in Projects
    BY <1>8, Kinds, ProjectOfTask DEF RunFinishes, Writes, TypeRuns, Held
  <2>2. PICK c \in {"settle"}, n \in Slots :
          run' = [run EXCEPT ![r].pc = c] \/ run' = [run EXCEPT ![r].pc = c, ![r].next = n]
    BY <1>8, NextIsSlot, SlotFacts DEF RunFinishes, TypeClock, Released
  <2>3. Moved(r, c) /\ UNCHANGED sync
    BY <1>8, <2>1, <2>2, Moves, Zenon DEF Places, RunFinishes
  <2>4. Holds(ProjectOf(run[r].task), r) /\ Frees(ProjectOf(run[r].task))
    BY <1>8 DEF RunFinishes, Writes
  <2>5. \A z \in Sync : sync[z].pc = "interrupt" => run[r].task # sync[z].cur /\ r # z
    BY <2>1, <2>4, HolderNotPending, Kinds
  <2>6. \A z \in Sync, s \in Run :
             sync'[z].pc = "interrupt" /\ Held(s)' /\ run'[s].task = sync[z].cur
                 => Held(s) /\ run[s].task = run'[s].task /\ run[s].pc = run'[s].pc
    BY <2>3, <2>5 DEF Moved, Held
  <2>7. QED
    BY <2>1, <2>3, <2>4, <2>5, <2>6, WaitingKept
<1>9. ASSUME NEW r \in Run, RunFails(r) PROVE Waiting'
  <2>1. run[r].task \in Task /\ run[r].pc \in {"begin", "finish"} /\ Held(r) /\ r \in Writers
        /\ ProjectOf(run[r].task) \in Projects
    BY <1>9, Kinds, ProjectOfTask DEF RunFails, Writes, TypeRuns, Held
  <2>2. PICK c \in {"settle"}, n \in Slots :
          run' = [run EXCEPT ![r].pc = c] \/ run' = [run EXCEPT ![r].pc = c, ![r].next = n]
    BY <1>9, NextIsSlot, SlotFacts DEF RunFails, TypeClock, Released
  <2>3. Moved(r, c) /\ UNCHANGED sync
    BY <1>9, <2>1, <2>2, Moves, Zenon DEF Places, RunFails
  <2>4. Holds(ProjectOf(run[r].task), r) /\ Frees(ProjectOf(run[r].task))
    BY <1>9 DEF RunFails, Writes
  <2>5. \A z \in Sync : sync[z].pc = "interrupt" => run[r].task # sync[z].cur /\ r # z
    BY <2>1, <2>4, HolderNotPending, Kinds
  <2>6. \A z \in Sync, s \in Run :
             sync'[z].pc = "interrupt" /\ Held(s)' /\ run'[s].task = sync[z].cur
                 => Held(s) /\ run[s].task = run'[s].task /\ run[s].pc = run'[s].pc
    BY <2>3, <2>5 DEF Moved, Held
  <2>7. QED
    BY <2>1, <2>3, <2>4, <2>5, <2>6, WaitingKept
<1>10. ASSUME NEW r \in Run, RunSettles(r) PROVE Waiting'
  <2>1. /\ \A s \in Run : s # r => run'[s] = run[s]
        /\ run'[r] = IdleRun /\ UNCHANGED <<lock, sync>>
    BY <1>10 DEF RunSettles, TypeRuns, config
  <2>2. \A s \in Run : Held(s)' => Held(s) /\ run'[s] = run[s]
    BY <2>1, IdleRunTyped DEF Held
  <2>3. QED
    BY <2>1, <2>2 DEF Waiting, WaitsFirst, Pending
<1>11. ASSUME NEW y \in Sync, NEW p \in Projects, SyncBegins(y, p) PROVE Waiting'
  <2>1. p \in Projects /\ y \in Writers
    BY <1>11 DEF SyncBegins, TypeSyncs, Writers
  <2>2. UNCHANGED run
    BY <1>11 DEF SyncBegins
  <2>3. sync'[y].pc # "interrupt" /\ \A z \in Sync : z # y => sync'[z] = sync[z]
    BY <1>11 DEF SyncBegins, TypeSyncs, Syncs, Called, IdleSync
  <2>4. \/ UNCHANGED lock
        \/ Asks(p, y)
        \/ Holds(p, y) /\ (Frees(p) \/ AsksAgain(p, y))
    BY <1>11 DEF SyncBegins, config
  <2>5. QED
    BY <2>1, <2>2, <2>3, <2>4, WaitingKept DEF Held
<1>12. ASSUME NEW y \in Sync, Start(y) PROVE Waiting'
  <2>1. FirstProject(Projects) \in Projects /\ y \in Writers
    BY <1>12, FirstOfProjects, ProjectsAssumption DEF Start, TypeSyncs, Writers
  <2>2. UNCHANGED run
    BY <1>12 DEF Start
  <2>3. sync'[y].pc # "interrupt" /\ \A z \in Sync : z # y => sync'[z] = sync[z]
    BY <1>12 DEF Start, TypeSyncs, Syncs, Called, IdleSync
  <2>4. \/ UNCHANGED lock
        \/ Asks(FirstProject(Projects), y)
        \/ Holds(FirstProject(Projects), y) /\ (Frees(FirstProject(Projects)) \/ AsksAgain(FirstProject(Projects), y))
    BY <1>12 DEF Start, config
  <2>5. QED
    BY <2>1, <2>2, <2>3, <2>4, WaitingKept DEF Held
<1>13. ASSUME NEW y \in Sync, SyncLists(y) PROVE Waiting'
  <2>1. sync[y].project \in Projects /\ y \in Writers
    BY <1>13 DEF SyncLists, TypeSyncs, Writers
  <2>2. UNCHANGED run
    BY <1>13 DEF SyncLists
  <2>3. sync'[y].pc # "interrupt" /\ \A z \in Sync : z # y => sync'[z] = sync[z]
    BY <1>13 DEF SyncLists, TypeSyncs, Syncs
  <2>4. \/ UNCHANGED lock
        \/ Asks(sync[y].project, y)
        \/ Holds(sync[y].project, y) /\ (Frees(sync[y].project) \/ AsksAgain(sync[y].project, y))
    BY <1>13 DEF SyncLists, config
  <2>5. QED
    BY <2>1, <2>2, <2>3, <2>4, WaitingKept DEF Held
<1>14. ASSUME NEW y \in Sync, SyncSets(y) PROVE Waiting'
  <2>1. sync[y].project \in Projects /\ y \in Writers
    BY <1>14 DEF SyncSets, TypeSyncs, Writers
  <2>2. UNCHANGED run
    BY <1>14 DEF SyncSets
  <2>3. sync'[y].pc # "interrupt" /\ \A z \in Sync : z # y => sync'[z] = sync[z]
    <3>1. PICK list, S : Turned(y, list, S)
      BY <1>14 DEF SyncSets
    <3>2. QED
      BY <3>1, TurnedOnly
  <2>4. \/ UNCHANGED lock
        \/ Asks(sync[y].project, y)
        \/ Holds(sync[y].project, y) /\ (Frees(sync[y].project) \/ AsksAgain(sync[y].project, y))
    BY <1>14 DEF SyncSets, config
  <2>5. QED
    BY <2>1, <2>2, <2>3, <2>4, WaitingKept DEF Held
<1>15. ASSUME NEW y \in Sync, SyncSchedules(y) PROVE Waiting'
  <2>1. sync[y].project \in Projects /\ y \in Writers
    BY <1>15 DEF SyncSchedules, TypeSyncs, Writers
  <2>2. UNCHANGED run
    BY <1>15 DEF SyncSchedules
  <2>3. sync'[y].pc # "interrupt" /\ \A z \in Sync : z # y => sync'[z] = sync[z]
    <3>1. PICK list, S : Turned(y, list, S)
      BY <1>15 DEF SyncSchedules
    <3>2. QED
      BY <3>1, TurnedOnly
  <2>4. \/ UNCHANGED lock
        \/ Asks(sync[y].project, y)
        \/ Holds(sync[y].project, y) /\ (Frees(sync[y].project) \/ AsksAgain(sync[y].project, y))
    BY <1>15 DEF SyncSchedules, config
  <2>5. QED
    BY <2>1, <2>2, <2>3, <2>4, WaitingKept DEF Held
<1>16. ASSUME NEW y \in Sync, SyncFails(y) PROVE Waiting'
  <2>1. sync[y].project \in Projects /\ y \in Writers
    BY <1>16 DEF SyncFails, TypeSyncs, Writers
  <2>2. UNCHANGED run
    BY <1>16 DEF SyncFails
  <2>3. sync'[y].pc # "interrupt" /\ \A z \in Sync : z # y => sync'[z] = sync[z]
    BY <1>16 DEF SyncFails, TypeSyncs, Syncs, IdleSync
  <2>4. \/ UNCHANGED lock
        \/ Asks(sync[y].project, y)
        \/ Holds(sync[y].project, y) /\ (Frees(sync[y].project) \/ AsksAgain(sync[y].project, y))
    BY <1>16 DEF SyncFails, config
  <2>5. QED
    BY <2>1, <2>2, <2>3, <2>4, WaitingKept DEF Held
<1>17. ASSUME NEW y \in Sync, SyncSnapshots(y) PROVE Waiting'
  <2>1. sync[y].project \in Projects /\ y \in Writers
    BY <1>17 DEF SyncSnapshots, TypeSyncs, Writers
  <2>2. UNCHANGED run
    BY <1>17 DEF SyncSnapshots
  <2>3. sync'[y].pc # "interrupt" /\ \A z \in Sync : z # y => sync'[z] = sync[z]
    BY <1>17 DEF SyncSnapshots, TypeSyncs, Syncs
  <2>4. \/ UNCHANGED lock
        \/ Asks(sync[y].project, y)
        \/ Holds(sync[y].project, y) /\ (Frees(sync[y].project) \/ AsksAgain(sync[y].project, y))
    BY <1>17 DEF SyncSnapshots, config
  <2>5. QED
    BY <2>1, <2>2, <2>3, <2>4, WaitingKept DEF Held
<1>18. ASSUME NEW y \in Sync, SyncChecks(y) PROVE Waiting'
  <2> DEFINE t == First(sync[y].todo)
  <2>1. sync[y].project \in Projects /\ y \in Writers /\ sync[y].pc = "reconcile"
    BY <1>18 DEF SyncChecks, TypeSyncs, Writers
  <2>2. UNCHANGED run /\ \A z \in Sync : z # y => sync'[z] = sync[z]
    BY <1>18 DEF SyncChecks, TypeSyncs
  <2>3. \/ /\ sync'[y].pc = "interrupt" /\ sync'[y].cur = t /\ sync'[y].project = sync[y].project
           /\ Asks(sync[y].project, y) /\ t \notin runningTaskKeys
        \/ sync'[y].pc = "reconcile" /\ UNCHANGED lock
    BY <1>18 DEF SyncChecks, TypeSyncs, Syncs, InFlight
  <2> HIDE DEF t
  <2>4. CASE sync'[y].pc = "reconcile" /\ UNCHANGED lock
    BY <2>1, <2>2, <2>4, WaitingKept DEF Held
  <2>5. CASE /\ sync'[y].pc = "interrupt" /\ sync'[y].cur = t /\ sync'[y].project = sync[y].project
             /\ Asks(sync[y].project, y) /\ t \notin runningTaskKeys
    <3>1. In(lock'[sync[y].project], y)
      BY <2>1, <2>5, LockAsked, SMTT(30)
    <3>2. \A r \in Run : Held(r) => run[r].task # t
      BY <2>5 DEF RunKeys, HeldRuns
    <3>3. WaitsFirst(y)'
      BY <2>2, <2>5, <3>1, <3>2 DEF WaitsFirst, Held
    <3>4. ASSUME NEW z \in Sync, z # y, sync'[z].pc = "interrupt" PROVE WaitsFirst(z)'
      <4>1. sync'[z] = sync[z] /\ sync[z].pc = "interrupt"
        BY <2>2, <3>4
      <4>2. \A r \in Run : Held(r)' => Held(r) /\ run'[r] = run[r]
        BY <2>2 DEF Held
      <4>3. QED
        BY <2>1, <2>5, <3>4, <4>1, <4>2, WaitingOne
    <3>5. QED
      BY <3>3, <3>4 DEF Waiting
  <2>6. QED
    BY <2>3, <2>4, <2>5
<1>19. ASSUME NEW y \in Sync, SyncInterrupts(y) PROVE Waiting'
  <2>1. sync[y].project \in Projects /\ y \in Writers
    BY <1>19 DEF SyncInterrupts, TypeSyncs, Writers
  <2>2. UNCHANGED run
    BY <1>19 DEF SyncInterrupts
  <2>3. sync'[y].pc # "interrupt" /\ \A z \in Sync : z # y => sync'[z] = sync[z]
    BY <1>19 DEF SyncInterrupts, TypeSyncs, Syncs
  <2>4. \/ UNCHANGED lock
        \/ Asks(sync[y].project, y)
        \/ Holds(sync[y].project, y) /\ (Frees(sync[y].project) \/ AsksAgain(sync[y].project, y))
    BY <1>19 DEF SyncInterrupts, config
  <2>5. QED
    BY <2>1, <2>2, <2>3, <2>4, WaitingKept DEF Held
<1>20. ASSUME NEW y \in Sync, SyncEnds(y) PROVE Waiting'
  <2>1. sync[y].project \in Projects /\ y \in Writers
    BY <1>20 DEF SyncEnds, TypeSyncs, Writers
  <2>2. UNCHANGED run
    BY <1>20 DEF SyncEnds
  <2>3. sync'[y].pc # "interrupt" /\ \A z \in Sync : z # y => sync'[z] = sync[z]
    <3>1. CASE sync' = [sync EXCEPT ![y] = IdleSync]
      BY <3>1 DEF TypeSyncs, IdleSync
    <3>2. CASE \E p, left, start : Called(y, p, left, start)
      BY <3>2 DEF TypeSyncs, Called, IdleSync
    <3>3. QED
      BY <1>20, <3>1, <3>2 DEF SyncEnds
  <2>4. \/ UNCHANGED lock
        \/ Asks(sync[y].project, y)
        \/ Holds(sync[y].project, y) /\ (Frees(sync[y].project) \/ AsksAgain(sync[y].project, y))
    BY <1>20 DEF SyncEnds, config
  <2>5. QED
    BY <2>1, <2>2, <2>3, <2>4, WaitingKept DEF Held
<1>21. ASSUME NEW y \in Sync, NEW t \in Task, EditBegins(y, t) PROVE Waiting'
  <2>1. ProjectOf(t) \in Projects /\ y \in Writers
    BY <1>21, ProjectOfTask DEF EditBegins, TypeSyncs, Writers
  <2>2. UNCHANGED run
    BY <1>21 DEF EditBegins
  <2>3. sync'[y].pc # "interrupt" /\ \A z \in Sync : z # y => sync'[z] = sync[z]
    BY <1>21 DEF EditBegins, TypeSyncs, Syncs, IdleSync
  <2>4. \/ UNCHANGED lock
        \/ Asks(ProjectOf(t), y)
        \/ Holds(ProjectOf(t), y) /\ (Frees(ProjectOf(t)) \/ AsksAgain(ProjectOf(t), y))
    BY <1>21 DEF EditBegins, config
  <2>5. QED
    BY <2>1, <2>2, <2>3, <2>4, WaitingKept DEF Held
<1>22. ASSUME NEW y \in Sync, EditApplies(y) PROVE Waiting'
  <2>1. sync[y].project \in Projects /\ y \in Writers
    BY <1>22 DEF EditApplies, TypeSyncs, Writers
  <2>2. UNCHANGED run
    BY <1>22 DEF EditApplies
  <2>3. sync'[y].pc # "interrupt" /\ \A z \in Sync : z # y => sync'[z] = sync[z]
    BY <1>22 DEF EditApplies, TypeSyncs, Syncs, Called, IdleSync
  <2>4. \/ UNCHANGED lock
        \/ Asks(sync[y].project, y)
        \/ Holds(sync[y].project, y) /\ (Frees(sync[y].project) \/ AsksAgain(sync[y].project, y))
    BY <1>22 DEF EditApplies, config
  <2>5. QED
    BY <2>1, <2>2, <2>3, <2>4, WaitingKept DEF Held
<1>23. ASSUME Crash PROVE Waiting'
  BY <1>23 DEF Crash, IdleSync, Waiting
<1>24. ASSUME PumpSkips \/ PumpEnds \/ Stop \/ Tick
      PROVE  Waiting'
  BY <1>1, <1>24 DEF PumpSkips, PumpEnds, Stop, Tick, config
<1>25. ASSUME NEW r \in Run, RunSession(r)
      PROVE  Waiting'
  BY <1>1, <1>25 DEF RunSession, config
<1>26. ASSUME NEW m \in Manual, NEW t \in Task, RunNow(m, t)
      PROVE  Waiting'
  BY <1>1, <1>26 DEF RunNow, config
<1>27. CASE UNCHANGED vars
  BY <1>1, <1>27 DEF vars, config, scheduler, admission, thread, history
<1> HIDE DEF TypeClock
<1>28. QED
  BY <1>2, <1>3, <1>4, <1>5, <1>6, <1>7, <1>8, <1>9, <1>10, <1>11, <1>12, <1>13, <1>14,
     <1>15, <1>16, <1>17, <1>18, <1>19, <1>20, <1>21, <1>22, <1>23, <1>24, <1>25, <1>26,
     <1>27, Zenon DEF Next, Step, RunStep, SyncStep

-----------------------------------------------------------------------------
(* A run under way is never marked.                                        *)

\* What LiveRunKept says of a step.
MarksNoLiveRun ==
    \A t \in Task :
        store[t].present /\ store[t].status # "interrupted" /\ store'[t].status = "interrupted" =>
            \A r \in Run : run[r].task = t => run[r].pc \notin {"execute", "consume", "finish"}

(***************************************************************************)
(* syncTaskSchedule leaves the status alone.                               *)
(***************************************************************************)
LEMMA ScheduleMarksNothing ==
  ASSUME TypeRecords, NEW t \in Task, NEW n, SyncTaskSchedule(t, n)
  PROVE  \A u \in Task : store'[u].status = store[u].status
<1>1. store[t] \in Records
  BY DEF TypeRecords
<1>2. [store[t] EXCEPT !.next = n].status = store[t].status
  BY <1>1 DEF Records
<1>3. QED
  BY <1>2 DEF SyncTaskSchedule, Patched, TypeRecords

(***************************************************************************)
(* updateScheduledTaskState changes one record at most.                    *)
(***************************************************************************)
LEMMA PatchMarks ==
  ASSUME TypeRecords, NEW t \in Task, NEW rec, store' = Patched(t, rec)
  PROVE  \A u \in Task : store'[u] = store[u] \/ (u = t /\ store'[u] = rec)
BY DEF Patched, TypeRecords

(***************************************************************************)
(* No step marks the run of a task as interrupted while it is executed.    *)
(***************************************************************************)
LEMMA MarkStep ==
  ASSUME TypeRecords, TypeTimers, TypeLock, TypeRuns, TypeSyncs, Looping, Waiting,
         [Next]_vars
  PROVE  MarksNoLiveRun
<1> USE DEF MarksNoLiveRun
<1>1. ASSUME UNCHANGED store PROVE MarksNoLiveRun
  BY <1>1
<1>2. ASSUME NEW a \in advance, Advanced(a) PROVE MarksNoLiveRun
  <2>1. UNCHANGED store \/ SyncTaskSchedule(a[1], a[2])
    BY <1>2 DEF Advanced
  <2>2. a[1] \in Task
    BY <1>2 DEF TypeTimers
  <2>3. QED
    BY <2>1, <2>2, ScheduleMarksNothing
<1>3. ASSUME NEW r \in Run, RunBegins(r) PROVE MarksNoLiveRun
  <2>1. run[r].task \in Task /\ store[run[r].task] \in Records
    BY <1>3 DEF RunBegins, Writes, TypeRuns, TypeRecords
  <2>2. [store[run[r].task] EXCEPT !.status = "running", !.ran = run[r].at].status = "running"
    BY <2>1 DEF Records
  <2>3. PICK rec : store' = Patched(run[r].task, rec) /\ rec.status # "interrupted"
    BY <1>3, <2>2, Zenon DEF RunBegins
  <2>4. QED
    BY <2>1, <2>3, PatchMarks
<1>4. ASSUME NEW r \in Run, RunConsumes(r) PROVE MarksNoLiveRun
  <2> DEFINE t == run[r].task
  <2>1. t \in Task /\ store[t] \in Records
    BY <1>4 DEF RunConsumes, Writes, TypeRuns, TypeRecords
  <2> DEFINE rec == IF store[t].present THEN [store[t] EXCEPT !.enabled = FALSE]
                                        ELSE [run[r].was EXCEPT !.enabled = FALSE]
  <2>2. store[t].present => rec.status = store[t].status
    BY <2>1 DEF Records
  <2>3. store' = [store EXCEPT ![t] = rec] \/ UNCHANGED store
    BY <1>4, Zenon DEF RunConsumes
  <2> HIDE DEF rec
  <2>4. QED
    BY <2>1, <2>2, <2>3 DEF TypeRecords
<1>5. ASSUME NEW r \in Run, RunFinishes(r) PROVE MarksNoLiveRun
  <2>1. run[r].task \in Task /\ store[run[r].task] \in Records
    BY <1>5 DEF RunFinishes, Writes, TypeRuns, TypeRecords
  <2>2. [store[run[r].task] EXCEPT !.status = "ended", !.next = run[r].next].status = "ended"
    BY <2>1 DEF Records
  <2>3. PICK rec : store' = Patched(run[r].task, rec) /\ rec.status # "interrupted"
    BY <1>5, <2>2, Zenon DEF RunFinishes
  <2>4. QED
    BY <2>1, <2>3, PatchMarks
<1>6. ASSUME NEW y \in Sync, SyncSchedules(y) PROVE MarksNoLiveRun
  <2>1. UNCHANGED store \/ SyncTaskSchedule(sync[y].cur, sync[y].next)
    BY <1>6 DEF SyncSchedules
  <2>2. sync[y].cur \in Task
    BY <1>6 DEF SyncSchedules, TypeSyncs, Looping, Syncs
  <2>3. QED
    BY <2>1, <2>2, ScheduleMarksNothing
<1>7. ASSUME NEW y \in Sync, SyncInterrupts(y) PROVE MarksNoLiveRun
  <2> DEFINE t == sync[y].cur
  <2>1. t \in Task /\ sync[y].project \in Projects /\ sync[y].pc = "interrupt"
    BY <1>7 DEF SyncInterrupts, TypeSyncs
  <2>2. UNCHANGED store \/ store' = Patched(t, [store[t] EXCEPT !.status = "interrupted"])
    BY <1>7 DEF SyncInterrupts
  <2>3. \A u \in Task : u # t => store'[u] = store[u]
    BY <2>1, <2>2, PatchMarks
  <2>4. \A r \in Run : run[r].task = t => run[r].pc \notin {"execute", "consume", "finish"}
    BY <2>1 DEF Waiting, WaitsFirst, Pending, Held
  <2>5. QED
    BY <2>3, <2>4
<1>8. ASSUME NEW y \in Sync, EditApplies(y) PROVE MarksNoLiveRun
  <2> DEFINE t == sync[y].cur
  <2>1. t \in Task /\ store[t] \in Records
    BY <1>8 DEF EditApplies, TypeSyncs, TypeRecords
  <2>2. PICK rec : store' = [store EXCEPT ![t] = rec] /\ rec.status \in {"idle", store[t].status}
    <3>1. [store[t] EXCEPT !.enabled = store[t].present /\ ~store[t].enabled].status = store[t].status
      BY <2>1 DEF Records
    <3>2. \/ store' = [store EXCEPT ![t] =
                 [store[t] EXCEPT !.enabled = store[t].present /\ ~store[t].enabled]]
          \/ store' = [store EXCEPT ![t] = Absent]
      BY <1>8 DEF EditApplies
    <3>3. Absent.status = "idle"
      BY DEF Absent
    <3>4. QED
      BY <3>1, <3>2, <3>3, Zenon
  <2>3. QED
    BY <2>1, <2>2 DEF TypeRecords
<1>9. ASSUME NEW t \in Task, TimerFires(t)
      PROVE  MarksNoLiveRun
  BY <1>1, <1>9 DEF TimerFires, config
<1>10. ASSUME PumpSkips \/ PumpEnds \/ Stop \/ Tick \/ Crash
      PROVE  MarksNoLiveRun
  BY <1>1, <1>10 DEF PumpSkips, PumpEnds, Stop, Tick, Crash, config
<1>11. ASSUME NEW r \in Run, PumpStarts(r) \/ RunSession(r) \/ RunExecuted(r) \/ RunFails(r) \/
              RunSettles(r)
      PROVE  MarksNoLiveRun
  BY <1>1, <1>11 DEF PumpStarts, RunSession, RunExecuted, RunFails, RunSettles, config
<1>12. ASSUME NEW m \in Manual, NEW t \in Task, RunNow(m, t)
      PROVE  MarksNoLiveRun
  BY <1>1, <1>12 DEF RunNow, config
<1>13. ASSUME NEW y \in Sync, NEW p \in Projects, SyncBegins(y, p)
      PROVE  MarksNoLiveRun
  BY <1>1, <1>13 DEF SyncBegins, config
<1>14. ASSUME NEW y \in Sync, Start(y) \/ SyncLists(y) \/ SyncSets(y) \/ SyncFails(y) \/
              SyncSnapshots(y) \/ SyncChecks(y) \/ SyncEnds(y)
      PROVE  MarksNoLiveRun
  BY <1>1, <1>14, Zenon DEF Start, SyncLists, SyncSets, SyncFails, SyncSnapshots, SyncChecks,
     SyncEnds, config
<1>15. ASSUME NEW y \in Sync, NEW t \in Task, EditBegins(y, t)
      PROVE  MarksNoLiveRun
  BY <1>1, <1>15 DEF EditBegins, config
<1>16. CASE UNCHANGED vars
  BY <1>1, <1>16 DEF vars, config, scheduler, admission, thread, history
<1> HIDE DEF MarksNoLiveRun
<1>17. QED
  BY <1>2, <1>3, <1>4, <1>5, <1>6, <1>7, <1>8, <1>9, <1>10, <1>11, <1>12, <1>13, <1>14,
     <1>15, <1>16, Zenon DEF Next, Step, RunStep, SyncStep

-----------------------------------------------------------------------------
(* The inductive invariant and the theorems.                               *)

TypeParts ==
    /\ TypeClock /\ TypeRecords /\ TypeTimers /\ TypeLock /\ TypeQueue /\ TypeRuns /\ TypeSyncs
    /\ TypeFlags /\ TypeThread /\ TypeHistory
IInv ==
    /\ TypeParts /\ Pumping /\ Looping
    /\ Admitted /\ QueueKeys /\ Apart
    /\ Locked /\ Waiting

(***************************************************************************)
(* The inductive invariant holds initially.                                *)
(***************************************************************************)
LEMMA IInvInit == Init => IInv
<1> SUFFICES ASSUME Init PROVE IInv
  OBVIOUS
<1>1. TypeClock /\ TypeFlags /\ TypeThread /\ TypeHistory /\ Pumping
  <2>1. TypeClock
    BY BoundAssumption DEF Init, TypeClock
  <2>2. TypeFlags /\ TypeHistory
    BY Zenon DEF Init, TypeFlags, TypeHistory
  <2>3. TypeThread /\ Pumping
    BY WriterAssumption DEF Init, TypeThread, Pumping
  <2>4. QED
    BY <2>1, <2>2, <2>3
<1>2. TypeRecords /\ TypeTimers
  BY RecordConstants, SlotFacts DEF Init, TypeRecords, TypeTimers
<1>3. TypeLock /\ TypeQueue
  BY EmptySeq DEF Init, TypeLock, TypeQueue
<1>4. TypeRuns
  BY IdleRunTyped DEF Init, TypeRuns
<1>5. TypeSyncs /\ Looping
  BY IdleSyncLegal DEF Init, TypeSyncs, Looping, Legal
<1>6. HeldRuns = {} /\ \A p \in Projects : HeldIn(p) = {}
  BY IdleRunTyped DEF Init, HeldRuns, HeldIn, Held
<1>7. RunKeys
  BY <1>6, IdleRunTyped DEF Init, RunKeys, Held
<1>8. Counters /\ TypeCounts
  <2>1. Cardinality({}) = 0
    BY FS_EmptySet
  <2>2. runningGlobalCount = 0 /\ runningCountByProject = [p \in Projects |-> 0]
    BY DEF Init
  <2>3. 0 <= maxGlobalConcurrency /\ 0 <= maxProjectConcurrency
    BY LimitAssumption
  <2>4. QED
    BY <1>6, <2>1, <2>2, <2>3 DEF Counters, TypeCounts
<1>9. QueueKeys /\ Apart
  BY DEF Init, QueueKeys, Apart
<1>10. Locked
  <2>1. \A p \in Projects : lock[p] = <<>>
    BY DEF Init
  <2>2. \A x : ~In(<<>>, x) /\ Single(<<>>, x)
    BY DEF In, Single
  <2>3. QED
    BY <2>1, <2>2 DEF Locked
<1>11. Waiting
  BY DEF Init, Waiting, IdleSync
<1>12. QED
  BY <1>1, <1>2, <1>3, <1>4, <1>5, <1>7, <1>8, <1>9, <1>10, <1>11 DEF IInv, TypeParts, Admitted

(***************************************************************************)
(* Every step of the runtime preserves the inductive invariant.            *)
(***************************************************************************)
LEMMA IInvStep == IInv /\ [Next]_vars => IInv'
<1> SUFFICES ASSUME IInv, [Next]_vars PROVE IInv'
  OBVIOUS
<1>1. /\ TypeClock /\ TypeRecords /\ TypeTimers /\ TypeLock /\ TypeQueue /\ TypeRuns /\ TypeSyncs
      /\ TypeFlags /\ TypeThread /\ TypeHistory /\ Pumping /\ Looping
      /\ Admitted /\ RunKeys /\ QueueKeys /\ Apart /\ Locked /\ Waiting
  BY DEF IInv, TypeParts, Admitted
<1>2. TypeClock' /\ TypeFlags' /\ TypeHistory'
  BY <1>1, ClockStep, FlagsStep, HistoryStep
<1>3. TypeRecords'
  BY <1>1, RecordsStep
<1>4. TypeTimers'
  BY <1>1, <1>3, TimersStep
<1>5. TypeLock' /\ TypeQueue' /\ TypeRuns'
  BY <1>1, LockStep, QueueStep, RunsStep
<1>6. TypeSyncs' /\ Looping'
  BY <1>1, SyncsStep
<1>7. TypeThread' /\ Pumping'
  BY <1>1, ThreadStep
<1>8. Admitted' /\ QueueKeys' /\ Apart'
  BY <1>1, AdmittedStep, QueueKeysStep
<1>9. Locked' /\ Waiting'
  BY <1>1, LockedStep, WaitingStep
<1>10. QED
  BY <1>2, <1>3, <1>4, <1>5, <1>6, <1>7, <1>8, <1>9 DEF IInv, TypeParts

(***************************************************************************)
(* The inductive invariant holds in every reachable state.                 *)
(***************************************************************************)
THEOREM Invariance == Spec => []IInv
BY IInvInit, IInvStep, PTL DEF Spec

(***************************************************************************)
(* Every variable of the runtime keeps its type.                           *)
(***************************************************************************)
THEOREM TypeCorrect == Spec => []TypeOK
<1>1. IInv => TypeOK
  BY DEF IInv, TypeParts, Admitted, TypeClock, TypeRecords, TypeTimers, TypeLock, Writers, TypeQueue,
         TypeCounts, TypeRuns, TypeSyncs, TypeFlags, TypeThread, TypeHistory, TypeOK
<1>2. QED
  BY <1>1, Invariance, PTL

(***************************************************************************)
(* The counters are the runs under way and never exceed the limits.        *)
(***************************************************************************)
THEOREM SlotsCorrect == Spec => []SlotsExact
<1>1. IInv => SlotsExact
  BY DEF IInv, Admitted, Counters, HeldRuns, HeldIn, SlotsExact
<1>2. QED
  BY <1>1, Invariance, PTL

(***************************************************************************)
(* No task is queued twice, run twice, or queued while it runs.            *)
(***************************************************************************)
THEOREM OneRunCorrect == Spec => []OneRunPerTask
<1>1. IInv => OneRunPerTask
  BY Zenon DEF IInv, Admitted, RunKeys, QueueKeys, Apart, HeldRuns, OneRunPerTask
<1>2. QED
  BY <1>1, Invariance, PTL

(***************************************************************************)
(* A restart's mark never falls on a run that is being executed: the lock  *)
(* is first come first served, and the run asks for it behind the mark.    *)
(***************************************************************************)
THEOREM LiveRunCorrect == Spec => LiveRunKept
<1>1. IInv /\ [Next]_vars => [MarksNoLiveRun]_vars
  BY MarkStep DEF IInv, TypeParts
<1>2. QED
  BY <1>1, Invariance, PTL DEF Spec, LiveRunKept, MarksNoLiveRun

===============================================================================
