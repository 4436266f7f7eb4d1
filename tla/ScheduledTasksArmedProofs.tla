--------------------- MODULE ScheduledTasksArmedProofs ---------------------
(***************************************************************************)
(* Proof that an enabled recurring task always has a next run: a timer     *)
(* that will be honoured, a run, or a synchronisation on its way to it.    *)
(***************************************************************************)
EXTENDS ScheduledTasksOnceProofs

-----------------------------------------------------------------------------
(* Who moves a synchronisation, a run, and the flags.                      *)

SyncGoesOn(y) ==
    \/ Start(y) \/ SyncLists(y) \/ SyncSets(y) \/ SyncSchedules(y) \/ SyncFails(y)
    \/ SyncSnapshots(y) \/ SyncChecks(y) \/ SyncInterrupts(y) \/ SyncEnds(y) \/ EditApplies(y)
    \/ \E p \in Projects : SyncBegins(y, p)
    \/ \E t \in Task : EditBegins(y, t)
SyncsGoOn == \A z \in Sync : sync'[z] = sync[z] \/ SyncGoesOn(z)

RunGoesOn(r) ==
    \/ PumpStarts(r) \/ RunBegins(r) \/ RunExecuted(r) \/ RunConsumes(r) \/ RunFinishes(r)
    \/ RunFails(r) \/ RunSettles(r)
RunsGoOn == \A s \in Run : run'[s] = run[s] \/ RunGoesOn(s)

(***************************************************************************)
(* A synchronisation moves by its own steps, until the process dies.       *)
(***************************************************************************)
LEMMA SyncsGoOnStep ==
  ASSUME IInv, ~Crash, [Next]_vars
  PROVE  SyncsGoOn
<1>1. TypeSyncs
  BY DEF IInv, TypeParts
<1>2. ASSUME UNCHANGED sync PROVE SyncsGoOn
  BY <1>2 DEF SyncsGoOn
<1>3. ASSUME NEW y \in Sync, NEW p \in Projects, SyncBegins(y, p) PROVE SyncsGoOn
  <2>1. \A z \in Sync : z # y => sync'[z] = sync[z]
    BY <1>3, CallsEffect
  <2>2. QED
    BY <1>3, <2>1 DEF SyncsGoOn, SyncGoesOn
<1>4. ASSUME NEW y \in Sync, Start(y) PROVE SyncsGoOn
  <2>1. \A z \in Sync : z # y => sync'[z] = sync[z]
    BY <1>4, CallsEffect
  <2>2. QED
    BY <1>4, <2>1 DEF SyncsGoOn, SyncGoesOn
<1>5. ASSUME NEW y \in Sync, SyncLists(y) PROVE SyncsGoOn
  <2>1. \A z \in Sync : z # y => sync'[z] = sync[z]
    BY <1>5, ListsEffect DEF SyncTo
  <2>2. QED
    BY <1>5, <2>1 DEF SyncsGoOn, SyncGoesOn
<1>6. ASSUME NEW y \in Sync, SyncSets(y) PROVE SyncsGoOn
  <2>1. \A z \in Sync : z # y => sync'[z] = sync[z]
    BY <1>6, SetsEffect DEF SyncTo
  <2>2. QED
    BY <1>6, <2>1 DEF SyncsGoOn, SyncGoesOn
<1>7. ASSUME NEW y \in Sync, SyncSchedules(y) PROVE SyncsGoOn
  <2>1. \A z \in Sync : z # y => sync'[z] = sync[z]
    BY <1>7, SchedulesEffect DEF SyncTo
  <2>2. QED
    BY <1>7, <2>1 DEF SyncsGoOn, SyncGoesOn
<1>8. ASSUME NEW y \in Sync, SyncFails(y) PROVE SyncsGoOn
  <2>1. \A z \in Sync : z # y => sync'[z] = sync[z]
    BY <1>8, SyncFailsEffect
  <2>2. QED
    BY <1>8, <2>1 DEF SyncsGoOn, SyncGoesOn
<1>9. ASSUME NEW y \in Sync, SyncSnapshots(y) PROVE SyncsGoOn
  <2>1. \A z \in Sync : z # y => sync'[z] = sync[z]
    BY <1>9, SnapshotsEffect DEF SyncTo
  <2>2. QED
    BY <1>9, <2>1 DEF SyncsGoOn, SyncGoesOn
<1>10. ASSUME NEW y \in Sync, SyncChecks(y) PROVE SyncsGoOn
  <2>1. \A z \in Sync : z # y => sync'[z] = sync[z]
    BY <1>10, ChecksEffect DEF SyncTo
  <2>2. QED
    BY <1>10, <2>1 DEF SyncsGoOn, SyncGoesOn
<1>11. ASSUME NEW y \in Sync, SyncInterrupts(y) PROVE SyncsGoOn
  <2>1. \A z \in Sync : z # y => sync'[z] = sync[z]
    BY <1>11, InterruptsEffect DEF SyncTo
  <2>2. QED
    BY <1>11, <2>1 DEF SyncsGoOn, SyncGoesOn
<1>12. ASSUME NEW y \in Sync, SyncEnds(y) PROVE SyncsGoOn
  <2>1. \A z \in Sync : z # y => sync'[z] = sync[z]
    BY <1>12, CallsEffect
  <2>2. QED
    BY <1>12, <2>1 DEF SyncsGoOn, SyncGoesOn
<1>13. ASSUME NEW y \in Sync, NEW t \in Task, EditBegins(y, t) PROVE SyncsGoOn
  <2>1. \A z \in Sync : z # y => sync'[z] = sync[z]
    BY <1>13, EditBeginsEffect
  <2>2. QED
    BY <1>13, <2>1 DEF SyncsGoOn, SyncGoesOn
<1>14. ASSUME NEW y \in Sync, EditApplies(y) PROVE SyncsGoOn
  <2>1. \A z \in Sync : z # y => sync'[z] = sync[z]
    BY <1>14, EditEffect
  <2>2. QED
    BY <1>14, <2>1 DEF SyncsGoOn, SyncGoesOn
<1>15. ASSUME Crash PROVE SyncsGoOn
  BY <1>15
<1>16. ASSUME NEW t \in Task, TimerFires(t)
      PROVE  SyncsGoOn
  BY <1>2, <1>16 DEF TimerFires
<1>17. ASSUME NEW a \in advance, Advanced(a)
      PROVE  SyncsGoOn
  BY <1>2, <1>17 DEF Advanced
<1>18. ASSUME PumpSkips \/ PumpEnds \/ Stop \/ Tick
      PROVE  SyncsGoOn
  BY <1>2, <1>18 DEF PumpSkips, PumpEnds, Stop, Tick
<1>19. ASSUME NEW r \in Run, PumpStarts(r) \/ RunBegins(r) \/ RunSession(r) \/ RunExecuted(r) \/
              RunConsumes(r) \/ RunFinishes(r) \/ RunFails(r) \/
              RunSettles(r)
      PROVE  SyncsGoOn
  BY <1>2, <1>19 DEF PumpStarts, RunBegins, RunSession, RunExecuted, RunConsumes,
     RunFinishes, RunFails, RunSettles
<1>20. ASSUME NEW m \in Manual, NEW t \in Task, RunNow(m, t)
      PROVE  SyncsGoOn
  BY <1>2, <1>20 DEF RunNow
<1>21. CASE UNCHANGED vars
  BY <1>2, <1>21 DEF vars, config, scheduler, admission, thread, history
<1>22. QED
  BY <1>3, <1>4, <1>5, <1>6, <1>7, <1>8, <1>9, <1>10, <1>11, <1>12, <1>13, <1>14, <1>15,
     <1>16, <1>17, <1>18, <1>19, <1>20, <1>21, Zenon DEF Next, Step, RunStep, SyncStep

(***************************************************************************)
(* So does a run.                                                          *)
(***************************************************************************)
LEMMA RunsGoOnStep ==
  ASSUME IInv, ~Crash, [Next]_vars
  PROVE  RunsGoOn
<1>1. TypeRuns
  BY DEF IInv, TypeParts
<1>2. ASSUME UNCHANGED run PROVE RunsGoOn
  BY <1>2 DEF RunsGoOn
<1>3. ASSUME NEW r \in Run, PumpStarts(r) PROVE RunsGoOn
  <2>1. \A s \in Run : s # r => run'[s] = run[s]
    BY <1>3, StartsEffect
  <2>2. QED
    BY <1>3, <2>1 DEF RunsGoOn, RunGoesOn
<1>4. ASSUME NEW r \in Run, RunBegins(r) PROVE RunsGoOn
  <2>1. \A s \in Run : s # r => run'[s] = run[s]
    BY <1>4, BeginsEffect DEF RunTo
  <2>2. QED
    BY <1>4, <2>1 DEF RunsGoOn, RunGoesOn
<1>5. ASSUME NEW r \in Run, RunExecuted(r) PROVE RunsGoOn
  <2>1. \A s \in Run : s # r => run'[s] = run[s]
    BY <1>1, <1>5 DEF RunExecuted, TypeRuns
  <2>2. QED
    BY <1>5, <2>1 DEF RunsGoOn, RunGoesOn
<1>6. ASSUME NEW r \in Run, RunConsumes(r) PROVE RunsGoOn
  <2>1. \A s \in Run : s # r => run'[s] = run[s]
    BY <1>6, ConsumesEffect DEF RunTo
  <2>2. QED
    BY <1>6, <2>1 DEF RunsGoOn, RunGoesOn
<1>7. ASSUME NEW r \in Run, RunFinishes(r) PROVE RunsGoOn
  <2>1. \A s \in Run : s # r => run'[s] = run[s]
    BY <1>7, FinishesEffect DEF RunTo
  <2>2. QED
    BY <1>7, <2>1 DEF RunsGoOn, RunGoesOn
<1>8. ASSUME NEW r \in Run, RunFails(r) PROVE RunsGoOn
  <2>1. \A s \in Run : s # r => run'[s] = run[s]
    BY <1>8, FailsEffect DEF RunTo
  <2>2. QED
    BY <1>8, <2>1 DEF RunsGoOn, RunGoesOn
<1>9. ASSUME NEW r \in Run, RunSettles(r) PROVE RunsGoOn
  <2>1. \A s \in Run : s # r => run'[s] = run[s]
    BY <1>1, <1>9 DEF RunSettles, TypeRuns
  <2>2. QED
    BY <1>9, <2>1 DEF RunsGoOn, RunGoesOn
<1>10. ASSUME Crash PROVE RunsGoOn
  BY <1>10
<1>11. ASSUME NEW t \in Task, TimerFires(t)
      PROVE  RunsGoOn
  BY <1>2, <1>11 DEF TimerFires
<1>12. ASSUME NEW a \in advance, Advanced(a)
      PROVE  RunsGoOn
  BY <1>2, <1>12 DEF Advanced
<1>13. ASSUME PumpSkips \/ PumpEnds \/ Stop \/ Tick
      PROVE  RunsGoOn
  BY <1>2, <1>13 DEF PumpSkips, PumpEnds, Stop, Tick
<1>14. ASSUME NEW r \in Run, RunSession(r)
      PROVE  RunsGoOn
  BY <1>2, <1>14 DEF RunSession
<1>15. ASSUME NEW m \in Manual, NEW t \in Task, RunNow(m, t)
      PROVE  RunsGoOn
  BY <1>2, <1>15 DEF RunNow
<1>16. ASSUME NEW y \in Sync, NEW p \in Projects, SyncBegins(y, p)
      PROVE  RunsGoOn
  BY <1>2, <1>16 DEF SyncBegins
<1>17. ASSUME NEW y \in Sync, Start(y) \/ SyncLists(y) \/ SyncSets(y) \/ SyncSchedules(y) \/
              SyncFails(y) \/ SyncSnapshots(y) \/ SyncChecks(y) \/
              SyncInterrupts(y) \/ SyncEnds(y) \/ EditApplies(y)
      PROVE  RunsGoOn
  BY <1>2, <1>17 DEF Start, SyncLists, SyncSets, SyncSchedules, SyncFails, SyncSnapshots,
     SyncChecks, SyncInterrupts, SyncEnds, EditApplies
<1>18. ASSUME NEW y \in Sync, NEW t \in Task, EditBegins(y, t)
      PROVE  RunsGoOn
  BY <1>2, <1>18 DEF EditBegins
<1>19. CASE UNCHANGED vars
  BY <1>2, <1>19 DEF vars, config, scheduler, admission, thread, history
<1>20. QED
  BY <1>3, <1>4, <1>5, <1>6, <1>7, <1>8, <1>9, <1>10, <1>11, <1>12, <1>13, <1>14, <1>15,
     <1>16, <1>17, <1>18, <1>19, Zenon DEF Next, Step, RunStep, SyncStep

(***************************************************************************)
(* start.                                                                  *)
(***************************************************************************)
LEMMA StartEffect ==
  ASSUME IInv, NEW y \in Sync, Start(y)
  PROVE  /\ sync[y].pc = "idle" /\ sync'[y].pc = "list"
         /\ sync'[y].project \in Projects /\ sync'[y].left = Projects \ {sync'[y].project}
         /\ sync'[y].start = TRUE /\ ~started
         /\ \A z \in Sync : z # y => sync'[z] = sync[z]
<1>1. TypeSyncs
  BY DEF IInv, TypeParts
<1>2. FirstProject(Projects) \in Projects
  BY ProjectsAssumption, FirstOfProjects
<1>3. /\ sync[y].pc = "idle" /\ ~started
      /\ Called(y, FirstProject(Projects), Projects \ {FirstProject(Projects)}, TRUE)
  BY DEF Start
<1>4. QED
  BY <1>1, <1>2, <1>3, CalledEffect

(***************************************************************************)
(* A resync that somebody asks for.                                        *)
(***************************************************************************)
LEMMA SyncBeginsEffect ==
  ASSUME IInv, NEW y \in Sync, NEW p \in Projects, SyncBegins(y, p)
  PROVE  /\ sync[y].pc = "idle" /\ sync'[y].pc = "list"
         /\ sync'[y].project = p /\ sync'[y].left = {}
<1>1. TypeSyncs
  BY DEF IInv, TypeParts
<1>2. sync[y].pc = "idle" /\ Called(y, p, {}, FALSE)
  BY DEF SyncBegins
<1>3. QED
  BY <1>1, <1>2, CalledEffect

(***************************************************************************)
(* syncAllProjects goes on, or ends.                                       *)
(***************************************************************************)
LEMMA EndsEffect ==
  ASSUME IInv, NEW y \in Sync, SyncEnds(y)
  PROVE  /\ sync[y].pc = "reconcile"
         /\ \/ sync[y].left = {} /\ sync'[y].left = {} /\ sync'[y].pc = "idle"
            \/ /\ sync'[y].pc = "list" /\ sync'[y].project \in sync[y].left
               /\ sync'[y].left = sync[y].left \ {sync'[y].project}
               /\ sync'[y].start = sync[y].start
<1>1. TypeSyncs
  BY DEF IInv, TypeParts
<1>2. sync[y].pc = "reconcile" /\ sync[y].left \in SUBSET Projects
  BY <1>1 DEF SyncEnds, TypeSyncs, Syncs
<1>3. CASE sync[y].left = {} /\ sync' = [sync EXCEPT ![y] = IdleSync]
  BY <1>1, <1>2, <1>3 DEF TypeSyncs, IdleSync
<1>4. CASE /\ sync[y].left # {}
           /\ LET p == FirstProject(sync[y].left)
              IN Called(y, p, sync[y].left \ {p}, sync[y].start)
  BY <1>1, <1>2, <1>4, FirstOfProjects, CalledEffect
<1>5. QED
  BY <1>3, <1>4 DEF SyncEnds

(***************************************************************************)
(* A route whose edit is applied calls syncProject.                        *)
(***************************************************************************)
LEMMA EditCalls ==
  ASSUME IInv, NEW y \in Sync, EditApplies(y)
  PROVE  sync'[y].left = {} /\ sync'[y].start = FALSE
<1>1. TypeSyncs /\ Called(y, sync[y].project, {}, FALSE)
  BY DEF IInv, TypeParts, EditApplies
<1>2. QED
  BY <1>1, CalledEffect

\* Where a synchronisation is, and where it goes.
Goes(y, from, to) == sync[y].pc = from /\ sync'[y].pc = to
SyncCourse(y) ==
    \/ (Start(y) \/ \E p \in Projects : SyncBegins(y, p)) /\ Goes(y, "idle", "list")
    \/ (\E t \in Task : EditBegins(y, t)) /\ Goes(y, "idle", "edit")
    \/ SyncLists(y) /\ Goes(y, "list", "set")
    \/ SyncSets(y) /\ Goes(y, "set", "schedule")
    \/ SyncSchedules(y) /\ Goes(y, "schedule", "schedule")
    \/ SyncFails(y) /\ Goes(y, "schedule", "idle")
    \/ SyncSnapshots(y) /\ Goes(y, "schedule", "reconcile")
    \/ SyncChecks(y) /\ sync[y].pc = "reconcile" /\ sync'[y].pc \in {"reconcile", "interrupt"}
    \/ SyncInterrupts(y) /\ Goes(y, "interrupt", "reconcile")
    \/ SyncEnds(y) /\ sync[y].pc = "reconcile" /\ sync'[y].pc \in {"idle", "list"}
    \/ EditApplies(y) /\ Goes(y, "edit", "list")

(***************************************************************************)
(* The course of a synchronisation.                                        *)
(***************************************************************************)
LEMMA SyncCourseStep ==
  ASSUME IInv, [Next]_vars, ~Crash, NEW y \in Sync
  PROVE  sync'[y] = sync[y] \/ SyncCourse(y)
<1>1. sync'[y] = sync[y] \/ SyncGoesOn(y)
  BY SyncsGoOnStep DEF SyncsGoOn
<1>2. CASE Start(y)
  BY <1>2, StartEffect DEF SyncCourse, Goes
<1>3. CASE \E p \in Projects : SyncBegins(y, p)
  BY <1>3, SyncBeginsEffect DEF SyncCourse, Goes
<1>4. CASE \E t \in Task : EditBegins(y, t)
  BY <1>4, EditBeginsEffect DEF SyncCourse, Goes
<1>5. CASE SyncLists(y)
  BY <1>5, ListsEffect DEF SyncCourse, Goes, SyncTo
<1>6. CASE SyncSets(y)
  BY <1>6, SetsEffect DEF SyncCourse, Goes, SyncTo
<1>7. CASE SyncSchedules(y)
  BY <1>7, SchedulesEffect DEF SyncCourse, Goes, SyncTo
<1>8. CASE SyncFails(y)
  BY <1>8, SyncFailsEffect DEF SyncCourse, Goes
<1>9. CASE SyncSnapshots(y)
  BY <1>9, SnapshotsEffect DEF SyncCourse, Goes, SyncTo
<1>10. CASE SyncChecks(y)
  <2>1. sync[y].pc = "reconcile" /\ sync'[y].pc \in {"reconcile", "interrupt"}
    BY <1>10, ChecksEffect DEF SyncTo
  <2>2. QED
    BY <1>10, <2>1 DEF SyncCourse
<1>11. CASE SyncInterrupts(y)
  BY <1>11, InterruptsEffect DEF SyncCourse, Goes, SyncTo
<1>12. CASE SyncEnds(y)
  BY <1>12, EndsEffect DEF SyncCourse
<1>13. CASE EditApplies(y)
  BY <1>13, EditEffect DEF SyncCourse, Goes
<1>14. QED
  BY <1>1, <1>2, <1>3, <1>4, <1>5, <1>6, <1>7, <1>8, <1>9, <1>10, <1>11, <1>12, <1>13
     DEF SyncGoesOn

-----------------------------------------------------------------------------
(* Where the flags, the histories and the records of a task come from.     *)

StartedFrom == started' => started \/ \E y \in Sync : Start(y)

\* The first loop of a synchronisation has its round about t.
Round(y, t) == SyncSchedules(y) /\ sync[y].cur = t
ExcusedFrom ==
    \A u \in excused : u \in excused' \/ \E y \in Sync :
        Round(y, u) /\ store[u].enabled = sync[y].seen[u].enabled

AdvanceFrom ==
    /\ \A b \in advance : b \in advance' \/ Advanced(b)
    /\ \A b \in advance' : b \in advance \/ (b[1] \notin Once /\ b[2] # None)

\* Somebody has called syncProject and not listed the tasks yet.
Lists(y, t) == sync[y].pc = "list" /\ t \in sync[y].project

\* A recurring task is not created again, and enabled only by an edit.
RecordFrom(t) ==
    /\ store'[t].present => store[t].present
    /\ store'[t].enabled => store[t].enabled \/ \E y \in Sync : Lists(y, t)'

\* Memory loses an enabled task to a list in which it is disabled.
MemLost(t) ==
    mem[t].enabled /\ store'[t].enabled =>
        mem'[t].enabled \/ \E y \in Sync :
            SyncSets(y) /\ t \in sync[y].project /\ ~sync[y].seen[t].enabled

\* One-time tasks only are consumed.
ConsumesOnce == \A r \in Run : run[r].pc = "consume" => run[r].task \in Once

\* An edit is about a task of its project.
EditInside == \A y \in Sync : sync[y].pc = "edit" => sync[y].cur \in sync[y].project

(***************************************************************************)
(* The runtime is started by start.                                        *)
(***************************************************************************)
LEMMA StartedFromStep ==
  ASSUME IInv, [Next]_vars
  PROVE  StartedFrom
<1>1. TypeFlags
  BY DEF IInv, TypeParts
<1>2. ASSUME UNCHANGED started PROVE StartedFrom
  BY <1>2 DEF StartedFrom
<1>3. ASSUME NEW y \in Sync, Start(y) PROVE StartedFrom
  BY <1>3 DEF StartedFrom
<1>4. ASSUME Stop PROVE StartedFrom
  BY <1>4 DEF StartedFrom, Stop, Stopped
<1>5. ASSUME NEW y \in Sync, SyncFails(y) PROVE StartedFrom
  BY <1>5 DEF StartedFrom, SyncFails, Stopped
<1>6. ASSUME Crash PROVE StartedFrom
  BY <1>6 DEF StartedFrom, Crash
<1>7. ASSUME NEW t \in Task, TimerFires(t)
      PROVE  StartedFrom
  BY <1>2, <1>7 DEF TimerFires, scheduler
<1>8. ASSUME NEW a \in advance, Advanced(a)
      PROVE  StartedFrom
  BY <1>2, <1>8 DEF Advanced, scheduler
<1>9. ASSUME PumpSkips \/ PumpEnds \/ Tick
      PROVE  StartedFrom
  BY <1>2, <1>9 DEF PumpSkips, PumpEnds, Tick, scheduler
<1>10. ASSUME NEW r \in Run, PumpStarts(r) \/ RunBegins(r) \/ RunSession(r) \/ RunExecuted(r) \/
              RunConsumes(r) \/ RunFinishes(r) \/ RunFails(r) \/
              RunSettles(r)
      PROVE  StartedFrom
  BY <1>2, <1>10 DEF PumpStarts, RunBegins, RunSession, RunExecuted, RunConsumes,
     RunFinishes, RunFails, RunSettles, scheduler
<1>11. ASSUME NEW m \in Manual, NEW t \in Task, RunNow(m, t)
      PROVE  StartedFrom
  BY <1>2, <1>11 DEF RunNow, scheduler
<1>12. ASSUME NEW y \in Sync, NEW p \in Projects, SyncBegins(y, p)
      PROVE  StartedFrom
  BY <1>2, <1>12 DEF SyncBegins, scheduler
<1>13. ASSUME NEW y \in Sync, SyncLists(y) \/ SyncSets(y) \/ SyncSchedules(y) \/ SyncSnapshots(y) \/
              SyncChecks(y) \/ SyncInterrupts(y) \/ SyncEnds(y) \/
              EditApplies(y)
      PROVE  StartedFrom
  BY <1>2, <1>13 DEF SyncLists, SyncSets, SyncSchedules, SyncSnapshots, SyncChecks,
     SyncInterrupts, SyncEnds, EditApplies, scheduler
<1>14. ASSUME NEW y \in Sync, NEW t \in Task, EditBegins(y, t)
      PROVE  StartedFrom
  BY <1>2, <1>14 DEF EditBegins, scheduler
<1>15. CASE UNCHANGED vars
  BY <1>2, <1>15 DEF vars, config, scheduler, admission, thread, history
<1>16. QED
  BY <1>3, <1>4, <1>5, <1>6, <1>7, <1>8, <1>9, <1>10, <1>11, <1>12, <1>13, <1>14, <1>15,
     Zenon DEF Next, Step, RunStep, SyncStep

(***************************************************************************)
(* The round that schedules t excuses it, if the definition in the list is *)
(* not that on disk, and pardons it otherwise.                             *)
(***************************************************************************)
LEMMA RoundExcuses ==
  ASSUME NEW y \in Sync, NEW t, Round(y, t)
  PROVE  excused' = IF store[t].enabled = sync[y].seen[t].enabled THEN excused \ {t}
                                                                  ELSE excused \cup {t}
BY DEF Round, SyncSchedules

(***************************************************************************)
(* A task is pardoned by the round that schedules it.                      *)
(***************************************************************************)
LEMMA ExcusedFromStep ==
  ASSUME IInv, [Next]_vars
  PROVE  ExcusedFrom
<1>1. TypeHistory
  BY DEF IInv, TypeParts
<1>2. ASSUME UNCHANGED excused PROVE ExcusedFrom
  BY <1>2 DEF ExcusedFrom
<1>3. ASSUME NEW a \in advance, Advanced(a) PROVE ExcusedFrom
  BY <1>3 DEF ExcusedFrom, Advanced
<1>4. ASSUME NEW r \in Run, RunConsumes(r) PROVE ExcusedFrom
  BY <1>4 DEF ExcusedFrom, RunConsumes
<1>5. ASSUME NEW r \in Run, RunFinishes(r) PROVE ExcusedFrom
  BY <1>5 DEF ExcusedFrom, RunFinishes
<1>6. ASSUME NEW r \in Run, RunFails(r) PROVE ExcusedFrom
  BY <1>6 DEF ExcusedFrom, RunFails
<1>7. ASSUME NEW y \in Sync, SyncSchedules(y) PROVE ExcusedFrom
  <2>1. ASSUME NEW u \in excused, u \notin excused'
        PROVE  Round(y, u) /\ store[u].enabled = sync[y].seen[u].enabled
    <3>1. Round(y, sync[y].cur)
      BY <1>7 DEF Round
    <3>2. excused' = IF store[sync[y].cur].enabled = sync[y].seen[sync[y].cur].enabled
                     THEN excused \ {sync[y].cur} ELSE excused \cup {sync[y].cur}
      BY <3>1, RoundExcuses
    <3>3. QED
      BY <2>1, <3>1, <3>2
  <2>2. QED
    BY <2>1 DEF ExcusedFrom
<1>8. ASSUME NEW y \in Sync, SyncFails(y) PROVE ExcusedFrom
  BY <1>8 DEF ExcusedFrom, SyncFails
<1>9. ASSUME NEW t \in Task, TimerFires(t)
      PROVE  ExcusedFrom
  BY <1>2, <1>9 DEF TimerFires, history
<1>10. ASSUME PumpSkips \/ PumpEnds \/ Stop \/ Tick \/ Crash
      PROVE  ExcusedFrom
  BY <1>2, <1>10 DEF PumpSkips, PumpEnds, Stop, Tick, Crash, history
<1>11. ASSUME NEW r \in Run, PumpStarts(r) \/ RunBegins(r) \/ RunSession(r) \/ RunExecuted(r) \/
              RunSettles(r)
      PROVE  ExcusedFrom
  BY <1>2, <1>11 DEF PumpStarts, RunBegins, RunSession, RunExecuted, RunSettles, history
<1>12. ASSUME NEW m \in Manual, NEW t \in Task, RunNow(m, t)
      PROVE  ExcusedFrom
  BY <1>2, <1>12 DEF RunNow, history
<1>13. ASSUME NEW y \in Sync, NEW p \in Projects, SyncBegins(y, p)
      PROVE  ExcusedFrom
  BY <1>2, <1>13 DEF SyncBegins, history
<1>14. ASSUME NEW y \in Sync, Start(y) \/ SyncLists(y) \/ SyncSets(y) \/ SyncSnapshots(y) \/
              SyncChecks(y) \/ SyncInterrupts(y) \/ SyncEnds(y) \/
              EditApplies(y)
      PROVE  ExcusedFrom
  BY <1>2, <1>14 DEF Start, SyncLists, SyncSets, SyncSnapshots, SyncChecks, SyncInterrupts,
     SyncEnds, EditApplies, history
<1>15. ASSUME NEW y \in Sync, NEW t \in Task, EditBegins(y, t)
      PROVE  ExcusedFrom
  BY <1>2, <1>15 DEF EditBegins, history
<1>16. CASE UNCHANGED vars
  BY <1>2, <1>16 DEF vars, config, scheduler, admission, thread, history
<1>17. QED
  BY <1>3, <1>4, <1>5, <1>6, <1>7, <1>8, <1>9, <1>10, <1>11, <1>12, <1>13, <1>14, <1>15,
     <1>16, Zenon DEF Next, Step, RunStep, SyncStep

(***************************************************************************)
(* The missed slots that are being advanced.                               *)
(***************************************************************************)
LEMMA AdvanceFromStep ==
  ASSUME IInv, ~Crash, [Next]_vars
  PROVE  AdvanceFrom
<1>1. TypeClock
  BY DEF IInv, TypeParts
<1>2. ASSUME UNCHANGED advance PROVE AdvanceFrom
  BY <1>2 DEF AdvanceFrom
<1>3. ASSUME NEW t \in Task, TimerFires(t) PROVE AdvanceFrom
  <2>1. CASE UNCHANGED advance
    BY <2>1 DEF AdvanceFrom
  <2>2. CASE /\ mem[t].enabled /\ Missed(t, timer[t])
             /\ advance' = advance \cup {<<t, ComputeNextRunAt(t, mem[t])>>}
    <3>1. t \notin Once
      BY <2>2 DEF Missed
    <3>2. ComputeNextRunAt(t, mem[t]) \in Nat
      BY <1>1, <2>2, <3>1, BoundAssumption DEF ComputeNextRunAt, TypeClock
    <3>3. QED
      BY <2>2, <3>1, <3>2, NoneAssumption DEF AdvanceFrom
  <2>3. QED
    BY <1>3, <2>1, <2>2 DEF TimerFires
<1>4. ASSUME NEW a \in advance, Advanced(a) PROVE AdvanceFrom
  <2>1. advance' = advance \ {a}
    BY <1>4, AdvancedEffect
  <2>2. QED
    BY <1>4, <2>1 DEF AdvanceFrom
<1>5. ASSUME Crash PROVE AdvanceFrom
  BY <1>5
<1>6. ASSUME PumpSkips \/ PumpEnds \/ Stop \/ Tick
      PROVE  AdvanceFrom
  BY <1>2, <1>6 DEF PumpSkips, PumpEnds, Stop, Tick, scheduler
<1>7. ASSUME NEW r \in Run, PumpStarts(r) \/ RunBegins(r) \/ RunSession(r) \/ RunExecuted(r) \/
              RunConsumes(r) \/ RunFinishes(r) \/ RunFails(r) \/
              RunSettles(r)
      PROVE  AdvanceFrom
  BY <1>2, <1>7 DEF PumpStarts, RunBegins, RunSession, RunExecuted, RunConsumes,
     RunFinishes, RunFails, RunSettles, scheduler
<1>8. ASSUME NEW m \in Manual, NEW t \in Task, RunNow(m, t)
      PROVE  AdvanceFrom
  BY <1>2, <1>8 DEF RunNow, scheduler
<1>9. ASSUME NEW y \in Sync, NEW p \in Projects, SyncBegins(y, p)
      PROVE  AdvanceFrom
  BY <1>2, <1>9 DEF SyncBegins, scheduler
<1>10. ASSUME NEW y \in Sync, Start(y) \/ SyncLists(y) \/ SyncSets(y) \/ SyncSchedules(y) \/
              SyncFails(y) \/ SyncSnapshots(y) \/ SyncChecks(y) \/
              SyncInterrupts(y) \/ SyncEnds(y) \/ EditApplies(y)
      PROVE  AdvanceFrom
  BY <1>2, <1>10 DEF Start, SyncLists, SyncSets, SyncSchedules, SyncFails, SyncSnapshots,
     SyncChecks, SyncInterrupts, SyncEnds, EditApplies, scheduler
<1>11. ASSUME NEW y \in Sync, NEW t \in Task, EditBegins(y, t)
      PROVE  AdvanceFrom
  BY <1>2, <1>11 DEF EditBegins, scheduler
<1>12. CASE UNCHANGED vars
  BY <1>2, <1>12 DEF vars, config, scheduler, admission, thread, history
<1>13. QED
  BY <1>3, <1>4, <1>5, <1>6, <1>7, <1>8, <1>9, <1>10, <1>11, <1>12, Zenon DEF Next, Step,
     RunStep, SyncStep

(***************************************************************************)
(* A record that a step leaves enabled or disabled, there or not.          *)
(***************************************************************************)
LEMMA RecordSame ==
  ASSUME NEW u, \A t \in Task : t # u => store'[t] = store[t],
         u \in Task => store'[u].present = store[u].present /\ store'[u].enabled = store[u].enabled
  PROVE  \A t \in Task : RecordFrom(t)
BY DEF RecordFrom

(***************************************************************************)
(* An edit does not create a task.                                         *)
(***************************************************************************)
LEMMA EditPresent ==
  ASSUME IInv, NEW y \in Sync, EditApplies(y), NEW t, t = sync[y].cur
  PROVE  store'[t].present => store[t].present
<1>1. t \in Task /\ TypeRecords
  BY EditEffect DEF IInv, TypeParts
<1>2. store' \in {[store EXCEPT ![t].enabled = store[t].present /\ ~store[t].enabled],
                  [store EXCEPT ![t] = Absent]}
  BY DEF EditApplies
<1>3. QED
  BY <1>1, <1>2 DEF TypeRecords, Records, Absent

(***************************************************************************)
(* The records of the recurring tasks.                                     *)
(***************************************************************************)
LEMMA RecordFromStep ==
  ASSUME IInv, ConsumesOnce, EditInside, [Next]_vars
  PROVE  \A u \in Task \ Once : RecordFrom(u)
<1>1. TypeRecords
  BY DEF IInv, TypeParts
<1>2. ASSUME UNCHANGED store PROVE \A u \in Task \ Once : RecordFrom(u)
  BY <1>2 DEF RecordFrom
<1>3. ASSUME NEW a \in advance, Advanced(a) PROVE \A u \in Task \ Once : RecordFrom(u)
  <2> DEFINE u == a[1]
  <2>1. OnlyTask(u)
    BY <1>3, AdvancedEffect
  <2>2. u \in Task => store'[u].present = store[u].present /\ store'[u].enabled = store[u].enabled
    BY <1>3, AdvancedEffect
  <2>3. QED
    BY <2>1, <2>2, RecordSame DEF OnlyTask
<1>4. ASSUME NEW r \in Run, RunBegins(r) PROVE \A u \in Task \ Once : RecordFrom(u)
  <2> DEFINE u == run[r].task
  <2>1. OnlyTask(u)
    BY <1>4, BeginsEffect
  <2>2. u \in Task => store'[u].present = store[u].present /\ store'[u].enabled = store[u].enabled
    BY <1>4, BeginsEffect DEF Copied
  <2>3. QED
    BY <2>1, <2>2, RecordSame DEF OnlyTask
<1>5. ASSUME NEW r \in Run, RunConsumes(r) PROVE \A u \in Task \ Once : RecordFrom(u)
  <2>1. run[r].task \in Once /\ OnlyTask(run[r].task)
    BY <1>5, ConsumesEffect DEF ConsumesOnce
  <2>2. QED
    BY <2>1 DEF OnlyTask, RecordFrom
<1>6. ASSUME NEW r \in Run, RunFinishes(r) PROVE \A u \in Task \ Once : RecordFrom(u)
  <2> DEFINE u == run[r].task
  <2>1. OnlyTask(u)
    BY <1>6, FinishesEffect
  <2>2. u \in Task => store'[u].present = store[u].present /\ store'[u].enabled = store[u].enabled
    BY <1>6, FinishesEffect DEF Copied
  <2>3. QED
    BY <2>1, <2>2, RecordSame DEF OnlyTask
<1>7. ASSUME NEW y \in Sync, SyncSchedules(y) PROVE \A u \in Task \ Once : RecordFrom(u)
  <2> DEFINE u == sync[y].cur
  <2>1. OnlyTask(u)
    BY <1>7, SchedulesEffect
  <2>2. u \in Task => store'[u].present = store[u].present /\ store'[u].enabled = store[u].enabled
    BY <1>7, SchedulesEffect
  <2>3. QED
    BY <2>1, <2>2, RecordSame DEF OnlyTask
<1>8. ASSUME NEW y \in Sync, SyncInterrupts(y) PROVE \A u \in Task \ Once : RecordFrom(u)
  <2> DEFINE u == sync[y].cur
  <2>1. OnlyTask(u)
    BY <1>8, InterruptsEffect
  <2>2. u \in Task => store'[u].present = store[u].present /\ store'[u].enabled = store[u].enabled
    BY <1>8, InterruptsEffect
  <2>3. QED
    BY <2>1, <2>2, RecordSame DEF OnlyTask
<1>9. ASSUME NEW y \in Sync, EditApplies(y) PROVE \A u \in Task \ Once : RecordFrom(u)
  <2>1. PICK u : u = sync[y].cur
    OBVIOUS
  <2>2. /\ \A t \in Task : t # u => store'[t] = store[t]
        /\ store'[u].present => store[u].present
    BY <1>9, <2>1, EditEffect, EditPresent
  <2>3. Lists(y, u)'
    BY <1>9, <2>1, EditEffect DEF Lists, EditInside
  <2>4. ASSUME NEW t \in Task PROVE RecordFrom(t)
    BY <2>2, <2>3 DEF RecordFrom
  <2>5. QED
    BY <2>4
<1>10. ASSUME NEW t \in Task, TimerFires(t)
      PROVE  \A u \in Task \ Once : RecordFrom(u)
  BY <1>2, <1>10 DEF TimerFires, config
<1>11. ASSUME PumpSkips \/ PumpEnds \/ Stop \/ Tick \/ Crash
      PROVE  \A u \in Task \ Once : RecordFrom(u)
  BY <1>2, <1>11 DEF PumpSkips, PumpEnds, Stop, Tick, Crash, config
<1>12. ASSUME NEW r \in Run, PumpStarts(r) \/ RunSession(r) \/ RunExecuted(r) \/ RunFails(r) \/
              RunSettles(r)
      PROVE  \A u \in Task \ Once : RecordFrom(u)
  BY <1>2, <1>12 DEF PumpStarts, RunSession, RunExecuted, RunFails, RunSettles, config
<1>13. ASSUME NEW m \in Manual, NEW t \in Task, RunNow(m, t)
      PROVE  \A u \in Task \ Once : RecordFrom(u)
  BY <1>2, <1>13 DEF RunNow, config
<1>14. ASSUME NEW y \in Sync, NEW p \in Projects, SyncBegins(y, p)
      PROVE  \A u \in Task \ Once : RecordFrom(u)
  BY <1>2, <1>14 DEF SyncBegins, config
<1>15. ASSUME NEW y \in Sync, Start(y) \/ SyncLists(y) \/ SyncSets(y) \/ SyncFails(y) \/
              SyncSnapshots(y) \/ SyncChecks(y) \/ SyncEnds(y)
      PROVE  \A u \in Task \ Once : RecordFrom(u)
  BY <1>2, <1>15 DEF Start, SyncLists, SyncSets, SyncFails, SyncSnapshots, SyncChecks,
     SyncEnds, config
<1>16. ASSUME NEW y \in Sync, NEW t \in Task, EditBegins(y, t)
      PROVE  \A u \in Task \ Once : RecordFrom(u)
  BY <1>2, <1>16 DEF EditBegins, config
<1>17. CASE UNCHANGED vars
  BY <1>2, <1>17 DEF vars, config, scheduler, admission, thread, history
<1>18. QED
  BY <1>3, <1>4, <1>5, <1>6, <1>7, <1>8, <1>9, <1>10, <1>11, <1>12, <1>13, <1>14, <1>15,
     <1>16, <1>17, Zenon DEF Next, Step, RunStep, SyncStep

(***************************************************************************)
(* A task of which memory keeps what it has, or gets what is on disk.      *)
(***************************************************************************)
LEMMA MemGained ==
  ASSUME \A t \in Task : mem'[t] \in {mem[t], store'[t]}
  PROVE  \A t \in Task : MemLost(t)
BY DEF MemLost

(***************************************************************************)
(* The records in memory.                                                  *)
(***************************************************************************)
LEMMA MemLostStep ==
  ASSUME IInv, StoreMortal, ~Crash, [Next]_vars
  PROVE  \A u \in Task : MemLost(u)
<1>1. TypeRecords
  BY DEF IInv, TypeParts
<1>2. ASSUME UNCHANGED mem PROVE \A u \in Task : MemLost(u)
  BY <1>2 DEF MemLost
<1>3. ASSUME NEW a \in advance, Advanced(a) PROVE \A u \in Task : MemLost(u)
  <2> DEFINE u == a[1]
  <2>1. OnlyTask(u) /\ mem'[u] \in {mem[u], store'[u]}
    BY <1>3, AdvancedEffect
  <2>2. QED
    BY <2>1, MemGained DEF OnlyTask
<1>4. ASSUME NEW r \in Run, RunBegins(r) PROVE \A u \in Task : MemLost(u)
  <2> DEFINE u == run[r].task
  <2>1. OnlyTask(u) /\ mem'[u] \in {mem[u], store'[u]}
    BY <1>4, BeginsEffect DEF Copied
  <2>2. QED
    BY <2>1, MemGained DEF OnlyTask
<1>5. ASSUME NEW r \in Run, RunSession(r) PROVE \A u \in Task : MemLost(u)
  <2>1. mem' = [mem EXCEPT ![run[r].task] = store[run[r].task]] /\ UNCHANGED store
    BY <1>5 DEF RunSession, config
  <2>2. QED
    BY <1>1, <2>1, MemGained DEF TypeRecords
<1>6. ASSUME NEW r \in Run, RunConsumes(r) PROVE \A u \in Task : MemLost(u)
  <2> DEFINE u == run[r].task
  <2>1. OnlyTask(u) /\ mem'[u] \in {mem[u], store'[u]}
    BY <1>6, ConsumesEffect
  <2>2. QED
    BY <2>1, MemGained DEF OnlyTask
<1>7. ASSUME NEW r \in Run, RunFinishes(r) PROVE \A u \in Task : MemLost(u)
  <2> DEFINE u == run[r].task
  <2>1. OnlyTask(u) /\ mem'[u] \in {mem[u], store'[u]}
    BY <1>7, FinishesEffect DEF Copied
  <2>2. QED
    BY <2>1, MemGained DEF OnlyTask
<1>8. ASSUME NEW y \in Sync, SyncSets(y) PROVE \A u \in Task : MemLost(u)
  <2>1. ASSUME NEW t \in Task PROVE MemLost(t)
    <3>1. /\ UNCHANGED store /\ sync'[y].seen \in {store, sync[y].seen}
          /\ mem'[t] = IF t \in sync[y].project THEN sync'[y].seen[t] ELSE mem[t]
      BY <1>8, SetsEffect
    <3>2. QED
      BY <1>8, <3>1 DEF MemLost
  <2>2. QED
    BY <2>1
<1>9. ASSUME NEW y \in Sync, SyncSchedules(y) PROVE \A u \in Task : MemLost(u)
  <2> DEFINE u == sync[y].cur
  <2>1. /\ u \in Task /\ OnlyTask(u) /\ store'[u].enabled = store[u].enabled
        /\ store[u].present => mem'[u] = store'[u]
    BY <1>9, SchedulesEffect
  <2>2. MemLost(u)
    BY <2>1 DEF StoreMortal, MemLost
  <2>3. QED
    BY <2>1, <2>2 DEF OnlyTask, MemLost
<1>10. ASSUME NEW y \in Sync, SyncInterrupts(y) PROVE \A u \in Task : MemLost(u)
  <2> DEFINE u == sync[y].cur
  <2>1. OnlyTask(u) /\ mem'[u] \in {mem[u], store'[u]}
    BY <1>10, InterruptsEffect
  <2>2. QED
    BY <2>1, MemGained DEF OnlyTask
<1>11. ASSUME Crash PROVE \A u \in Task : MemLost(u)
  BY <1>11
<1>12. ASSUME NEW t \in Task, TimerFires(t)
      PROVE  \A u \in Task : MemLost(u)
  BY <1>2, <1>12 DEF TimerFires, scheduler
<1>13. ASSUME PumpSkips \/ PumpEnds \/ Stop \/ Tick
      PROVE  \A u \in Task : MemLost(u)
  BY <1>2, <1>13 DEF PumpSkips, PumpEnds, Stop, Tick, scheduler
<1>14. ASSUME NEW r \in Run, PumpStarts(r) \/ RunExecuted(r) \/ RunFails(r) \/ RunSettles(r)
      PROVE  \A u \in Task : MemLost(u)
  BY <1>2, <1>14 DEF PumpStarts, RunExecuted, RunFails, RunSettles, scheduler
<1>15. ASSUME NEW m \in Manual, NEW t \in Task, RunNow(m, t)
      PROVE  \A u \in Task : MemLost(u)
  BY <1>2, <1>15 DEF RunNow, scheduler
<1>16. ASSUME NEW y \in Sync, NEW p \in Projects, SyncBegins(y, p)
      PROVE  \A u \in Task : MemLost(u)
  BY <1>2, <1>16 DEF SyncBegins, scheduler
<1>17. ASSUME NEW y \in Sync, Start(y) \/ SyncLists(y) \/ SyncFails(y) \/ SyncSnapshots(y) \/
              SyncChecks(y) \/ SyncEnds(y) \/ EditApplies(y)
      PROVE  \A u \in Task : MemLost(u)
  BY <1>2, <1>17 DEF Start, SyncLists, SyncFails, SyncSnapshots, SyncChecks, SyncEnds,
     EditApplies, scheduler
<1>18. ASSUME NEW y \in Sync, NEW t \in Task, EditBegins(y, t)
      PROVE  \A u \in Task : MemLost(u)
  BY <1>2, <1>18 DEF EditBegins, scheduler
<1>19. CASE UNCHANGED vars
  BY <1>2, <1>19 DEF vars, config, scheduler, admission, thread, history
<1>20. QED
  BY <1>3, <1>4, <1>5, <1>6, <1>7, <1>8, <1>9, <1>10, <1>11, <1>12, <1>13, <1>14, <1>15,
     <1>16, <1>17, <1>18, <1>19, Zenon DEF Next, Step, RunStep, SyncStep

-----------------------------------------------------------------------------
(* What holds of slots, lists and places.                                  *)

\* A missed slot is advanced to another one.
Advances == \A a \in advance : a[1] \notin Once /\ a[2] # None

\* A recurring task that is enabled in the list gets a slot.
RoundArms ==
    \A y \in Sync :
        /\ sync[y].pc = "schedule" /\ sync[y].todo # {} /\ sync[y].cur \notin Once
        /\ sync[y].seen[sync[y].cur].enabled
        => sync[y].next # None

\* A recurring task that is missing in a list stays away.
SeenGone ==
    \A y \in Sync, t \in Task \ Once :
        sync[y].pc = "set" /\ ~sync[y].seen[t].present => ~store[t].present

\* Only start visits several projects.
LeftStarts ==
    \A y \in Sync : sync[y].left # {} => sync[y].start /\ sync[y].pc \notin {"idle", "edit"}

\* A task that is enabled, in memory or in a list, is there.
MemMortal == \A t \in Task : mem[t].enabled => mem[t].present
SeenMortal ==
    \A y \in Sync, t \in Task :
        sync[y].pc \in Listed /\ sync[y].seen[t].enabled => sync[y].seen[t].present

\* A run waits for the lock wherever it updates the configuration.
RunWaits == \A r \in Run : run[r].pc \in Updating => In(lock[ProjectOf(run[r].task)], r)

\* A synchronisation waits for the lock of its project only where it needs it, and
\* once.
Waits(y) ==
    \/ sync[y].pc \in {"edit", "set", "interrupt"}
    \/ sync[y].pc = "schedule" /\ sync[y].todo # {}
Placed(y) ==
    \A q \in Projects :
        /\ In(lock[q], y) => Waits(y) /\ q = sync[y].project
        /\ Single(lock[q], y)
SyncPlaces == \A y \in Sync : Placed(y)

(***************************************************************************)
(* What the death of the process leaves.                                   *)
(***************************************************************************)
LEMMA CrashEffect ==
  ASSUME Crash
  PROVE  /\ advance' = {} /\ started' = FALSE /\ UNCHANGED store
         /\ \A y \in Sync : sync'[y].pc = "idle" /\ sync'[y].left = {}
         /\ \A r \in Run : run'[r].pc = "idle"
         /\ \A t \in Task : mem'[t] = Absent
         /\ \A p \in Projects : lock'[p] = <<>>
BY IdleRunTyped DEF Crash, IdleSync

(***************************************************************************)
(* The missed slots.                                                       *)
(***************************************************************************)
LEMMA AdvancesStep ==
  ASSUME IInv, Advances, [Next]_vars
  PROVE  Advances'
<1>1. CASE Crash
  BY <1>1, CrashEffect DEF Advances
<1>2. CASE ~Crash
  <2>1. \A b \in advance' : b \in advance \/ (b[1] \notin Once /\ b[2] # None)
    BY <1>2, AdvanceFromStep DEF AdvanceFrom
  <2>2. QED
    BY <2>1 DEF Advances
<1>3. QED
  BY <1>1, <1>2

(***************************************************************************)
(* computeNextRunAt of an enabled recurring task.                          *)
(***************************************************************************)
LEMMA NextOfRecurring ==
  ASSUME TypeClock, NEW t, t \notin Once, NEW task
  PROVE  ComputeNextRunAt(t, task) = None <=> ~task.enabled
<1>1. now + 1 \in Nat
  BY BoundAssumption DEF TypeClock
<1>2. QED
  BY <1>1, NoneAssumption DEF ComputeNextRunAt

(***************************************************************************)
(* The rounds of the first loop.                                           *)
(***************************************************************************)
LEMMA RoundArmsStep ==
  ASSUME IInv, RoundArms, [Next]_vars
  PROVE  RoundArms'
<1> SUFFICES ASSUME NEW y \in Sync, sync'[y].pc = "schedule", sync'[y].todo # {},
                    sync'[y].cur \notin Once, sync'[y].seen[sync'[y].cur].enabled
             PROVE  sync'[y].next # None
  BY DEF RoundArms
<1>1. TypeClock /\ ~Crash
  BY CrashEffect DEF IInv, TypeParts
<1>2. CASE sync'[y] = sync[y]
  BY <1>2 DEF RoundArms
<1>3. CASE SyncSets(y)
  <2>1. sync'[y].next = ComputeNextRunAt(sync'[y].cur, sync'[y].seen[sync'[y].cur])
    BY <1>3, SetsEffect
  <2>2. QED
    BY <1>1, <2>1, NextOfRecurring
<1>4. CASE SyncSchedules(y)
  <2>1. sync'[y].next = ComputeNextRunAt(sync'[y].cur, sync'[y].seen[sync'[y].cur])
    BY <1>4, SchedulesEffect DEF SyncTo
  <2>2. QED
    BY <1>1, <2>1, NextOfRecurring
<1>5. QED
  BY <1>1, <1>2, <1>3, <1>4, SyncCourseStep DEF SyncCourse, Goes

(***************************************************************************)
(* Tasks that are missing in a list.                                       *)
(***************************************************************************)
LEMMA SeenGoneStep ==
  ASSUME IInv, ConsumesOnce, EditInside, SeenGone, [Next]_vars
  PROVE  SeenGone'
<1> SUFFICES ASSUME NEW y \in Sync, NEW t \in Task \ Once, sync'[y].pc = "set",
                    ~sync'[y].seen[t].present
             PROVE  ~store'[t].present
  BY DEF SeenGone
<1>1. ~Crash /\ (store'[t].present => store[t].present)
  BY CrashEffect, RecordFromStep DEF RecordFrom
<1>2. CASE sync'[y] = sync[y]
  BY <1>1, <1>2 DEF SeenGone
<1>3. CASE SyncLists(y)
  BY <1>1, <1>3, ListsEffect DEF SyncTo
<1>4. QED
  BY <1>1, <1>2, <1>3, SyncCourseStep DEF SyncCourse, Goes

(***************************************************************************)
(* Who visits several projects.                                            *)
(***************************************************************************)
LEMMA LeftStartsStep ==
  ASSUME IInv, LeftStarts, [Next]_vars
  PROVE  LeftStarts'
<1> SUFFICES ASSUME NEW y \in Sync, sync'[y].left # {}
             PROVE  sync'[y].start /\ sync'[y].pc \notin {"idle", "edit"}
  BY DEF LeftStarts
<1>1. ~Crash
  BY CrashEffect
<1>2. CASE /\ sync'[y].left = sync[y].left /\ sync'[y].start = sync[y].start
           /\ sync'[y].pc \notin {"idle", "edit"} \/ sync'[y] = sync[y]
  BY <1>2 DEF LeftStarts
<1>3. CASE Start(y)
  BY <1>3, StartEffect
<1>4. CASE \E p \in Projects : SyncBegins(y, p)
  BY <1>4, SyncBeginsEffect
<1>5. CASE \E t \in Task : EditBegins(y, t)
  BY <1>5, EditBeginsEffect
<1>6. CASE SyncFails(y)
  BY <1>6, SyncFailsEffect
<1>7. CASE SyncEnds(y)
  BY <1>7, EndsEffect DEF LeftStarts
<1>8. CASE EditApplies(y)
  BY <1>8, EditCalls
<1>9. CASE SyncLists(y) \/ SyncSets(y) \/ SyncSchedules(y)
  BY <1>2, <1>9, ListsEffect, SetsEffect, SchedulesEffect DEF SyncTo
<1>10. CASE SyncSnapshots(y) \/ SyncChecks(y) \/ SyncInterrupts(y)
  BY <1>2, <1>10, SnapshotsEffect, ChecksEffect, InterruptsEffect DEF SyncTo
<1>11. QED
  BY <1>1, <1>2, <1>3, <1>4, <1>5, <1>6, <1>7, <1>8, <1>9, <1>10, SyncsGoOnStep
     DEF SyncsGoOn, SyncGoesOn

(***************************************************************************)
(* Who is consumed.                                                        *)
(***************************************************************************)
LEMMA ConsumesOnceStep ==
  ASSUME IInv, ConsumesOnce, [Next]_vars
  PROVE  ConsumesOnce'
<1> SUFFICES ASSUME NEW r \in Run, run'[r].pc = "consume" PROVE run'[r].task \in Once
  BY DEF ConsumesOnce
<1>1. ~Crash /\ TypeRuns
  BY CrashEffect DEF IInv, TypeParts
<1>2. CASE run'[r] = run[r]
  BY <1>2 DEF ConsumesOnce
<1>3. CASE RunExecuted(r)
  <2> DEFINE t == run[r].task
             latest == IF mem[t].present THEN mem[t] ELSE run[r].was
  <2>1. IF t \in Once /\ run[r].reason = "scheduled" /\ latest.enabled
        THEN RunTo(r, "consume", run[r].next, latest)
        ELSE RunTo(r, "finish", ComputeNextRunAt(t, latest), run[r].was)
    BY <1>3, ExecutedEffect
  <2>2. QED
    BY <2>1 DEF RunTo
<1>4. CASE PumpStarts(r) \/ RunBegins(r)
  BY <1>4, StartsEffect, BeginsEffect DEF RunTo
<1>5. CASE RunConsumes(r)
  BY <1>5, ConsumesEffect DEF RunTo
<1>6. CASE RunFinishes(r) \/ RunFails(r)
  BY <1>6, FinishesEffect, FailsEffect DEF RunTo
<1>7. CASE RunSettles(r)
  BY <1>1, <1>7, IdleRunTyped DEF RunSettles, TypeRuns
<1>8. QED
  BY <1>1, <1>2, <1>3, <1>4, <1>5, <1>6, <1>7, RunsGoOnStep DEF RunsGoOn, RunGoesOn

(***************************************************************************)
(* What an edit is about.                                                  *)
(***************************************************************************)
LEMMA EditInsideStep ==
  ASSUME IInv, EditInside, [Next]_vars
  PROVE  EditInside'
<1> SUFFICES ASSUME NEW y \in Sync, sync'[y].pc = "edit" PROVE sync'[y].cur \in sync'[y].project
  BY DEF EditInside
<1>1. ~Crash
  BY CrashEffect
<1>2. CASE sync'[y] = sync[y]
  BY <1>2 DEF EditInside
<1>3. CASE \E t \in Task : EditBegins(y, t)
  BY <1>3, EditBeginsEffect, ProjectOfTask
<1>4. QED
  BY <1>1, <1>2, <1>3, SyncCourseStep DEF SyncCourse, Goes

(***************************************************************************)
(* Enabled tasks in memory,                                                *)
(***************************************************************************)
LEMMA MemMortalStep ==
  ASSUME IInv, IInv', StoreMortal, MemMortal, SeenMortal, [Next]_vars
  PROVE  MemMortal'
<1> SUFFICES ASSUME NEW t \in Task, mem'[t].enabled PROVE mem'[t].present
  BY DEF MemMortal
<1>1. store'[t].enabled => store'[t].present
  BY StoreMortalStep DEF StoreMortal
<1>2. MemFrom(t) /\ ~Absent.enabled
  BY MemFromStep DEF Absent
<1>3. QED
  BY <1>1, <1>2 DEF MemFrom, MemMortal, SeenMortal, Listed

(***************************************************************************)
(* and in lists.                                                           *)
(***************************************************************************)
LEMMA SeenMortalStep ==
  ASSUME IInv, StoreMortal, MemMortal, SeenMortal, [Next]_vars
  PROVE  SeenMortal'
<1> SUFFICES ASSUME NEW y \in Sync, NEW t \in Task, sync'[y].pc \in Listed,
                    sync'[y].seen[t].enabled
             PROVE  sync'[y].seen[t].present
  BY DEF SeenMortal
<1>1. \/ sync[y].pc \in Listed /\ sync'[y].seen[t] = sync[y].seen[t]
      \/ sync'[y].seen[t] \in {store[t], mem[t]}
  BY SyncFromStep DEF SyncFrom
<1>2. QED
  BY <1>1 DEF StoreMortal, MemMortal, SeenMortal

(***************************************************************************)
(* The holder of a lock is in its queue.                                   *)
(***************************************************************************)
LEMMA HolderIn ==
  ASSUME TypeLock, NEW p \in Projects, NEW w, Holds(p, w)
  PROVE  In(lock[p], w)
<1>1. lock[p] \in Seq(Writers) /\ lock[p] # <<>> /\ Head(lock[p]) = w
  BY DEF TypeLock, Holds
<1>2. QED
  BY <1>1, WaitPassed

(***************************************************************************)
(* and nobody is in front of it.                                           *)
(***************************************************************************)
LEMMA HolderFirst ==
  ASSUME TypeLock, NEW p \in Projects, NEW w, Holds(p, w), NEW x, Behind(lock[p], x, w)
  PROVE  ~In(lock[p], x)
<1>1. lock[p] \in Seq(Writers) /\ lock[p] # <<>> /\ Head(lock[p]) = w
  BY DEF TypeLock, Holds
<1>2. QED
  BY <1>1, WaitPassed

(***************************************************************************)
(* The runs that update the configuration wait.                            *)
(***************************************************************************)
LEMMA RunWaitsStep ==
  ASSUME IInv, RunWaits, [Next]_vars
  PROVE  RunWaits'
<1> SUFFICES ASSUME NEW r \in Run, run'[r].pc \in Updating
             PROVE  In(lock'[ProjectOf(run'[r].task)], r)
  BY DEF RunWaits
<1>1. ~Crash /\ TypeRuns /\ TypeLock /\ r \in Writers
  BY CrashEffect, Kinds DEF IInv, TypeParts, Updating
<1>2. CASE run'[r] = run[r]
  <2>1. PlaceKept(r)
    BY <1>1, <1>2, PlaceStep, WriterAssumption DEF Acts
  <2>2. run[r].pc # "idle" /\ In(lock[ProjectOf(run[r].task)], r)
    BY <1>2 DEF RunWaits, Updating
  <2>3. ProjectOf(run[r].task) \in Projects
    BY <1>1, <2>2, ProjectOfTask DEF TypeRuns
  <2>4. QED
    BY <1>2, <2>1, <2>2, <2>3 DEF PlaceKept
<1>3. CASE PumpStarts(r)
  <2> DEFINE t == queue[index].task
  <2>1. t \in Task /\ run'[r].task = t /\ Asks(ProjectOf(t), r)
    BY <1>3, StartsEffect DEF Updating
  <2>2. QED
    BY <1>1, <2>1, ProjectOfTask, LockAsked
<1>4. CASE RunExecuted(r)
  <2>1. run[r].task \in Task /\ Asks(ProjectOf(run[r].task), r) /\ run'[r].task = run[r].task
    BY <1>4, ExecutedEffect DEF RunTo
  <2>2. QED
    BY <1>1, <2>1, ProjectOfTask, LockAsked
<1>5. CASE RunConsumes(r)
  <2>1. run[r].task \in Task /\ run'[r].task = run[r].task
        /\ Holds(ProjectOf(run[r].task), r) /\ AsksAgain(ProjectOf(run[r].task), r)
    BY <1>5, ConsumesEffect DEF RunTo
  <2>2. QED
    BY <1>1, <2>1, ProjectOfTask, HolderIn, LockAgain
<1>6. CASE RunBegins(r)
  BY <1>6, BeginsEffect DEF RunTo, Updating
<1>7. CASE RunFinishes(r) \/ RunFails(r)
  BY <1>7, FinishesEffect, FailsEffect DEF RunTo, Updating
<1>8. CASE RunSettles(r)
  BY <1>1, <1>8, IdleRunTyped DEF RunSettles, TypeRuns, Updating
<1>9. QED
  BY <1>1, <1>2, <1>3, <1>4, <1>5, <1>6, <1>7, <1>8, RunsGoOnStep DEF RunsGoOn, RunGoesOn

(***************************************************************************)
(* A synchronisation joins the queue of its project,                       *)
(***************************************************************************)
LEMMA PlaceTaken ==
  ASSUME TypeLock, NEW y \in Sync, Placed(y), ~Waits(y), NEW p \in Projects, Asks(p, y),
         Waits(y)', sync'[y].project = p
  PROVE  Placed(y)'
<1>1. y \in Writers /\ \A q \in Projects : ~In(lock[q], y) /\ Single(lock[q], y)
  BY DEF Placed, Writers
<1>2. ASSUME NEW q \in Projects
      PROVE  (In(lock'[q], y) => q = p) /\ Single(lock'[q], y)
  BY <1>1, LockAsked
<1>3. QED
  BY <1>2 DEF Placed

(***************************************************************************)
(* leaves it,                                                              *)
(***************************************************************************)
LEMMA PlaceLeft ==
  ASSUME TypeLock, NEW y \in Sync, Placed(y), NEW p \in Projects, p = sync[y].project,
         Holds(p, y), Frees(p)
  PROVE  Placed(y)'
<1>1. lock[p] # <<>> /\ Head(lock[p]) = y
  BY DEF Holds
<1>2. ASSUME NEW q \in Projects
      PROVE  ~In(lock'[q], y) /\ Single(lock'[q], y)
  <2>1. Single(lock[q], y) /\ (In(lock[q], y) => q = p)
    BY DEF Placed
  <2>2. QED
    BY <1>1, <2>1, LockFreed
<1>3. QED
  BY <1>2 DEF Placed

(***************************************************************************)
(* goes to its end,                                                        *)
(***************************************************************************)
LEMMA PlaceAgain ==
  ASSUME TypeLock, NEW y \in Sync, Placed(y), NEW p \in Projects, p = sync[y].project,
         Holds(p, y), AsksAgain(p, y), Waits(y)', sync'[y].project = p
  PROVE  Placed(y)'
<1>1. y \in Writers
  BY DEF Writers
<1>2. ASSUME NEW q \in Projects
      PROVE  (In(lock'[q], y) => q = p) /\ Single(lock'[q], y)
  <2>1. Single(lock[q], y) /\ (In(lock[q], y) => q = p)
    BY DEF Placed
  <2>2. QED
    BY <1>1, <2>1, LockAgain
<1>3. QED
  BY <1>2 DEF Placed

(***************************************************************************)
(* or is not in it.                                                        *)
(***************************************************************************)
LEMMA PlaceFree ==
  ASSUME NEW y \in Sync, Placed(y), ~Waits(y), UNCHANGED lock
  PROVE  Placed(y)'
BY DEF Placed

(***************************************************************************)
(* The places of the synchronisations.                                     *)
(***************************************************************************)
LEMMA SyncPlacesStep ==
  ASSUME IInv, SyncPlaces, [Next]_vars
  PROVE  SyncPlaces'
<1> SUFFICES ASSUME NEW y \in Sync PROVE Placed(y)'
  BY DEF SyncPlaces
<1>1. TypeLock /\ TypeSyncs /\ Placed(y)
  BY DEF IInv, TypeParts, SyncPlaces
<1>2. CASE Crash
  <2>1. \A q \in Projects : Len(lock'[q]) = 0
    BY <1>2, CrashEffect
  <2>2. \A q \in Projects : 1..Len(lock'[q]) = {}
    BY <2>1
  <2>3. QED
    BY <2>2 DEF Placed, In, Single
<1>3. CASE ~Crash /\ sync'[y] = sync[y]
  <2>1. PlaceKept(y)
    BY <1>3, PlaceStep, WriterAssumption DEF Acts
  <2>2. QED
    BY <1>1, <1>3, <2>1 DEF PlaceKept, Placed, Waits
<1>4. CASE Start(y) \/ \E p \in Projects : SyncBegins(y, p)
  <2>1. UNCHANGED lock
    BY <1>4 DEF Start, SyncBegins, config
  <2>2. sync[y].pc = "idle"
    BY <1>4, StartEffect, SyncBeginsEffect
  <2>3. QED
    BY <1>1, <2>1, <2>2, PlaceFree DEF Waits
<1>5. CASE \E t \in Task : EditBegins(y, t)
  BY <1>1, <1>5, EditBeginsEffect, ProjectOfTask, PlaceTaken DEF Waits
<1>6. CASE SyncLists(y)
  BY <1>1, <1>6, ListsEffect, PlaceTaken DEF Waits, SyncTo
<1>7. CASE SyncSets(y)
  <2>1. /\ sync[y].project \in Projects /\ Holds(sync[y].project, y)
        /\ sync'[y].pc = "schedule" /\ sync'[y].project = sync[y].project
        /\ sync'[y].todo = {} => Frees(sync[y].project)
        /\ sync'[y].todo # {} => AsksAgain(sync[y].project, y)
    BY <1>7, SetsEffect DEF SyncTo
  <2>2. QED
    BY <1>1, <2>1, PlaceLeft, PlaceAgain DEF Waits
<1>8. CASE SyncSchedules(y)
  <2>1. /\ sync[y].project \in Projects /\ Holds(sync[y].project, y)
        /\ sync'[y].pc = "schedule" /\ sync'[y].project = sync[y].project
        /\ sync'[y].todo = {} => Frees(sync[y].project)
        /\ sync'[y].todo # {} => AsksAgain(sync[y].project, y)
    BY <1>8, SchedulesEffect DEF SyncTo
  <2>2. QED
    BY <1>1, <2>1, PlaceLeft, PlaceAgain DEF Waits
<1>9. CASE SyncFails(y) \/ SyncInterrupts(y) \/ EditApplies(y)
  BY <1>1, <1>9, SyncFailsEffect, InterruptsEffect, EditEffect, PlaceLeft
<1>10. CASE SyncSnapshots(y) \/ SyncEnds(y)
  <2>1. UNCHANGED lock
    BY <1>10 DEF SyncSnapshots, SyncEnds, config
  <2>2. ~Waits(y)
    BY <1>10, SnapshotsEffect, EndsEffect DEF Waits
  <2>3. QED
    BY <1>1, <2>1, <2>2, PlaceFree
<1>11. CASE SyncChecks(y)
  <2>1. ~Waits(y) /\ sync[y].project \in Projects
    BY <1>11, ChecksEffect DEF Waits
  <2>2. \/ UNCHANGED lock
        \/ Asks(sync[y].project, y) /\ Waits(y)' /\ sync'[y].project = sync[y].project
    BY <1>11, ChecksEffect DEF SyncTo, Waits
  <2>3. QED
    BY <1>1, <2>1, <2>2, PlaceFree, PlaceTaken
<1>12. QED
  BY <1>2, <1>3, <1>4, <1>5, <1>6, <1>7, <1>8, <1>9, <1>10, <1>11, SyncsGoOnStep
     DEF SyncsGoOn, SyncGoesOn

-----------------------------------------------------------------------------
(* Synchronisations on their way to a task.                                *)

ComingTo(y, t) ==
    \/ sync[y].pc \in {"list", "set", "edit"} /\ t \in sync[y].project
    \/ sync[y].pc = "schedule" /\ t \in sync[y].todo
    \/ \E p \in sync[y].left : t \in p
SyncComing(t) == \E y \in Sync : ComingTo(y, t)

(***************************************************************************)
(* Who is about to arm t.                                                  *)
(***************************************************************************)
LEMMA ComingCases ==
  ASSUME NEW t
  PROVE  Coming(t) <=> InFlight(t) \/ (\E a \in advance : a[1] = t) \/ SyncComing(t)
BY DEF Coming, SyncComing, ComingTo

(***************************************************************************)
(* start is on its way to every task.                                      *)
(***************************************************************************)
LEMMA StartComes ==
  ASSUME IInv, NEW y \in Sync, Start(y), NEW t \in Task
  PROVE  SyncComing(t)'
<1>1. /\ sync'[y].pc = "list" /\ sync'[y].project \in Projects
      /\ sync'[y].left = Projects \ {sync'[y].project}
  BY StartEffect
<1>2. PICK p \in Projects : t \in p
  BY ProjectsAssumption
<1>3. ComingTo(y, t)'
  BY <1>1, <1>2 DEF ComingTo
<1>4. QED
  BY <1>3 DEF SyncComing

(***************************************************************************)
(* A failure of the first loop excuses the tasks it had before it, and the *)
(* failure of start stops the runtime.                                     *)
(***************************************************************************)
LEMMA FailsExcuses ==
  ASSUME NEW y \in Sync, SyncFails(y)
  PROVE  /\ sync[y].pc = "schedule" /\ excused' = excused \cup sync[y].todo
         /\ sync[y].start /\ started => ~started'
BY DEF SyncFails, Stopped

(***************************************************************************)
(* A synchronisation stays on its way to t until it schedules t, fails, or *)
(* does not find t in its list.                                            *)
(***************************************************************************)
LEMMA ComingStep ==
  ASSUME IInv, LeftStarts, [Next]_vars, ~Crash, started, NEW t \in Task, NEW y \in Sync,
         ComingTo(y, t)
  PROVE  \/ ComingTo(y, t)' \/ ~started' \/ t \in excused' \/ Round(y, t)
         \/ SyncSets(y) /\ t \in sync[y].project /\ ~sync'[y].seen[t].present
<1>1. CASE sync'[y] = sync[y]
  BY <1>1 DEF ComingTo
<1>2. CASE sync[y].pc = "idle"
  BY <1>2 DEF ComingTo, LeftStarts
<1>3. CASE SyncLists(y)
  BY <1>3, ListsEffect DEF ComingTo, SyncTo
<1>4. CASE SyncSets(y)
  <2>1. /\ sync[y].pc = "set" /\ sync'[y].pc = "schedule" /\ sync'[y].left = sync[y].left
        /\ t \in sync[y].project => (t \in sync'[y].todo <=> sync'[y].seen[t].present)
    BY <1>4, SetsEffect DEF SyncTo
  <2>2. QED
    BY <1>4, <2>1 DEF ComingTo
<1>5. CASE SyncSchedules(y)
  <2>1. /\ sync[y].pc = "schedule" /\ sync'[y].pc = "schedule" /\ sync'[y].left = sync[y].left
        /\ sync'[y].todo = sync[y].todo \ {sync[y].cur}
    BY <1>5, SchedulesEffect DEF SyncTo
  <2>2. QED
    BY <1>5, <2>1 DEF ComingTo, Round
<1>6. CASE SyncFails(y)
  BY <1>6, FailsExcuses DEF ComingTo, LeftStarts
<1>7. CASE SyncSnapshots(y)
  BY <1>7, SnapshotsEffect DEF ComingTo, SyncTo
<1>8. CASE SyncChecks(y)
  <2>1. sync[y].pc = "reconcile" /\ sync'[y].left = sync[y].left
    BY <1>8, ChecksEffect DEF SyncTo
  <2>2. QED
    BY <2>1 DEF ComingTo
<1>9. CASE SyncInterrupts(y)
  <2>1. sync[y].pc = "interrupt" /\ sync'[y].left = sync[y].left
    BY <1>9, InterruptsEffect DEF SyncTo
  <2>2. QED
    BY <2>1 DEF ComingTo
<1>10. CASE SyncEnds(y)
  BY <1>10, EndsEffect DEF ComingTo
<1>11. CASE EditApplies(y)
  BY <1>11, EditEffect DEF ComingTo, LeftStarts
<1>12. QED
  BY <1>1, <1>2, <1>3, <1>4, <1>5, <1>6, <1>7, <1>8, <1>9, <1>10, <1>11, SyncCourseStep
     DEF SyncCourse, Goes

(***************************************************************************)
(* So somebody comes to an enabled recurring task until it is scheduled or *)
(* excused.                                                                *)
(***************************************************************************)
LEMMA ComingKept ==
  ASSUME IInv, StoreMortal, SeenGone, LeftStarts, [Next]_vars, ~Crash, started,
         NEW t \in Task \ Once, store[t].enabled, SyncComing(t)
  PROVE  SyncComing(t)' \/ ~started' \/ t \in excused' \/ \E y \in Sync : Round(y, t)
<1>1. PICK y \in Sync : ComingTo(y, t)
  BY DEF SyncComing
<1>2. ASSUME SyncSets(y), t \in sync[y].project PROVE sync'[y].seen[t].present
  <2>1. sync[y].pc = "set" /\ sync'[y].seen \in {store, sync[y].seen}
    BY <1>2, SetsEffect
  <2>2. QED
    BY <2>1 DEF StoreMortal, SeenGone
<1>3. QED
  BY <1>1, <1>2, ComingStep DEF SyncComing

\* A timer that will be honoured, on disk too.
Good(t) == timer[t] # None /\ mem[t].next # None /\ store[t].next # None

(***************************************************************************)
(* A round enables and disables nothing.                                   *)
(***************************************************************************)
LEMMA RoundKeeps ==
  ASSUME IInv, NEW t, NEW y \in Sync, Round(y, t)
  PROVE  store'[t].enabled = store[t].enabled
BY SchedulesEffect DEF Round

(***************************************************************************)
(* The round about an enabled recurring task arms it, unless its list says *)
(* that it is disabled.                                                    *)
(***************************************************************************)
LEMMA RoundEffect ==
  ASSUME IInv, StoreMortal, RoundArms, NEW t \in Task \ Once, store[t].enabled,
         NEW y \in Sync, Round(y, t)
  PROVE  /\ sync[y].pc = "schedule" /\ t \in sync[y].todo /\ Holds(ProjectOf(t), y)
         /\ mem'[t] = store'[t] /\ store'[t].enabled
         /\ ~sync[y].seen[t].enabled => t \in excused'
         /\ sync[y].seen[t].enabled /\ started => Good(t)'
<1>1. SyncSchedules(y) /\ sync[y].cur = t
  BY DEF Round
<1>2. store[t].present
  BY DEF StoreMortal
<1>3. /\ sync[y].pc = "schedule" /\ t \in sync[y].todo /\ t \in sync[y].project
      /\ sync[y].project \in Projects /\ Holds(sync[y].project, y)
  BY <1>1, SchedulesEffect
<1>4. store'[t].enabled = store[t].enabled
  BY RoundKeeps
<1>5. mem'[t] = store'[t] /\ store'[t].next = sync[y].next
  BY <1>1, <1>2, SchedulesEffect
<1>6. timer'[t] = IF store[t].present /\ started /\ store[t].enabled /\ sync[y].next # None
                  THEN sync[y].next ELSE timer[t]
  BY <1>1, SchedulesEffect
<1>7. sync[y].project = ProjectOf(t)
  BY <1>3, ProjectOfTask
<1>8. sync[y].seen[t].enabled => sync[y].next # None
  BY <1>1, <1>3 DEF RoundArms
<1>9. sync[y].seen[t].enabled /\ started => Good(t)'
  BY <1>2, <1>5, <1>6, <1>8 DEF Good
<1>10. ~sync[y].seen[t].enabled => t \in excused'
  BY RoundExcuses
<1>11. QED
  BY <1>3, <1>4, <1>5, <1>7, <1>9, <1>10

-----------------------------------------------------------------------------
(* Memory, lists and runs that have missed that a task was enabled.        *)

Basis ==
    /\ IInv /\ StoreMortal /\ SyncLocked /\ Advances /\ RoundArms /\ SeenGone /\ LeftStarts
    /\ ConsumesOnce /\ EditInside /\ MemMortal /\ SeenMortal /\ RunWaits /\ SyncPlaces

(***************************************************************************)
(* What the rest of the proof builds on is inductive.                      *)
(***************************************************************************)
LEMMA BasisStep ==
  ASSUME Basis, [Next]_vars
  PROVE  Basis'
<1>1. IInv /\ IInv' /\ StoreMortal /\ SyncLocked /\ ConsumesOnce /\ EditInside
  BY IInvStep DEF Basis
<1>2. StoreMortal' /\ SyncLocked'
  BY <1>1, StoreMortalStep, SyncLockedStep
<1>3. Advances' /\ RoundArms'
  BY <1>1, AdvancesStep, RoundArmsStep DEF Basis
<1>4. SeenGone' /\ LeftStarts'
  BY <1>1, SeenGoneStep, LeftStartsStep DEF Basis
<1>5. ConsumesOnce' /\ EditInside'
  BY <1>1, ConsumesOnceStep, EditInsideStep
<1>6. MemMortal' /\ SeenMortal'
  BY <1>1, MemMortalStep, SeenMortalStep DEF Basis
<1>7. RunWaits' /\ SyncPlaces'
  BY <1>1, RunWaitsStep, SyncPlacesStep DEF Basis
<1>8. QED
  BY <1>1, <1>2, <1>3, <1>4, <1>5, <1>6, <1>7 DEF Basis

\* The first loop of y has still to come to t.
Todo(y, t) == sync[y].pc = "schedule" /\ t \in sync[y].todo

\* y will show memory that t is enabled: it has not listed the tasks yet, or it
\* has listed t as enabled.
Renews(y, t) == Lists(y, t) \/ Stale(y, t)

\* Memory has missed that t was enabled: a synchronisation comes to t, unless t is
\* excused.
Noticed(t) ==
    started /\ t \notin excused /\ ~mem[t].enabled /\ store[t].enabled => SyncComing(t)

\* A list in which t is still disabled is followed by one in which it is enabled.
Corrected(t) ==
    \A z \in Sync :
        sync[z].pc = "set" /\ t \in sync[z].project /\ ~sync[z].seen[t].enabled /\ store[t].enabled
        => \E y \in Sync :
               \/ Lists(y, t)
               \/ Stale(y, t) /\ Behind(lock[ProjectOf(t)], z, y)

\* While memory has missed that t was enabled, somebody will show it, or nobody
\* will schedule t as enabled and so pardon it.
Renewed(t) ==
    ~mem[t].enabled /\ store[t].enabled =>
        \/ \E y \in Sync : Renews(y, t)
        \/ \A y \in Sync : Todo(y, t) => ~sync[y].seen[t].enabled

(***************************************************************************)
(* A synchronisation that will show that t is enabled does so.             *)
(***************************************************************************)
LEMMA RenewsStep ==
  ASSUME IInv, [Next]_vars, ~Crash, NEW t \in Task, store[t].enabled, NEW y \in Sync, Renews(y, t)
  PROVE  Renews(y, t)' \/ (SyncSets(y) /\ Stale(y, t))
<1>1. CASE sync'[y] = sync[y]
  BY <1>1 DEF Renews, Lists, Stale
<1>2. CASE SyncLists(y)
  <2>1. /\ sync[y].pc = "list" /\ sync'[y].pc = "set" /\ sync'[y].seen = store
        /\ sync'[y].project = sync[y].project
    BY <1>2, ListsEffect DEF SyncTo
  <2>2. QED
    BY <2>1 DEF Renews, Lists, Stale
<1>3. CASE SyncSets(y)
  <2>1. sync[y].pc = "set"
    BY <1>3, SetsEffect
  <2>2. QED
    BY <1>3, <2>1 DEF Renews, Lists
<1>4. QED
  BY <1>1, <1>2, <1>3, SyncCourseStep DEF SyncCourse, Goes, Renews, Lists, Stale

(***************************************************************************)
(* It puts t into memory and goes to the end of the queue to schedule it.  *)
(***************************************************************************)
LEMMA SetsEnabled ==
  ASSUME IInv, StoreMortal, SeenMortal, NEW t \in Task, store[t].enabled, NEW y \in Sync,
         SyncSets(y), Stale(y, t)
  PROVE  /\ mem'[t].enabled /\ Todo(y, t)' /\ sync'[y].seen[t].enabled
         /\ Holds(ProjectOf(t), y) /\ AsksAgain(ProjectOf(t), y)
<1>1. /\ sync[y].pc = "set" /\ sync[y].project \in Projects /\ t \in sync[y].project
      /\ sync[y].seen[t].enabled
  BY SetsEffect DEF Stale
<1>2. sync'[y].seen[t].enabled /\ sync'[y].seen[t].present
  BY <1>1, SetsEffect DEF StoreMortal, SeenMortal, Listed
<1>3. sync'[y].pc = "schedule" /\ t \in sync'[y].todo
  BY <1>1, <1>2, SetsEffect DEF SyncTo
<1>4. mem'[t] = sync'[y].seen[t]
  BY <1>1, SetsEffect
<1>5. Holds(sync[y].project, y) /\ AsksAgain(sync[y].project, y)
  BY <1>3, SetsEffect
<1>6. sync[y].project = ProjectOf(t)
  BY <1>1, ProjectOfTask
<1>7. QED
  BY <1>2, <1>3, <1>4, <1>5, <1>6 DEF Todo

(***************************************************************************)
(* Where a synchronisation that has still to come to t comes from.         *)
(***************************************************************************)
LEMMA TodoFrom ==
  ASSUME IInv, [Next]_vars, NEW t \in Task, NEW y \in Sync, Todo(y, t)'
  PROVE  \/ Todo(y, t) /\ sync'[y].seen = sync[y].seen
         \/ /\ SyncSets(y) /\ t \in ProjectOf(t) /\ sync[y].project = ProjectOf(t)
            /\ mem'[t] = sync'[y].seen[t]
<1>1. ~Crash /\ sync'[y].pc = "schedule" /\ t \in sync'[y].todo
  BY CrashEffect DEF Todo
<1>2. CASE sync'[y] = sync[y]
  BY <1>1, <1>2 DEF Todo
<1>3. CASE SyncSets(y)
  <2>1. sync[y].project \in Projects /\ sync'[y].todo \subseteq sync[y].project
    BY <1>3, SetsEffect
  <2>2. mem'[t] = sync'[y].seen[t]
    BY <1>1, <1>3, <2>1, SetsEffect
  <2>3. QED
    BY <1>1, <1>3, <2>1, <2>2, ProjectOfTask
<1>4. CASE SyncSchedules(y)
  <2>1. sync[y].pc = "schedule" /\ sync'[y].todo = sync[y].todo \ {sync[y].cur}
        /\ sync'[y].seen = sync[y].seen
    BY <1>4, SchedulesEffect DEF SyncTo
  <2>2. QED
    BY <1>1, <2>1 DEF Todo
<1>5. QED
  BY <1>1, <1>2, <1>3, <1>4, SyncCourseStep DEF SyncCourse, Goes

(***************************************************************************)
(* A task that is enabled is shown by the synchronisation behind the edit. *)
(***************************************************************************)
LEMMA EnabledFrom ==
  ASSUME Basis, [Next]_vars, NEW t \in Task \ Once, store'[t].enabled, ~store[t].enabled
  PROVE  \E y \in Sync : Lists(y, t)'
BY RecordFromStep DEF Basis, RecordFrom

(***************************************************************************)
(* Somebody comes to a task that memory has missed.                        *)
(***************************************************************************)
LEMMA NoticedStep ==
  ASSUME Basis, [Next]_vars, NEW t \in Task \ Once, Noticed(t)
  PROVE  Noticed(t)'
<1> SUFFICES ASSUME started', t \notin excused', ~mem'[t].enabled, store'[t].enabled
             PROVE  SyncComing(t)'
  BY DEF Noticed
<1>1. /\ IInv /\ StoreMortal /\ RoundArms /\ SeenGone /\ LeftStarts /\ ~Crash
  BY CrashEffect DEF Basis
<1>2. CASE \E y \in Sync : Start(y)
  BY <1>1, <1>2, StartComes
<1>3. CASE ~store[t].enabled
  <2>1. PICK y \in Sync : Lists(y, t)'
    BY <1>3, EnabledFrom
  <2>2. QED
    BY <2>1 DEF Lists, SyncComing, ComingTo
<1>4. CASE started /\ store[t].enabled
  <2>1. ASSUME NEW y \in Sync PROVE ~Round(y, t)
    <3>1. Round(y, t) => mem'[t] = store'[t]
      BY <1>1, <1>4, RoundEffect
    <3>2. QED
      BY <3>1
  <2>2. t \notin excused
    BY <1>1, <2>1, ExcusedFromStep DEF ExcusedFrom
  <2>3. CASE mem[t].enabled
    <3>1. PICK y \in Sync : SyncSets(y) /\ t \in sync[y].project /\ ~sync[y].seen[t].enabled
      BY <1>1, <2>3, MemLostStep DEF MemLost
    <3>2. /\ sync[y].pc = "set" /\ sync'[y].seen \in {store, sync[y].seen}
          /\ sync'[y].pc = "schedule" /\ (t \in sync'[y].todo <=> sync'[y].seen[t].present)
      BY <1>1, <3>1, SetsEffect DEF SyncTo
    <3>3. sync'[y].seen[t].present
      BY <1>1, <1>4, <3>2 DEF StoreMortal, SeenGone
    <3>4. QED
      BY <3>2, <3>3 DEF SyncComing, ComingTo
  <2>4. CASE ~mem[t].enabled
    <3>1. SyncComing(t)
      BY <1>4, <2>2, <2>4 DEF Noticed
    <3>2. QED
      BY <1>1, <1>4, <2>1, <3>1, ComingKept
  <2>5. QED
    BY <2>3, <2>4
<1>5. QED
  BY <1>1, <1>2, <1>3, <1>4, StartedFromStep DEF StartedFrom

(***************************************************************************)
(* A list in which t is disabled is followed by another one.               *)
(***************************************************************************)
LEMMA CorrectedStep ==
  ASSUME Basis, [Next]_vars, NEW t \in Task \ Once, Corrected(t)
  PROVE  Corrected(t)'
<1> DEFINE p == ProjectOf(t)
<1> SUFFICES ASSUME NEW z \in Sync, sync'[z].pc = "set", t \in sync'[z].project,
                    ~sync'[z].seen[t].enabled, store'[t].enabled
             PROVE  \E y \in Sync : Lists(y, t)' \/ (Stale(y, t)' /\ Behind(lock'[p], z, y))
  BY DEF Corrected
<1>1. /\ IInv /\ SyncLocked /\ SyncPlaces /\ TypeLock /\ ~Crash /\ p \in Projects
  BY CrashEffect, ProjectOfTask DEF Basis, IInv, TypeParts
<1>2. CASE ~store[t].enabled
  BY <1>2, EnabledFrom
<1>3. CASE store[t].enabled
  <2>1. sync'[z] = sync[z]
    <3>1. SyncLists(z) => sync'[z].seen = store
      BY <1>1, ListsEffect DEF SyncTo
    <3>2. QED
      BY <1>1, <1>3, <3>1, SyncCourseStep DEF SyncCourse, Goes
  <2>2. sync[z].project = p /\ In(lock[p], z)
    <3>1. sync[z].project \in Projects
      BY <1>1, <2>1 DEF IInv, TypeParts, TypeSyncs
    <3>2. QED
      BY <1>1, <2>1, <3>1, ProjectOfTask DEF SyncLocked
  <2>3. PlaceKept(z)
    BY <1>1, <2>1, PlaceStep, WriterAssumption DEF Acts
  <2>4. PICK y \in Sync : Lists(y, t) \/ (Stale(y, t) /\ Behind(lock[p], z, y))
    BY <1>3, <2>1 DEF Corrected
  <2>5. CASE Lists(y, t)
    <3>1. CASE SyncLists(y)
      <4>1. /\ sync[y].pc = "list" /\ sync[y].project \in Projects /\ t \in sync[y].project
            /\ sync'[y].pc = "set" /\ sync'[y].project = sync[y].project /\ sync'[y].seen = store
            /\ Asks(sync[y].project, y)
        BY <1>1, <2>5, <3>1, ListsEffect DEF SyncTo, Lists
      <4>2. sync[y].project = p /\ y # z /\ y \in Writers /\ ~In(lock[p], y)
        BY <1>1, <2>1, <4>1, ProjectOfTask DEF SyncPlaces, Placed, Waits, Writers
      <4>3. Behind(lock'[p], z, y)
        <5>1. Asks(p, y)
          BY <4>1, <4>2
        <5>2. \A x : x # y /\ ~In(lock[p], y) => Behind(lock'[p], x, y)
          BY <1>1, <4>2, <5>1, LockAsked
        <5>3. QED
          BY <4>2, <5>2
      <4>4. QED
        BY <1>3, <4>1, <4>3 DEF Stale
    <3>2. CASE sync'[y] = sync[y]
      BY <2>5, <3>2 DEF Lists
    <3>3. QED
      BY <1>1, <2>5, <3>1, <3>2, SyncCourseStep DEF SyncCourse, Goes, Lists
  <2>6. CASE Stale(y, t) /\ Behind(lock[p], z, y)
    <3>1. sync[y].pc = "set" /\ sync[y].project = p
      <4>1. sync[y].pc = "set" /\ t \in sync[y].project /\ sync[y].project \in Projects
        BY <1>1, <2>6 DEF Stale, IInv, TypeParts, TypeSyncs
      <4>2. QED
        BY <4>1, ProjectOfTask
    <3>2. ~SyncSets(y)
      <4>1. ~Holds(p, y)
        BY <1>1, <2>2, <2>6, HolderFirst
      <4>2. QED
        BY <1>1, <3>1, <4>1, SetsEffect
    <3>3. sync'[y] = sync[y]
      BY <1>1, <3>1, <3>2, SyncCourseStep DEF SyncCourse, Goes
    <3>4. QED
      BY <1>1, <2>3, <2>6, <3>3 DEF Stale, PlaceKept
  <2>7. QED
    BY <2>4, <2>5, <2>6
<1>4. QED
  BY <1>2, <1>3

(***************************************************************************)
(* Memory is shown what it has missed, or t is not pardoned.               *)
(***************************************************************************)
LEMMA RenewedStep ==
  ASSUME Basis, [Next]_vars, NEW t \in Task \ Once, Corrected(t), Renewed(t)
  PROVE  Renewed(t)'
<1> SUFFICES ASSUME ~mem'[t].enabled, store'[t].enabled
             PROVE  \/ \E y \in Sync : Renews(y, t)'
                    \/ \A y \in Sync : Todo(y, t)' => ~sync'[y].seen[t].enabled
  BY DEF Renewed
<1>1. IInv /\ StoreMortal /\ SeenMortal
  BY DEF Basis
<1>2. CASE Crash
  BY <1>2, CrashEffect DEF Todo
<1>3. CASE ~store[t].enabled
  BY <1>3, EnabledFrom DEF Renews
<1>4. ASSUME ~Crash, store[t].enabled, NEW y \in Sync, Renews(y, t)
      PROVE  Renews(y, t)'
  BY <1>1, <1>4, RenewsStep, SetsEnabled
<1>5. CASE ~Crash /\ store[t].enabled /\ mem[t].enabled
  <2>1. PICK z \in Sync : SyncSets(z) /\ t \in sync[z].project /\ ~sync[z].seen[t].enabled
    BY <1>1, <1>5, MemLostStep DEF MemLost
  <2>2. sync[z].pc = "set"
    BY <1>1, <2>1, SetsEffect
  <2>3. \E y \in Sync : Renews(y, t)
    BY <1>5, <2>1, <2>2 DEF Corrected, Renews
  <2>4. QED
    BY <1>4, <1>5, <2>3
<1>6. CASE ~Crash /\ store[t].enabled /\ ~mem[t].enabled
  <2>1. CASE \E y \in Sync : Renews(y, t)
    BY <1>4, <1>6, <2>1
  <2>2. CASE \A y \in Sync : Todo(y, t) => ~sync[y].seen[t].enabled
    <3>1. ASSUME NEW y \in Sync, Todo(y, t)' PROVE ~sync'[y].seen[t].enabled
      BY <1>1, <2>2, <3>1, TodoFrom
    <3>2. QED
      BY <3>1
  <2>3. QED
    BY <1>6, <2>1, <2>2 DEF Renewed
<1>7. QED
  BY <1>2, <1>3, <1>5, <1>6

-----------------------------------------------------------------------------
(* Runs that end without a next slot, since memory had missed that the     *)
(* task was enabled.                                                       *)

Ending(r, t) == run[r].pc = "finish" /\ run[r].task = t /\ run[r].next = None

\* Behind the run, somebody shows memory that t is enabled or schedules it so.
Rescued(r, t) ==
    \E y \in Sync :
        \/ Renews(y, t)
        \/ /\ Todo(y, t) /\ sync[y].seen[t].enabled
           /\ Behind(lock[ProjectOf(t)], r, y)

\* Nobody pardons t before the run, and t is excused or somebody comes to it.
Excusable(r, t) ==
    /\ \A y \in Sync :
        Todo(y, t) /\ ~Behind(lock[ProjectOf(t)], r, y) => ~sync[y].seen[t].enabled
    /\ started => t \in excused \/ SyncComing(t)

\* A run that ends without a next slot though t is enabled.
Followed(t) ==
    \A r \in Run : Ending(r, t) /\ store[t].enabled => Rescued(r, t) \/ Excusable(r, t)

(***************************************************************************)
(* The project of a synchronisation that has still to come to t.           *)
(***************************************************************************)
LEMMA TodoProject ==
  ASSUME IInv, NEW t \in Task, NEW y \in Sync, Todo(y, t)
  PROVE  sync[y].project = ProjectOf(t)
<1>1. sync[y].project \in Projects /\ t \in sync[y].project
  BY DEF Todo, IInv, TypeParts, TypeSyncs, Looping, Legal
<1>2. QED
  BY <1>1, ProjectOfTask

(***************************************************************************)
(* Nothing happens to a synchronisation behind a run that waits.           *)
(***************************************************************************)
LEMMA TodoWaits ==
  ASSUME IInv, [Next]_vars, ~Crash, NEW t \in Task, NEW y \in Sync, Todo(y, t),
         ~Holds(ProjectOf(t), y)
  PROVE  sync'[y] = sync[y]
<1>1. sync[y].pc = "schedule" /\ sync[y].todo # {} /\ sync[y].project = ProjectOf(t)
  BY TodoProject DEF Todo
<1>2. ~SyncSchedules(y) /\ ~SyncFails(y) /\ ~SyncSnapshots(y)
  BY <1>1 DEF SyncSchedules, SyncFails, SyncSnapshots
<1>3. QED
  BY <1>1, <1>2, SyncCourseStep DEF SyncCourse, Goes

(***************************************************************************)
(* What is behind a run that waits stays so.                               *)
(***************************************************************************)
LEMMA RescuedKept ==
  ASSUME Basis, [Next]_vars, ~Crash, NEW t \in Task \ Once, store[t].enabled, NEW r \in Run,
         In(lock[ProjectOf(t)], r), PlaceKept(r), Rescued(r, t)
  PROVE  Rescued(r, t)'
<1>1. IInv /\ StoreMortal /\ SeenMortal /\ SyncPlaces /\ TypeLock /\ ProjectOf(t) \in Projects
  BY ProjectOfTask DEF Basis, IInv, TypeParts
<1>2. ASSUME NEW y \in Sync, Renews(y, t) PROVE Rescued(r, t)'
  <2>1. CASE Renews(y, t)'
    BY <2>1 DEF Rescued
  <2>2. CASE SyncSets(y) /\ Stale(y, t)
    <3>1. /\ Todo(y, t)' /\ sync'[y].seen[t].enabled
          /\ Holds(ProjectOf(t), y) /\ AsksAgain(ProjectOf(t), y)
      BY <1>1, <2>2, SetsEnabled
    <3>2. Single(lock[ProjectOf(t)], y) /\ y \in Writers /\ r # y
      BY <1>1, WriterAssumption DEF SyncPlaces, Placed, Writers
    <3>3. Behind(lock'[ProjectOf(t)], r, y)
      BY <1>1, <3>1, <3>2, AgainLast
    <3>4. QED
      BY <3>1, <3>3 DEF Rescued
  <2>3. QED
    BY <1>1, <1>2, <2>1, <2>2, RenewsStep
<1>3. ASSUME NEW y \in Sync, Todo(y, t), sync[y].seen[t].enabled,
             Behind(lock[ProjectOf(t)], r, y)
      PROVE  Rescued(r, t)'
  <2>1. ~Holds(ProjectOf(t), y)
    BY <1>1, <1>3, HolderFirst
  <2>2. sync'[y] = sync[y]
    BY <1>1, <1>3, <2>1, TodoWaits
  <2>3. Behind(lock'[ProjectOf(t)], r, y)
    BY <1>1, <1>3 DEF PlaceKept
  <2>4. Todo(y, t)' /\ sync'[y].seen[t].enabled
    BY <1>3, <2>2 DEF Todo
  <2>5. QED
    BY <2>3, <2>4 DEF Rescued
<1>4. QED
  BY <1>2, <1>3 DEF Rescued

(***************************************************************************)
(* Nobody who comes behind the run pardons t.                              *)
(***************************************************************************)
LEMMA ExcusableKept ==
  ASSUME Basis, [Next]_vars, ~Crash, NEW t \in Task \ Once, store[t].enabled, NEW r \in Run,
         In(lock[ProjectOf(t)], r), PlaceKept(r), Excusable(r, t)
  PROVE  Excusable(r, t)'
<1>1. /\ IInv /\ StoreMortal /\ SyncPlaces /\ TypeLock /\ ProjectOf(t) \in Projects
      /\ RoundArms /\ SeenGone /\ LeftStarts
  BY ProjectOfTask DEF Basis, IInv, TypeParts
<1>2. ASSUME NEW y \in Sync, Todo(y, t)', ~Behind(lock'[ProjectOf(t)], r, y)
      PROVE  ~sync'[y].seen[t].enabled
  <2>1. CASE Todo(y, t) /\ sync'[y].seen = sync[y].seen
    <3>1. ~Behind(lock[ProjectOf(t)], r, y)
      BY <1>1, <1>2 DEF PlaceKept
    <3>2. QED
      BY <2>1, <3>1 DEF Excusable
  <2>2. CASE SyncSets(y) /\ sync[y].project = ProjectOf(t)
    <3>1. sync'[y].todo # {}
      BY <1>2 DEF Todo
    <3>2. Holds(ProjectOf(t), y) /\ AsksAgain(ProjectOf(t), y)
      BY <1>1, <2>2, <3>1, SetsEffect
    <3>3. Single(lock[ProjectOf(t)], y) /\ y \in Writers /\ r # y
      BY <1>1, WriterAssumption DEF SyncPlaces, Placed, Writers
    <3>4. Behind(lock'[ProjectOf(t)], r, y)
      BY <1>1, <3>2, <3>3, AgainLast
    <3>5. QED
      BY <1>2, <3>4
  <2>3. QED
    BY <1>1, <1>2, <2>1, <2>2, TodoFrom
<1>3. ASSUME NEW y \in Sync, Round(y, t) PROVE ~sync[y].seen[t].enabled /\ t \in excused'
  <2>1. Todo(y, t) /\ Holds(ProjectOf(t), y) /\ (~sync[y].seen[t].enabled => t \in excused')
    BY <1>1, <1>3, RoundEffect DEF Todo
  <2>2. ~Behind(lock[ProjectOf(t)], r, y)
    BY <1>1, <2>1, HolderFirst
  <2>3. QED
    BY <2>1, <2>2 DEF Excusable
<1>4. ASSUME started' PROVE t \in excused' \/ SyncComing(t)'
  <2>1. CASE \E y \in Sync : Start(y)
    BY <1>1, <2>1, StartComes
  <2>2. CASE started /\ t \in excused
    BY <1>1, <1>3, <2>2, ExcusedFromStep DEF ExcusedFrom
  <2>3. CASE started /\ SyncComing(t)
    BY <1>1, <1>3, <1>4, <2>3, ComingKept
  <2>4. QED
    BY <1>1, <1>4, <2>1, <2>2, <2>3, StartedFromStep DEF StartedFrom, Excusable
<1>5. QED
  BY <1>2, <1>4 DEF Excusable

(***************************************************************************)
(* A run whose executor ends while memory has missed that t was enabled.   *)
(***************************************************************************)
LEMMA ExecutedFollowed ==
  ASSUME Basis, NEW t \in Task \ Once, store[t].enabled, Noticed(t), Renewed(t), NEW r \in Run,
         RunExecuted(r), Ending(r, t)'
  PROVE  Rescued(r, t)' \/ Excusable(r, t)'
<1>1. IInv /\ TypeClock /\ MemMortal
  BY DEF Basis, IInv, TypeParts
<1>2. PICK latest : latest = IF mem[t].present THEN mem[t] ELSE run[r].was
  OBVIOUS
<1>3. UNCHANGED <<mem, store, sync, started, excused>>
  BY DEF RunExecuted, scheduler
<1>4. run[r].task = t
  <2>1. run[r].task = run'[r].task
    BY <1>1, ExecutedEffect DEF RunTo
  <2>2. QED
    BY <2>1 DEF Ending
<1>5. RunTo(r, "finish", ComputeNextRunAt(t, latest), run[r].was)
  BY <1>1, <1>2, <1>4, ExecutedEffect
<1>6. ~latest.enabled
  <2>1. ComputeNextRunAt(t, latest) = None
    BY <1>5 DEF RunTo, Ending
  <2>2. QED
    BY <1>1, <2>1, NextOfRecurring
<1>7. ~mem[t].enabled
  BY <1>1, <1>2, <1>6 DEF MemMortal
<1>8. CASE \E y \in Sync : Renews(y, t)
  BY <1>3, <1>8 DEF Rescued, Renews, Lists, Stale
<1>9. CASE \A y \in Sync : Todo(y, t) => ~sync[y].seen[t].enabled
  <2>1. \A y \in Sync : Todo(y, t)' => ~sync'[y].seen[t].enabled
    BY <1>3, <1>9 DEF Todo
  <2>2. started => t \in excused \/ SyncComing(t)
    BY <1>7 DEF Noticed
  <2>3. started' => t \in excused' \/ SyncComing(t)'
    BY <1>3, <2>2 DEF SyncComing, ComingTo
  <2>4. QED
    BY <2>1, <2>3 DEF Excusable
<1>10. QED
  BY <1>7, <1>8, <1>9 DEF Renewed

(***************************************************************************)
(* The runs that end without a next slot.                                  *)
(***************************************************************************)
LEMMA FollowedStep ==
  ASSUME Basis, [Next]_vars, NEW t \in Task \ Once, Noticed(t), Renewed(t), Followed(t)
  PROVE  Followed(t)'
<1> SUFFICES ASSUME NEW r \in Run, Ending(r, t)', store'[t].enabled
             PROVE  Rescued(r, t)' \/ Excusable(r, t)'
  BY DEF Followed
<1>1. IInv /\ TypeRuns /\ RunWaits /\ ConsumesOnce /\ ~Crash
  BY CrashEffect DEF Basis, IInv, TypeParts, Ending
<1>2. CASE ~store[t].enabled
  BY <1>2, EnabledFrom DEF Rescued, Renews
<1>3. CASE store[t].enabled /\ run'[r] = run[r]
  <2>1. Ending(r, t) /\ PlaceKept(r)
    BY <1>1, <1>3, PlaceStep, WriterAssumption DEF Ending, Acts
  <2>2. In(lock[ProjectOf(t)], r)
    BY <1>1, <2>1 DEF RunWaits, Ending, Updating
  <2>3. QED
    BY <1>1, <1>3, <2>1, <2>2, RescuedKept, ExcusableKept DEF Followed
<1>4. CASE store[t].enabled /\ RunExecuted(r)
  BY <1>4, ExecutedFollowed
<1>5. ~PumpStarts(r) /\ ~RunBegins(r)
  BY <1>1, StartsEffect, BeginsEffect DEF RunTo, Ending
<1>6. ~RunConsumes(r)
  <2>1. RunConsumes(r) => run[r].pc = "consume" /\ run'[r].task = run[r].task
    BY <1>1, ConsumesEffect DEF RunTo
  <2>2. QED
    BY <1>1, <2>1 DEF ConsumesOnce, Ending
<1>7. ~RunFinishes(r) /\ ~RunFails(r)
  BY <1>1, FinishesEffect, FailsEffect DEF RunTo, Ending
<1>8. ~RunSettles(r)
  BY <1>1, IdleRunTyped DEF RunSettles, TypeRuns, Ending
<1>9. QED
  BY <1>1, <1>2, <1>3, <1>4, <1>5, <1>6, <1>7, <1>8, RunsGoOnStep DEF RunsGoOn, RunGoesOn

-----------------------------------------------------------------------------
(* A recurring task that is enabled is armed.                              *)

\* What an enabled recurring task can expect.
Expects(t) == Good(t) \/ InFlight(t) \/ (\E a \in advance : a[1] = t) \/ SyncComing(t)
ArmedTask(t) ==
    started /\ t \notin excused /\ mem[t].enabled /\ store[t].enabled => Expects(t)

Ended(t) == \E r \in Run : RunFinishes(r) /\ run[r].task = t
Failed(t) == \E r \in Run : RunFails(r) /\ run[r].task = t

\* A run of t stays queued or under way until it ends.
InFlightKept(t) ==
    InFlight(t) /\ mem[t].enabled /\ started' => InFlight(t)' \/ Ended(t) \/ Failed(t)

\* A timer stays until it fires or a synchronisation turns to t.
GoodKept(t) ==
    Good(t) /\ mem[t].enabled /\ store[t].enabled /\ store'[t].enabled /\ started' =>
        \/ Good(t)' \/ InFlight(t)' \/ (\E a \in advance' : a[1] = t)
        \/ \E y \in Sync : Todo(y, t)'
        \/ \E a \in advance : Advanced(a) /\ a[1] = t
        \/ \E y \in Sync : Round(y, t)
        \/ Ended(t)

(***************************************************************************)
(* The last update of a run sets the timer, or leaves it to a              *)
(* synchronisation that comes to t.                                        *)
(***************************************************************************)
LEMMA FinishesArms ==
  ASSUME Basis, NEW t \in Task \ Once, store[t].enabled, started, Followed(t), Ended(t),
         t \notin excused'
  PROVE  Good(t)' \/ SyncComing(t)'
<1>1. IInv
  BY DEF Basis
<1>2. PICK r \in Run : RunFinishes(r) /\ run[r].task = t
  BY DEF Ended
<1>3. store[t].present /\ run[r].gen = lifecycleGeneration /\ UNCHANGED <<excused, sync>>
  BY <1>2 DEF RunFinishes
<1>4. /\ run[r].pc = "finish" /\ mem'[t] = store'[t] /\ store'[t].next = run[r].next
      /\ run[r].next # None => timer'[t] = run[r].next
  BY <1>1, <1>2, <1>3, FinishesEffect DEF Copied
<1>5. CASE run[r].next # None
  BY <1>4, <1>5 DEF Good
<1>6. CASE run[r].next = None
  <2>1. Rescued(r, t) \/ Excusable(r, t)
    BY <1>2, <1>4, <1>6 DEF Followed, Ending
  <2>2. SyncComing(t)
    BY <1>3, <2>1 DEF Rescued, Excusable, Renews, Lists, Stale, Todo, SyncComing, ComingTo
  <2>3. QED
    BY <1>3, <2>2 DEF SyncComing, ComingTo
<1>7. QED
  BY <1>5, <1>6

(***************************************************************************)
(* A missed slot that is advanced sets the timer.                          *)
(***************************************************************************)
LEMMA AdvancedArms ==
  ASSUME Basis, NEW t \in Task \ Once, store[t].enabled, started, NEW a \in advance, Advanced(a),
         a[1] = t, t \notin excused'
  PROVE  Good(t)'
<1>1. IInv /\ store[t].present /\ a[2] # None
  BY DEF Basis, StoreMortal, Advances
<1>2. /\ Copied(t) /\ store'[t].next = a[2] /\ timer'[t] = a[2]
  BY <1>1, AdvancedEffect
<1>3. QED
  BY <1>1, <1>2 DEF Good, Copied

(***************************************************************************)
(* Runs stay in flight until they end.                                     *)
(***************************************************************************)
LEMMA InFlightStep ==
  ASSUME IInv, MemMortal, ~Crash, [Next]_vars
  PROVE  \A u \in Task : InFlightKept(u)
<1>1. MemMortal
  OBVIOUS
<1>2. ASSUME UNCHANGED <<queuedTaskKeys, runningTaskKeys>> PROVE \A u \in Task : InFlightKept(u)
  BY <1>2 DEF InFlightKept, InFlight
<1>3. ASSUME NEW t \in Task, TimerFires(t) PROVE \A u \in Task : InFlightKept(u)
  BY <1>3 DEF InFlightKept, InFlight, TimerFires, QueueTaskRun
<1>4. ASSUME NEW r \in Run, PumpStarts(r) PROVE \A u \in Task : InFlightKept(u)
  <2> DEFINE t == queue[index].task
  <2>1. queuedTaskKeys' = queuedTaskKeys \ {t}
    BY <1>4 DEF PumpStarts
  <2>2. mem[t].enabled /\ t \in Task => t \in runningTaskKeys'
    BY <1>1, <1>4 DEF PumpStarts, MemMortal
  <2>3. runningTaskKeys \subseteq runningTaskKeys'
    BY <1>4 DEF PumpStarts
  <2>4. ASSUME NEW u \in Task PROVE InFlightKept(u)
    BY <2>1, <2>2, <2>3 DEF InFlightKept, InFlight
  <2>5. QED
    BY <2>4
<1>5. ASSUME NEW r \in Run, RunFinishes(r) PROVE \A u \in Task : InFlightKept(u)
  <2>1. runningTaskKeys' = runningTaskKeys \ {run[r].task} /\ UNCHANGED queuedTaskKeys
    BY <1>5 DEF RunFinishes, Released
  <2>2. QED
    BY <1>5, <2>1 DEF InFlightKept, InFlight, Ended
<1>6. ASSUME NEW r \in Run, RunFails(r) PROVE \A u \in Task : InFlightKept(u)
  <2>1. runningTaskKeys' = runningTaskKeys \ {run[r].task} /\ UNCHANGED queuedTaskKeys
    BY <1>6 DEF RunFails, Released
  <2>2. QED
    BY <1>6, <2>1 DEF InFlightKept, InFlight, Failed
<1>7. ASSUME NEW m \in Manual, NEW t \in Task, RunNow(m, t) PROVE \A u \in Task : InFlightKept(u)
  BY <1>7 DEF InFlightKept, InFlight, RunNow, QueueTaskRun
<1>8. ASSUME Stop PROVE \A u \in Task : InFlightKept(u)
  BY <1>8 DEF InFlightKept, Stop, Stopped
<1>9. ASSUME NEW y \in Sync, SyncFails(y) PROVE \A u \in Task : InFlightKept(u)
  <2>1. started' = FALSE \/ UNCHANGED <<queuedTaskKeys, runningTaskKeys>>
    BY <1>9 DEF SyncFails, Stopped
  <2>2. QED
    BY <1>2, <2>1 DEF InFlightKept
<1>10. ASSUME NEW y \in Sync, SyncChecks(y) PROVE \A u \in Task : InFlightKept(u)
  BY <1>10 DEF InFlightKept, InFlight, SyncChecks, CatchUp, QueueTaskRun
<1>11. ASSUME NEW y \in Sync, SyncInterrupts(y) PROVE \A u \in Task : InFlightKept(u)
  BY <1>11 DEF InFlightKept, InFlight, SyncInterrupts, CatchUp, QueueTaskRun
<1>12. ASSUME Crash PROVE \A u \in Task : InFlightKept(u)
  BY <1>12
<1>13. ASSUME NEW a \in advance, Advanced(a)
      PROVE  \A u \in Task : InFlightKept(u)
  BY <1>2, <1>13 DEF Advanced, admission
<1>14. ASSUME PumpSkips \/ PumpEnds \/ Tick
      PROVE  \A u \in Task : InFlightKept(u)
  BY <1>2, <1>14 DEF PumpSkips, PumpEnds, Tick, admission
<1>15. ASSUME NEW r \in Run, RunBegins(r) \/ RunSession(r) \/ RunExecuted(r) \/ RunConsumes(r) \/
              RunSettles(r)
      PROVE  \A u \in Task : InFlightKept(u)
  BY <1>2, <1>15 DEF RunBegins, RunSession, RunExecuted, RunConsumes, RunSettles, admission
<1>16. ASSUME NEW y \in Sync, NEW p \in Projects, SyncBegins(y, p)
      PROVE  \A u \in Task : InFlightKept(u)
  BY <1>2, <1>16 DEF SyncBegins, admission
<1>17. ASSUME NEW y \in Sync, Start(y) \/ SyncLists(y) \/ SyncSets(y) \/ SyncSchedules(y) \/
              SyncSnapshots(y) \/ SyncEnds(y) \/ EditApplies(y)
      PROVE  \A u \in Task : InFlightKept(u)
  BY <1>2, <1>17 DEF Start, SyncLists, SyncSets, SyncSchedules, SyncSnapshots, SyncEnds,
     EditApplies, admission
<1>18. ASSUME NEW y \in Sync, NEW t \in Task, EditBegins(y, t)
      PROVE  \A u \in Task : InFlightKept(u)
  BY <1>2, <1>18 DEF EditBegins, admission
<1>19. CASE UNCHANGED vars
  BY <1>2, <1>19 DEF vars, config, scheduler, admission, thread, history
<1>20. QED
  BY <1>3, <1>4, <1>5, <1>6, <1>7, <1>8, <1>9, <1>10, <1>11, <1>12, <1>13, <1>14, <1>15,
     <1>16, <1>17, <1>18, <1>19, Zenon DEF Next, Step, RunStep, SyncStep

(***************************************************************************)
(* The timer of a task whose records stay, or keep their slots.            *)
(***************************************************************************)
LEMMA GoodSame ==
  ASSUME NEW t, timer'[t] = timer[t], store'[t].next = store[t].next,
         mem'[t] = mem[t] \/ mem'[t].next = store[t].next
  PROVE  GoodKept(t)
BY DEF GoodKept, Good

(***************************************************************************)
(* An edit disables or deletes a task that was enabled.                    *)
(***************************************************************************)
LEMMA EditDisables ==
  ASSUME IInv, NEW y \in Sync, EditApplies(y), NEW t, t = sync[y].cur
  PROVE  ~(store[t].enabled /\ store'[t].enabled)
<1>1. t \in Task /\ TypeRecords
  BY EditEffect DEF IInv, TypeParts
<1>2. store' \in {[store EXCEPT ![t].enabled = store[t].present /\ ~store[t].enabled],
                  [store EXCEPT ![t] = Absent]}
  BY DEF EditApplies
<1>3. CASE store' = [store EXCEPT ![t] = Absent]
  BY <1>1, <1>3 DEF TypeRecords, Absent
<1>4. CASE store' = [store EXCEPT ![t].enabled = store[t].present /\ ~store[t].enabled]
  BY <1>1, <1>4 DEF TypeRecords, Records
<1>5. QED
  BY <1>2, <1>3, <1>4

(***************************************************************************)
(* Timers.                                                                 *)
(***************************************************************************)
LEMMA GoodStep ==
  ASSUME Basis, ~Crash, [Next]_vars
  PROVE  \A u \in Task \ Once : GoodKept(u)
<1>1. /\ IInv /\ TypeRecords /\ TypeTimers /\ StoreMortal /\ SeenGone /\ MemMortal /\ ConsumesOnce
  BY DEF Basis, IInv, TypeParts
<1>2. ASSUME UNCHANGED <<store, mem, timer>> PROVE \A u \in Task \ Once : GoodKept(u)
  BY <1>2, GoodSame
<1>3. ASSUME NEW t \in Task, TimerFires(t) PROVE \A u \in Task \ Once : GoodKept(u)
  <2>1. ASSUME NEW u \in Task \ Once, mem[u].enabled PROVE GoodKept(u)
    <3>1. CASE u # t
      <4>1. UNCHANGED <<store, mem>> /\ timer'[u] = timer[u]
        BY <1>1, <1>3, <3>1 DEF TimerFires, TypeTimers
      <4>2. QED
        BY <4>1, GoodSame
    <3>2. CASE u = t /\ mem[t].next # timer[t]
      <4>1. UNCHANGED <<store, mem>> /\ timer'[u] = mem[u].next
        BY <1>1, <1>3, <2>1, <3>2 DEF TimerFires, TypeTimers, MemMortal
      <4>2. QED
        BY <4>1 DEF GoodKept, Good
    <3>3. CASE u = t /\ mem[t].next = timer[t]
      <4>1. CASE Missed(t, timer[t])
        <5>1. <<t, ComputeNextRunAt(t, mem[t])>> \in advance'
          BY <1>1, <1>3, <2>1, <3>3, <4>1 DEF TimerFires, MemMortal
        <5>2. QED
          BY <3>3, <5>1 DEF GoodKept
      <4>2. CASE ~Missed(t, timer[t])
        <5>1. QueueTaskRun(t, "scheduled", None) /\ UNCHANGED runningTaskKeys
          BY <1>1, <1>3, <2>1, <3>3, <4>2 DEF TimerFires, MemMortal
        <5>2. InFlight(t)'
          BY <5>1 DEF QueueTaskRun, InFlight
        <5>3. QED
          BY <3>3, <5>2 DEF GoodKept
      <4>3. QED
        BY <4>1, <4>2
    <3>4. QED
      BY <3>1, <3>2, <3>3
  <2>2. ASSUME NEW u, ~mem[u].enabled PROVE GoodKept(u)
    BY <2>2 DEF GoodKept
  <2>3. QED
    BY <2>1, <2>2
<1>4. ASSUME NEW a \in advance, Advanced(a) PROVE \A u \in Task \ Once : GoodKept(u)
  <2>1. ASSUME NEW u \in Task \ Once PROVE GoodKept(u)
    <3>1. CASE u # a[1]
      <4>1. OnlyTask(a[1])
        BY <1>1, <1>4, AdvancedEffect
      <4>2. store'[u] = store[u] /\ mem'[u] = mem[u] /\ timer'[u] = timer[u]
        BY <3>1, <4>1 DEF OnlyTask
      <4>3. QED
        BY <4>2, GoodSame
    <3>2. CASE u = a[1]
      BY <1>4, <3>2 DEF GoodKept
    <3>3. QED
      BY <3>1, <3>2
  <2>2. QED
    BY <2>1
<1>5. ASSUME NEW r \in Run, RunBegins(r) PROVE \A u \in Task \ Once : GoodKept(u)
  <2>1. ASSUME NEW u \in Task \ Once PROVE GoodKept(u)
    <3>1. CASE u # run[r].task
      <4>1. OnlyTask(run[r].task)
        BY <1>1, <1>5, BeginsEffect
      <4>2. store'[u] = store[u] /\ mem'[u] = mem[u] /\ timer'[u] = timer[u]
        BY <3>1, <4>1 DEF OnlyTask
      <4>3. QED
        BY <4>2, GoodSame
    <3>2. CASE u = run[r].task
      <4>1. /\ store'[u].next = store[u].next /\ timer'[u] = timer[u]
            /\ mem'[u] \in {mem[u], store'[u]}
        BY <1>1, <1>5, <3>2, BeginsEffect DEF Copied
      <4>2. QED
        BY <4>1, GoodSame
    <3>3. QED
      BY <3>1, <3>2
  <2>2. QED
    BY <2>1
<1>6. ASSUME NEW r \in Run, RunSession(r) PROVE \A u \in Task \ Once : GoodKept(u)
  <2>1. ASSUME NEW u \in Task \ Once PROVE GoodKept(u)
    <3>1. UNCHANGED <<store, timer>> /\ mem'[u] \in {mem[u], store[u]}
      BY <1>1, <1>6 DEF RunSession, TypeRecords, config
    <3>2. QED
      BY <3>1, GoodSame
  <2>2. QED
    BY <2>1
<1>7. ASSUME NEW r \in Run, RunConsumes(r) PROVE \A u \in Task \ Once : GoodKept(u)
  <2>1. ASSUME NEW u \in Task \ Once PROVE GoodKept(u)
    <3>1. CASE u # run[r].task
      <4>1. OnlyTask(run[r].task)
        BY <1>1, <1>7, ConsumesEffect
      <4>2. store'[u] = store[u] /\ mem'[u] = mem[u] /\ timer'[u] = timer[u]
        BY <3>1, <4>1 DEF OnlyTask
      <4>3. QED
        BY <4>2, GoodSame
    <3>2. CASE u = run[r].task
      <4>1. run[r].pc = "consume"
        BY <1>1, <1>7, ConsumesEffect
      <4>2. QED
        BY <1>1, <3>2, <4>1 DEF ConsumesOnce
    <3>3. QED
      BY <3>1, <3>2
  <2>2. QED
    BY <2>1
<1>8. ASSUME NEW r \in Run, RunFinishes(r) PROVE \A u \in Task \ Once : GoodKept(u)
  <2>1. ASSUME NEW u \in Task \ Once PROVE GoodKept(u)
    <3>1. CASE u # run[r].task
      <4>1. OnlyTask(run[r].task)
        BY <1>1, <1>8, FinishesEffect
      <4>2. store'[u] = store[u] /\ mem'[u] = mem[u] /\ timer'[u] = timer[u]
        BY <3>1, <4>1 DEF OnlyTask
      <4>3. QED
        BY <4>2, GoodSame
    <3>2. CASE u = run[r].task
      BY <1>8, <3>2 DEF GoodKept, Ended
    <3>3. QED
      BY <3>1, <3>2
  <2>2. QED
    BY <2>1
<1>9. ASSUME Stop PROVE \A u \in Task \ Once : GoodKept(u)
  BY <1>9 DEF GoodKept, Stop, Stopped
<1>10. ASSUME NEW y \in Sync, SyncSets(y) PROVE \A u \in Task \ Once : GoodKept(u)
  <2>1. ASSUME NEW u \in Task \ Once PROVE GoodKept(u)
    <3>1. CASE u \notin sync[y].project
      <4>1. UNCHANGED store /\ mem'[u] = mem[u] /\ timer'[u] = timer[u]
        BY <1>1, <1>10, <3>1, SetsEffect
      <4>2. QED
        BY <4>1, GoodSame
    <3>2. CASE u \in sync[y].project /\ store[u].enabled
      <4>1. /\ sync[y].pc = "set" /\ sync'[y].seen \in {store, sync[y].seen}
            /\ sync'[y].pc = "schedule" /\ (u \in sync'[y].todo <=> sync'[y].seen[u].present)
        BY <1>1, <1>10, <3>2, SetsEffect DEF SyncTo
      <4>2. sync'[y].seen[u].present
        BY <1>1, <3>2, <4>1 DEF StoreMortal, SeenGone
      <4>3. QED
        BY <4>1, <4>2 DEF GoodKept, Todo
    <3>3. CASE ~store[u].enabled
      BY <3>3 DEF GoodKept
    <3>4. QED
      BY <3>1, <3>2, <3>3
  <2>2. QED
    BY <2>1
<1>11. ASSUME NEW y \in Sync, SyncSchedules(y) PROVE \A u \in Task \ Once : GoodKept(u)
  <2>1. ASSUME NEW u \in Task \ Once PROVE GoodKept(u)
    <3>1. CASE u # sync[y].cur
      <4>1. OnlyTask(sync[y].cur)
        BY <1>1, <1>11, SchedulesEffect
      <4>2. store'[u] = store[u] /\ mem'[u] = mem[u] /\ timer'[u] = timer[u]
        BY <3>1, <4>1 DEF OnlyTask
      <4>3. QED
        BY <4>2, GoodSame
    <3>2. CASE u = sync[y].cur
      BY <1>11, <3>2 DEF GoodKept, Round
    <3>3. QED
      BY <3>1, <3>2
  <2>2. QED
    BY <2>1
<1>12. ASSUME NEW y \in Sync, SyncFails(y) PROVE \A u \in Task \ Once : GoodKept(u)
  <2>1. started' = FALSE \/ UNCHANGED <<store, mem, timer>>
    BY <1>12 DEF SyncFails, Stopped
  <2>2. QED
    BY <1>2, <2>1 DEF GoodKept
<1>13. ASSUME NEW y \in Sync, SyncInterrupts(y) PROVE \A u \in Task \ Once : GoodKept(u)
  <2>1. ASSUME NEW u \in Task \ Once PROVE GoodKept(u)
    <3>1. CASE u # sync[y].cur
      <4>1. OnlyTask(sync[y].cur)
        BY <1>1, <1>13, InterruptsEffect
      <4>2. store'[u] = store[u] /\ mem'[u] = mem[u] /\ timer'[u] = timer[u]
        BY <3>1, <4>1 DEF OnlyTask
      <4>3. QED
        BY <4>2, GoodSame
    <3>2. CASE u = sync[y].cur
      <4>1. /\ store'[u].next = store[u].next /\ timer'[u] = timer[u]
            /\ mem'[u] \in {mem[u], store'[u]}
        BY <1>1, <1>13, <3>2, InterruptsEffect DEF Copied
      <4>2. QED
        BY <4>1, GoodSame
    <3>3. QED
      BY <3>1, <3>2
  <2>2. QED
    BY <2>1
<1>14. ASSUME NEW y \in Sync, EditApplies(y) PROVE \A u \in Task \ Once : GoodKept(u)
  <2>1. ASSUME NEW u \in Task \ Once PROVE GoodKept(u)
    <3>1. CASE u # sync[y].cur
      <4>1. store'[u] = store[u] /\ mem'[u] = mem[u] /\ timer'[u] = timer[u]
        BY <1>1, <1>14, <3>1, EditEffect
      <4>2. QED
        BY <4>1, GoodSame
    <3>2. CASE u = sync[y].cur
      <4>1. ~(store[u].enabled /\ store'[u].enabled)
        BY <1>1, <1>14, <3>2, EditDisables
      <4>2. QED
        BY <4>1 DEF GoodKept
    <3>3. QED
      BY <3>1, <3>2
  <2>2. QED
    BY <2>1
<1>15. ASSUME Crash PROVE \A u \in Task \ Once : GoodKept(u)
  BY <1>15
<1>16. ASSUME PumpSkips \/ PumpEnds \/ Tick
      PROVE  \A u \in Task \ Once : GoodKept(u)
  BY <1>2, <1>16 DEF PumpSkips, PumpEnds, Tick, config, scheduler
<1>17. ASSUME NEW r \in Run, PumpStarts(r) \/ RunExecuted(r) \/ RunFails(r) \/ RunSettles(r)
      PROVE  \A u \in Task \ Once : GoodKept(u)
  BY <1>2, <1>17 DEF PumpStarts, RunExecuted, RunFails, RunSettles, config, scheduler
<1>18. ASSUME NEW m \in Manual, NEW t \in Task, RunNow(m, t)
      PROVE  \A u \in Task \ Once : GoodKept(u)
  BY <1>2, <1>18 DEF RunNow, config, scheduler
<1>19. ASSUME NEW y \in Sync, NEW p \in Projects, SyncBegins(y, p)
      PROVE  \A u \in Task \ Once : GoodKept(u)
  BY <1>2, <1>19 DEF SyncBegins, config, scheduler
<1>20. ASSUME NEW y \in Sync, Start(y) \/ SyncLists(y) \/ SyncSnapshots(y) \/ SyncChecks(y) \/
              SyncEnds(y)
      PROVE  \A u \in Task \ Once : GoodKept(u)
  BY <1>2, <1>20 DEF Start, SyncLists, SyncSnapshots, SyncChecks, SyncEnds, config,
     scheduler
<1>21. ASSUME NEW y \in Sync, NEW t \in Task, EditBegins(y, t)
      PROVE  \A u \in Task \ Once : GoodKept(u)
  BY <1>2, <1>21 DEF EditBegins, config, scheduler
<1>22. CASE UNCHANGED vars
  BY <1>2, <1>22 DEF vars, config, scheduler, admission, thread, history
<1>23. QED
  BY <1>3, <1>4, <1>5, <1>6, <1>7, <1>8, <1>9, <1>10, <1>11, <1>12, <1>13, <1>14, <1>15,
     <1>16, <1>17, <1>18, <1>19, <1>20, <1>21, <1>22, Zenon DEF Next, Step, RunStep,
     SyncStep

(***************************************************************************)
(* An enabled recurring task stays armed.                                  *)
(***************************************************************************)
LEMMA ArmedTaskStep ==
  ASSUME Basis, [Next]_vars, NEW t \in Task \ Once, Noticed(t), Followed(t), ArmedTask(t)
  PROVE  ArmedTask(t)'
<1> SUFFICES ASSUME started', t \notin excused', mem'[t].enabled, store'[t].enabled
             PROVE  Expects(t)'
  BY DEF ArmedTask
<1>1. /\ IInv /\ StoreMortal /\ RoundArms /\ SeenGone /\ LeftStarts /\ MemMortal /\ ~Crash
  BY CrashEffect DEF Basis
<1>2. CASE \E y \in Sync : Start(y)
  BY <1>1, <1>2, StartComes DEF Expects
<1>3. CASE ~store[t].enabled
  <2>1. PICK y \in Sync : Lists(y, t)'
    BY <1>3, EnabledFrom
  <2>2. QED
    BY <2>1 DEF Lists, SyncComing, ComingTo, Expects
<1>4. CASE started /\ store[t].enabled
  <2>1. CASE \E y \in Sync : Round(y, t)
    BY <1>1, <1>4, <2>1, RoundEffect DEF Expects
  <2>2. ASSUME ~\E y \in Sync : Round(y, t)
        PROVE  t \notin excused /\ (SyncComing(t) => SyncComing(t)')
    BY <1>1, <1>4, <2>2, ExcusedFromStep, ComingKept DEF ExcusedFrom
  <2>3. CASE ~(\E y \in Sync : Round(y, t)) /\ ~mem[t].enabled
    BY <1>4, <2>2, <2>3 DEF Noticed, Expects
  <2>4. Ended(t) => Expects(t)'
    BY <1>4, FinishesArms DEF Expects
  <2>5. ASSUME NEW a \in advance, Advanced(a), a[1] = t PROVE Expects(t)'
    BY <1>4, <2>5, AdvancedArms DEF Expects
  <2>6. ~Failed(t)
    BY DEF Failed, RunFails
  <2>7. CASE ~(\E y \in Sync : Round(y, t)) /\ mem[t].enabled
    <3>1. Expects(t)
      BY <1>4, <2>2, <2>7 DEF ArmedTask
    <3>2. CASE Good(t)
      <4>1. GoodKept(t)
        BY <1>1, GoodStep
      <4>2. ASSUME NEW y \in Sync, Todo(y, t)' PROVE SyncComing(t)'
        BY <4>2 DEF Todo, SyncComing, ComingTo
      <4>3. QED
        BY <1>4, <2>4, <2>5, <2>7, <3>2, <4>1, <4>2 DEF GoodKept, Expects
    <3>3. CASE InFlight(t)
      <4>1. InFlightKept(t)
        BY <1>1, InFlightStep
      <4>2. QED
        BY <2>4, <2>6, <2>7, <3>3, <4>1 DEF InFlightKept, Expects
    <3>4. CASE \E a \in advance : a[1] = t
      BY <1>1, <2>5, <3>4, AdvanceFromStep DEF AdvanceFrom, Expects
    <3>5. CASE SyncComing(t)
      BY <2>2, <2>7, <3>5 DEF Expects
    <3>6. QED
      BY <3>1, <3>2, <3>3, <3>4, <3>5 DEF Expects
  <2>8. QED
    BY <2>1, <2>3, <2>7
<1>5. QED
  BY <1>1, <1>2, <1>3, <1>4, StartedFromStep DEF StartedFrom

-----------------------------------------------------------------------------
(* The inductive invariant and the theorem.                                *)

ArmedInv ==
    /\ Basis
    /\ \A t \in Task \ Once :
        Noticed(t) /\ Corrected(t) /\ Renewed(t) /\ Followed(t) /\ ArmedTask(t)

(***************************************************************************)
(* Initially nothing is started, and nobody is on the way.                 *)
(***************************************************************************)
LEMMA ArmedInit == Init => ArmedInv
<1> SUFFICES ASSUME Init PROVE ArmedInv
  OBVIOUS
<1>1. IInv
  BY IInvInit
<1>2. /\ \A t \in Task : store[t] = Fresh /\ mem[t] = Absent
      /\ \A y \in Sync : sync[y] = IdleSync
      /\ \A r \in Run : run[r] = IdleRun
      /\ \A p \in Projects : lock[p] = <<>>
      /\ advance = {} /\ started = FALSE
  BY DEF Init
<1>3. IdleSync.pc = "idle" /\ IdleSync.left = {} /\ IdleRun.pc = "idle" /\ Fresh.present
      /\ ~Absent.enabled
  BY DEF IdleSync, IdleRun, Fresh, Absent
<1>4. StoreMortal /\ Advances /\ RoundArms /\ SeenGone /\ LeftStarts
  BY <1>2, <1>3 DEF StoreMortal, Advances, RoundArms, SeenGone, LeftStarts
<1>5. SyncLocked /\ ConsumesOnce /\ EditInside /\ MemMortal /\ SeenMortal /\ RunWaits
  BY <1>2, <1>3 DEF SyncLocked, ConsumesOnce, EditInside, MemMortal, SeenMortal, Listed, RunWaits,
     Updating
<1>6. SyncPlaces
  <2>1. \A q \in Projects : Len(lock[q]) = 0
    BY <1>2
  <2>2. \A q \in Projects : 1..Len(lock[q]) = {}
    BY <2>1
  <2>3. QED
    BY <2>2 DEF SyncPlaces, Placed, In, Single
<1>7. ASSUME NEW t \in Task \ Once
      PROVE  Noticed(t) /\ Corrected(t) /\ Renewed(t) /\ Followed(t) /\ ArmedTask(t)
  BY <1>2, <1>3 DEF Noticed, Corrected, Renewed, Todo, Followed, Ending, ArmedTask
<1>8. QED
  BY <1>1, <1>4, <1>5, <1>6, <1>7 DEF ArmedInv, Basis

(***************************************************************************)
(* Every step keeps the invariant.                                         *)
(***************************************************************************)
LEMMA ArmedStep ==
  ASSUME ArmedInv, [Next]_vars
  PROVE  ArmedInv'
<1>1. Basis /\ Basis'
  BY BasisStep DEF ArmedInv
<1>2. ASSUME NEW t \in Task \ Once
      PROVE  Noticed(t)' /\ Corrected(t)' /\ Renewed(t)' /\ Followed(t)' /\ ArmedTask(t)'
  <2>1. Noticed(t) /\ Corrected(t) /\ Renewed(t) /\ Followed(t) /\ ArmedTask(t)
    BY DEF ArmedInv
  <2>2. QED
    BY <1>1, <2>1, NoticedStep, CorrectedStep, RenewedStep, FollowedStep, ArmedTaskStep
<1>3. QED
  BY <1>1, <1>2 DEF ArmedInv

(***************************************************************************)
(* The inductive invariant: whoever can leave an enabled recurring task    *)
(* without a timer (a list read before the task was enabled, a run that    *)
(* computed no next slot from it) has in the queue of the write lock       *)
(* behind it a synchronisation that arms the task.                         *)
(***************************************************************************)
THEOREM ArmedInvariance == Spec => []ArmedInv
<1>1. Init => ArmedInv
  BY ArmedInit
<1>2. ArmedInv /\ [Next]_vars => ArmedInv'
  BY ArmedStep
<1>3. QED
  BY <1>1, <1>2, PTL DEF Spec

(***************************************************************************)
(* While the runtime is started, every recurring task that is enabled on   *)
(* disk and in memory has a timer that will be honoured, a run, a slot     *)
(* that is being advanced or a synchronisation on its way to it, unless a  *)
(* failed update or a stale definition has excused it: scheduleTask,       *)
(* runTask and syncProject together lose no task.                          *)
(***************************************************************************)
THEOREM ArmedCorrect == Spec => []Armed
<1>1. ArmedInv => Armed
  <2> SUFFICES ASSUME ArmedInv, started, NEW t \in Task \ (Once \cup excused), mem[t].enabled,
                      store[t].enabled
               PROVE  (timer[t] # None /\ mem[t].next # None) \/ Coming(t)
    BY DEF Armed
  <2>1. Expects(t)
    BY DEF ArmedInv, ArmedTask
  <2>2. QED
    BY <2>1, ComingCases DEF Expects, Good
<1>2. QED
  BY <1>1, ArmedInvariance, PTL
=============================================================================
