------------------------ MODULE SessionWorkersProofs ------------------------
(***************************************************************************)
(* Proofs about SessionWorkers, for any sets of sessions, workers and      *)
(* calls.                                                                  *)
(***************************************************************************)
EXTENDS SessionWorkers, TLAPS

-----------------------------------------------------------------------------
(***************************************************************************)
(* The inductive invariant.                                                *)
(***************************************************************************)
TaskLabels == Tasking \cup {"spawning", "dropping", "droppingResult"}

HasWorker == (Owning \cup Tasking \cup Leaving \cup Asking) \ {"coordinating", "unlinking"}

HasSession == Asking \cup Tasking
                \cup {"locate", "delList", "applying", "enriching", "enrichRecord", "spawning",
                       "retiring"}

Unbound == {"admit", "starting", "asked", "applying"}

(* Which calls stand at which labels, and what they hold there. *)
Kinds ==
  \A o \in Calls :
    /\ o \in Compactions =>
         pc[o] \in TaskLabels \cup {"call", "undoing", "returned", "threw"}
    /\ pc[o] \in TaskLabels => o \in Compactions
    /\ pc[o] \in {"forkSummary", "forkRecord", "forking"} => o \in Forks
    /\ pc[o] \in HasWorker => wk[o] \in Workers
    /\ pc[o] \in HasSession => arg[o] \in Sessions

(* A worker somebody holds has been spawned; an unused one is unknown. *)
Spawned ==
  /\ \A o \in Calls : wk[o] \in Workers => proc[wk[o]] # "unused"
  /\ \A w \in Workers : proc[w] = "unused" => pin[w] = None /\ w \notin clients

Roles ==
  \A o \in Calls : wk[o] \in Workers =>
    role[wk[o]] = IF o \in Compactions THEN "compaction" ELSE "session"

(* Until it is bound, a session worker is known to the call that spawned it only. *)
Private ==
  \A o \in Calls : pc[o] \in Unbound =>
    /\ pin[wk[o]] = None
    /\ \A p \in Calls : p # o => wk[p] # wk[o]
    /\ pc[o] = "admit" => proc[wk[o]] = "idle"
    /\ pc[o] = "applying" => serves[wk[o]] = arg[o] \/ proc[wk[o]] # "up"

TaskPrivate ==
  \A o \in Compactions, p \in Calls : wk[o] \in Workers /\ p # o => wk[p] # wk[o]

Registered == \A w \in Workers : proc[w] \in {"idle", "up"} => w \in clients \cup retiring

Disposal ==
  /\ broker # "open" => clients \subseteq retiring
  /\ broker = "disposed" => clients = {}

PinBorn == \A w \in Workers : pin[w] # None => pin[w] \in born

ArgBorn == \A o \in Calls : arg[o] # None => arg[o] \in born

IInv ==
  /\ TypeOK /\ Kinds /\ Spawned /\ Roles /\ Private /\ TaskPrivate
  /\ Registered /\ Disposal /\ PinBorn /\ ArgBorn /\ Routed /\ ReopenReusesWorker

(* A task whose worker is not retired is filed under its session, so that
   #handleExit finds it as long as the worker it works for is pinned there. *)
TaskHeld ==
  \A o \in Compactions :
    pc[o] \in {"registering", "compacting"} =>
      \/ wk[o] \in retiring
      \/ proc[wk[o]] = "exited"
      \/ /\ wk[o] \in aux[arg[o]]
         /\ parent[o] \in Workers
         /\ role[parent[o]] = "session"
         /\ pin[parent[o]] # None
         /\ pin[parent[o]] = arg[o] => proc[parent[o]] = "up"

-----------------------------------------------------------------------------
(***************************************************************************)
(* What #bindSession makes of #sessions.                                   *)
(***************************************************************************)
LEMMA BoundIs ==
  ASSUME NEW w, NEW s \in Sessions
  PROVE  Bound(w, s) = [t \in Sessions |-> IF t = s THEN w
                                           ELSE IF sessions[t] = w THEN None
                                           ELSE sessions[t]]
BY DEF Bound, Unmapped


(***************************************************************************)
(* Every step preserves the type invariant.                                *)
(***************************************************************************)
LEMMA TypeStep ==
  ASSUME TypeOK, Kinds, [Next]_vars
  PROVE  TypeOK'
<1> USE CallsAssumption, SessionsAssumption
<1> USE DEF TypeOK, Calls, Owning, Asking, Tasking, Leaving, Ended, Labels, Kinds,
            HasWorker, HasSession, TaskLabels, registry, process, disk, call,
            shutdown
<1>1. ASSUME NEW o \in Creates, CallCreate(o) PROVE TypeOK'
  BY <1>1 DEF CallCreate, Spawn, SpawnRefused, Goto
<1>2. ASSUME NEW o \in Opens, CallOpen(o) PROVE TypeOK'
  BY <1>2 DEF CallOpen, Ask, CanAsk, Goto
<1>3. ASSUME NEW o \in Closes, CallClose(o) PROVE TypeOK'
  BY <1>3 DEF CallClose, CallForActive, Ask, CanAsk, Goto
<1>4. ASSUME NEW o \in Forks, CallFork(o) PROVE TypeOK'
  BY <1>4 DEF CallFork, CallForActive, Ask, CanAsk, Goto
<1>5. ASSUME NEW o \in Deletes, CallDelete(o) PROVE TypeOK'
  BY <1>5 DEF CallDelete, Ask, CanAsk, Goto
<1>6. ASSUME NEW o \in Compactions, CallCompact(o) PROVE TypeOK'
  BY <1>6 DEF CallCompact, Spawn, SpawnRefused, Goto
<1>7. ASSUME NEW o \in Compactions, Abort(o) PROVE TypeOK'
  BY <1>7 DEF Abort, Drop, RemoveWorker, Unmapped
<1>8. ASSUME NEW o \in Calls, Admitted(o) PROVE TypeOK'
  BY <1>8 DEF Admitted, Goto
<1>9. ASSUME NEW o \in Calls, Started(o) PROVE TypeOK'
  BY <1>9 DEF Started, Ask, CanAsk, Goto
<1>10. ASSUME NEW o \in Calls, Created(o) PROVE TypeOK'
  BY BoundIs, <1>10 DEF Created, FreshSessions, Ask, CanAsk, Goto
<1>11. ASSUME NEW o \in Calls, Snapshotted(o) PROVE TypeOK'
  BY <1>11 DEF Snapshotted, Ask, CanAsk, Goto
<1>12. ASSUME NEW o \in Calls, Located(o) PROVE TypeOK'
  BY <1>12 DEF Located, Listings, Spawn, SpawnRefused, Goto
<1>13. ASSUME NEW o \in Calls, Opened(o) PROVE TypeOK'
  BY <1>13 DEF Opened, Ask, CanAsk, Goto
<1>14. ASSUME NEW o \in Calls, Applied(o) PROVE TypeOK'
  BY BoundIs, <1>14 DEF Applied, BindConflict, Ask, CanAsk, Goto
<1>15. ASSUME NEW o \in Calls, SummaryAnswered(o) PROVE TypeOK'
  BY <1>15 DEF SummaryAnswered, Goto
<1>16. ASSUME NEW o \in Calls, Enriched(o) PROVE TypeOK'
  BY <1>16 DEF Enriched, Goto
<1>17. ASSUME NEW o \in Calls, CloseSummarised(o) PROVE TypeOK'
  BY <1>17 DEF CloseSummarised, Ask, CanAsk, Goto
<1>18. ASSUME NEW o \in Calls, Closed(o) PROVE TypeOK'
  BY <1>18 DEF Closed, RemoveWorker, Unmapped, Goto
<1>19. ASSUME NEW o \in Calls, ForkSummarised(o) PROVE TypeOK'
  BY <1>19 DEF ForkSummarised, Ask, CanAsk, Goto
<1>20. ASSUME NEW o \in Calls, Forked(o) PROVE TypeOK'
  BY BoundIs, <1>20 DEF Forked, FreshSessions, Ask, CanAsk, Goto
<1>21. ASSUME NEW o \in Calls, ForkCancelled(o) PROVE TypeOK'
  BY BoundIs, <1>21 DEF ForkCancelled, BindConflict, Ask, CanAsk, Goto
<1>22. ASSUME NEW o \in Calls, DeleteSummarised(o) PROVE TypeOK'
  BY <1>22 DEF DeleteSummarised, Goto
<1>23. ASSUME NEW o \in Calls, DeleteListed(o) PROVE TypeOK'
  BY <1>23 DEF DeleteListed, Goto
<1>24. ASSUME NEW o \in Calls, Coordinated(o) PROVE TypeOK'
  BY <1>24 DEF Coordinated, RemoveWorker, Unmapped, Goto
<1>25. ASSUME NEW o \in Calls, Unlinked(o) PROVE TypeOK'
  BY <1>25 DEF Unlinked, Goto
<1>26. ASSUME NEW o \in Calls, TaskStarted(o) PROVE TypeOK'
  BY <1>26 DEF TaskStarted, OwnerAsserted, Goto
<1>27. ASSUME NEW o \in Calls, TaskRegistered(o) PROVE TypeOK'
  BY <1>27 DEF TaskRegistered, OwnerAsserted, Ask, CanAsk, Goto
<1>28. ASSUME NEW o \in Calls, Compacted(o) PROVE TypeOK'
  BY <1>28 DEF Compacted, Drop, RemoveWorker, Unmapped, Goto
<1>29. ASSUME NEW o \in Calls, TaskFail(o) PROVE TypeOK'
  BY <1>29 DEF TaskFail, Drop, RemoveWorker, Unmapped, Goto
<1>30. ASSUME NEW o \in Calls, Fail(o) PROVE TypeOK'
  BY <1>30 DEF Fail, RemoveWorker, Unmapped, Goto
<1>31. ASSUME NEW o \in Calls, Removed(o) PROVE TypeOK'
  BY <1>31 DEF Removed, Settled, Goto
<1>32. ASSUME NEW w \in Workers, Exit(w) PROVE TypeOK'
  BY <1>32 DEF Exit, Auxiliaries, Unmapped
<1>33. ASSUME BeginDispose PROVE TypeOK'
  BY <1>33 DEF BeginDispose
<1>34. ASSUME EndDispose PROVE TypeOK'
  BY <1>34 DEF EndDispose
<1>35. CASE UNCHANGED vars
  BY <1>35 DEF vars
<1>36. QED
  BY <1>1, <1>2, <1>3, <1>4, <1>5, <1>6, <1>7, <1>8, <1>9, <1>10, <1>11, <1>12,
     <1>13, <1>14, <1>15, <1>16, <1>17, <1>18, <1>19, <1>20, <1>21, <1>22,
     <1>23, <1>24, <1>25, <1>26, <1>27, <1>28, <1>29, <1>30, <1>31, <1>32,
     <1>33, <1>34, <1>35
  DEF Next, Continue

(***************************************************************************)
(* Every step preserves what the calls hold at their labels.               *)
(***************************************************************************)
LEMMA KindsStep ==
  ASSUME TypeOK, Kinds, [Next]_vars
  PROVE  Kinds'
<1> USE CallsAssumption, SessionsAssumption, NoneAssumption
<1> USE DEF TypeOK, Calls, Owning, Asking, Tasking, Leaving, Ended, Labels, Kinds,
            TaskLabels, HasWorker, HasSession, registry, process, disk, call,
            shutdown
<1>1. ASSUME NEW o \in Creates, CallCreate(o) PROVE Kinds'
  BY <1>1 DEF CallCreate, Spawn, SpawnRefused, Goto
<1>2. ASSUME NEW o \in Opens, CallOpen(o) PROVE Kinds'
  BY <1>2 DEF CallOpen, Ask, CanAsk, Goto
<1>3. ASSUME NEW o \in Closes, CallClose(o) PROVE Kinds'
  BY <1>3 DEF CallClose, CallForActive, Ask, CanAsk, Goto
<1>4. ASSUME NEW o \in Forks, CallFork(o) PROVE Kinds'
  BY <1>4 DEF CallFork, CallForActive, Ask, CanAsk, Goto
<1>5. ASSUME NEW o \in Deletes, CallDelete(o) PROVE Kinds'
  BY <1>5 DEF CallDelete, Ask, CanAsk, Goto
<1>6. ASSUME NEW o \in Compactions, CallCompact(o) PROVE Kinds'
  BY <1>6 DEF CallCompact, Spawn, SpawnRefused, Goto
<1>7. ASSUME NEW o \in Compactions, Abort(o) PROVE Kinds'
  BY <1>7 DEF Abort, Drop, RemoveWorker, Unmapped
<1>8. ASSUME NEW o \in Calls, Admitted(o) PROVE Kinds'
  BY <1>8 DEF Admitted, Goto
<1>9. ASSUME NEW o \in Calls, Started(o) PROVE Kinds'
  BY <1>9 DEF Started, Ask, CanAsk, Goto
<1>10. ASSUME NEW o \in Calls, Created(o) PROVE Kinds'
  BY BoundIs, <1>10 DEF Created, FreshSessions, Ask, CanAsk, Goto
<1>11. ASSUME NEW o \in Calls, Snapshotted(o) PROVE Kinds'
  BY <1>11 DEF Snapshotted, Ask, CanAsk, Goto
<1>12. ASSUME NEW o \in Calls, Located(o) PROVE Kinds'
  BY <1>12 DEF Located, Listings, Spawn, SpawnRefused, Goto
<1>13. ASSUME NEW o \in Calls, Opened(o) PROVE Kinds'
  BY <1>13 DEF Opened, Ask, CanAsk, Goto
<1>14. ASSUME NEW o \in Calls, Applied(o) PROVE Kinds'
  BY BoundIs, <1>14 DEF Applied, BindConflict, Ask, CanAsk, Goto
<1>15. ASSUME NEW o \in Calls, SummaryAnswered(o) PROVE Kinds'
  BY <1>15 DEF SummaryAnswered, Goto
<1>16. ASSUME NEW o \in Calls, Enriched(o) PROVE Kinds'
  BY <1>16 DEF Enriched, Goto
<1>17. ASSUME NEW o \in Calls, CloseSummarised(o) PROVE Kinds'
  BY <1>17 DEF CloseSummarised, Ask, CanAsk, Goto
<1>18. ASSUME NEW o \in Calls, Closed(o) PROVE Kinds'
  BY <1>18 DEF Closed, RemoveWorker, Unmapped, Goto
<1>19. ASSUME NEW o \in Calls, ForkSummarised(o) PROVE Kinds'
  BY <1>19 DEF ForkSummarised, Ask, CanAsk, Goto
<1>20. ASSUME NEW o \in Calls, Forked(o) PROVE Kinds'
  BY BoundIs, <1>20 DEF Forked, FreshSessions, Ask, CanAsk, Goto
<1>21. ASSUME NEW o \in Calls, ForkCancelled(o) PROVE Kinds'
  BY BoundIs, <1>21 DEF ForkCancelled, BindConflict, Ask, CanAsk, Goto
<1>22. ASSUME NEW o \in Calls, DeleteSummarised(o) PROVE Kinds'
  BY <1>22 DEF DeleteSummarised, Goto
<1>23. ASSUME NEW o \in Calls, DeleteListed(o) PROVE Kinds'
  BY <1>23 DEF DeleteListed, Goto
<1>24. ASSUME NEW o \in Calls, Coordinated(o) PROVE Kinds'
  BY <1>24 DEF Coordinated, RemoveWorker, Unmapped, Goto
<1>25. ASSUME NEW o \in Calls, Unlinked(o) PROVE Kinds'
  BY <1>25 DEF Unlinked, Goto
<1>26. ASSUME NEW o \in Calls, TaskStarted(o) PROVE Kinds'
  BY <1>26 DEF TaskStarted, OwnerAsserted, Goto
<1>27. ASSUME NEW o \in Calls, TaskRegistered(o) PROVE Kinds'
  BY <1>27 DEF TaskRegistered, OwnerAsserted, Ask, CanAsk, Goto
<1>28. ASSUME NEW o \in Calls, Compacted(o) PROVE Kinds'
  BY <1>28 DEF Compacted, Drop, RemoveWorker, Unmapped, Goto
<1>29. ASSUME NEW o \in Calls, TaskFail(o) PROVE Kinds'
  BY <1>29 DEF TaskFail, Drop, RemoveWorker, Unmapped, Goto
<1>30. ASSUME NEW o \in Calls, Fail(o) PROVE Kinds'
  BY <1>30 DEF Fail, RemoveWorker, Unmapped, Goto
<1>31. ASSUME NEW o \in Calls, Removed(o) PROVE Kinds'
  BY <1>31 DEF Removed, Settled, Goto
<1>32. ASSUME NEW w \in Workers, Exit(w) PROVE Kinds'
  BY <1>32 DEF Exit, Auxiliaries, Unmapped
<1>33. ASSUME BeginDispose PROVE Kinds'
  BY <1>33 DEF BeginDispose
<1>34. ASSUME EndDispose PROVE Kinds'
  BY <1>34 DEF EndDispose
<1>35. CASE UNCHANGED vars
  BY <1>35 DEF vars
<1>36. QED
  BY <1>1, <1>2, <1>3, <1>4, <1>5, <1>6, <1>7, <1>8, <1>9, <1>10, <1>11, <1>12,
     <1>13, <1>14, <1>15, <1>16, <1>17, <1>18, <1>19, <1>20, <1>21, <1>22,
     <1>23, <1>24, <1>25, <1>26, <1>27, <1>28, <1>29, <1>30, <1>31, <1>32,
     <1>33, <1>34, <1>35
  DEF Next, Continue

(***************************************************************************)
(* Every step preserves Spawned.                                           *)
(***************************************************************************)
LEMMA SpawnedStep ==
  ASSUME TypeOK, Kinds, Spawned, Routed, [Next]_vars
  PROVE  Spawned'
<1> USE CallsAssumption, SessionsAssumption, NoneAssumption
<1> USE DEF TypeOK, Calls, Owning, Asking, Tasking, Leaving, Ended, Labels, Kinds,
            TaskLabels, HasWorker, HasSession, Spawned, Routed, registry, process,
            disk, call, shutdown
<1>1. ASSUME NEW o \in Creates, CallCreate(o) PROVE Spawned'
  BY <1>1 DEF CallCreate, Spawn, SpawnRefused, Goto
<1>2. ASSUME NEW o \in Opens, CallOpen(o) PROVE Spawned'
  BY <1>2 DEF CallOpen, Ask, CanAsk, Goto
<1>3. ASSUME NEW o \in Closes, CallClose(o) PROVE Spawned'
  BY <1>3 DEF CallClose, CallForActive, Ask, CanAsk, Goto
<1>4. ASSUME NEW o \in Forks, CallFork(o) PROVE Spawned'
  BY <1>4 DEF CallFork, CallForActive, Ask, CanAsk, Goto
<1>5. ASSUME NEW o \in Deletes, CallDelete(o) PROVE Spawned'
  BY <1>5 DEF CallDelete, Ask, CanAsk, Goto
<1>6. ASSUME NEW o \in Compactions, CallCompact(o) PROVE Spawned'
  BY <1>6 DEF CallCompact, Spawn, SpawnRefused, Goto
<1>7. ASSUME NEW o \in Compactions, Abort(o) PROVE Spawned'
  BY <1>7 DEF Abort, Drop, RemoveWorker, Unmapped
<1>8. ASSUME NEW o \in Calls, Admitted(o) PROVE Spawned'
  BY <1>8 DEF Admitted, Goto
<1>9. ASSUME NEW o \in Calls, Started(o) PROVE Spawned'
  BY <1>9 DEF Started, Ask, CanAsk, Goto
<1>10. ASSUME NEW o \in Calls, Created(o) PROVE Spawned'
  BY BoundIs, <1>10 DEF Created, FreshSessions, Ask, CanAsk, Goto
<1>11. ASSUME NEW o \in Calls, Snapshotted(o) PROVE Spawned'
  BY <1>11 DEF Snapshotted, Ask, CanAsk, Goto
<1>12. ASSUME NEW o \in Calls, Located(o) PROVE Spawned'
  BY <1>12 DEF Located, Listings, Spawn, SpawnRefused, Goto
<1>13. ASSUME NEW o \in Calls, Opened(o) PROVE Spawned'
  BY <1>13 DEF Opened, Ask, CanAsk, Goto
<1>14. ASSUME NEW o \in Calls, Applied(o) PROVE Spawned'
  BY BoundIs, <1>14 DEF Applied, BindConflict, Ask, CanAsk, Goto
<1>15. ASSUME NEW o \in Calls, SummaryAnswered(o) PROVE Spawned'
  BY <1>15 DEF SummaryAnswered, Goto
<1>16. ASSUME NEW o \in Calls, Enriched(o) PROVE Spawned'
  BY <1>16 DEF Enriched, Goto
<1>17. ASSUME NEW o \in Calls, CloseSummarised(o) PROVE Spawned'
  BY <1>17 DEF CloseSummarised, Ask, CanAsk, Goto
<1>18. ASSUME NEW o \in Calls, Closed(o) PROVE Spawned'
  BY <1>18 DEF Closed, RemoveWorker, Unmapped, Goto
<1>19. ASSUME NEW o \in Calls, ForkSummarised(o) PROVE Spawned'
  BY <1>19 DEF ForkSummarised, Ask, CanAsk, Goto
<1>20. ASSUME NEW o \in Calls, Forked(o) PROVE Spawned'
  BY BoundIs, <1>20 DEF Forked, FreshSessions, Ask, CanAsk, Goto
<1>21. ASSUME NEW o \in Calls, ForkCancelled(o) PROVE Spawned'
  BY BoundIs, <1>21 DEF ForkCancelled, BindConflict, Ask, CanAsk, Goto
<1>22. ASSUME NEW o \in Calls, DeleteSummarised(o) PROVE Spawned'
  BY <1>22 DEF DeleteSummarised, Goto
<1>23. ASSUME NEW o \in Calls, DeleteListed(o) PROVE Spawned'
  BY <1>23 DEF DeleteListed, Goto
<1>24. ASSUME NEW o \in Calls, Coordinated(o) PROVE Spawned'
  BY <1>24 DEF Coordinated, RemoveWorker, Unmapped, Goto
<1>25. ASSUME NEW o \in Calls, Unlinked(o) PROVE Spawned'
  BY <1>25 DEF Unlinked, Goto
<1>26. ASSUME NEW o \in Calls, TaskStarted(o) PROVE Spawned'
  BY <1>26 DEF TaskStarted, OwnerAsserted, Goto
<1>27. ASSUME NEW o \in Calls, TaskRegistered(o) PROVE Spawned'
  BY <1>27 DEF TaskRegistered, OwnerAsserted, Ask, CanAsk, Goto
<1>28. ASSUME NEW o \in Calls, Compacted(o) PROVE Spawned'
  BY <1>28 DEF Compacted, Drop, RemoveWorker, Unmapped, Goto
<1>29. ASSUME NEW o \in Calls, TaskFail(o) PROVE Spawned'
  BY <1>29 DEF TaskFail, Drop, RemoveWorker, Unmapped, Goto
<1>30. ASSUME NEW o \in Calls, Fail(o) PROVE Spawned'
  BY <1>30 DEF Fail, RemoveWorker, Unmapped, Goto
<1>31. ASSUME NEW o \in Calls, Removed(o) PROVE Spawned'
  BY <1>31 DEF Removed, Settled, Goto
<1>32. ASSUME NEW w \in Workers, Exit(w) PROVE Spawned'
  BY <1>32 DEF Exit, Auxiliaries, Unmapped
<1>33. ASSUME BeginDispose PROVE Spawned'
  BY <1>33 DEF BeginDispose
<1>34. ASSUME EndDispose PROVE Spawned'
  BY <1>34 DEF EndDispose
<1>35. CASE UNCHANGED vars
  BY <1>35 DEF vars
<1>36. QED
  BY <1>1, <1>2, <1>3, <1>4, <1>5, <1>6, <1>7, <1>8, <1>9, <1>10, <1>11, <1>12,
     <1>13, <1>14, <1>15, <1>16, <1>17, <1>18, <1>19, <1>20, <1>21, <1>22,
     <1>23, <1>24, <1>25, <1>26, <1>27, <1>28, <1>29, <1>30, <1>31, <1>32,
     <1>33, <1>34, <1>35
  DEF Next, Continue

(***************************************************************************)
(* Every step preserves Roles.                                             *)
(***************************************************************************)
LEMMA RolesStep ==
  ASSUME TypeOK, Kinds, Spawned, Roles, Routed, [Next]_vars
  PROVE  Roles'
<1> USE CallsAssumption, SessionsAssumption, NoneAssumption
<1> USE DEF TypeOK, Calls, Owning, Asking, Tasking, Leaving, Ended, Labels, Kinds,
            TaskLabels, HasWorker, HasSession, Spawned, Roles, Routed, registry,
            process, disk, call, shutdown
<1>1. ASSUME NEW o \in Creates, CallCreate(o) PROVE Roles'
  BY <1>1 DEF CallCreate, Spawn, SpawnRefused, Goto
<1>2. ASSUME NEW o \in Opens, CallOpen(o) PROVE Roles'
  BY <1>2 DEF CallOpen, Ask, CanAsk, Goto
<1>3. ASSUME NEW o \in Closes, CallClose(o) PROVE Roles'
  BY <1>3 DEF CallClose, CallForActive, Ask, CanAsk, Goto
<1>4. ASSUME NEW o \in Forks, CallFork(o) PROVE Roles'
  BY <1>4 DEF CallFork, CallForActive, Ask, CanAsk, Goto
<1>5. ASSUME NEW o \in Deletes, CallDelete(o) PROVE Roles'
  BY <1>5 DEF CallDelete, Ask, CanAsk, Goto
<1>6. ASSUME NEW o \in Compactions, CallCompact(o) PROVE Roles'
  BY <1>6 DEF CallCompact, Spawn, SpawnRefused, Goto
<1>7. ASSUME NEW o \in Compactions, Abort(o) PROVE Roles'
  BY <1>7 DEF Abort, Drop, RemoveWorker, Unmapped
<1>8. ASSUME NEW o \in Calls, Admitted(o) PROVE Roles'
  BY <1>8 DEF Admitted, Goto
<1>9. ASSUME NEW o \in Calls, Started(o) PROVE Roles'
  BY <1>9 DEF Started, Ask, CanAsk, Goto
<1>10. ASSUME NEW o \in Calls, Created(o) PROVE Roles'
  BY BoundIs, <1>10 DEF Created, FreshSessions, Ask, CanAsk, Goto
<1>11. ASSUME NEW o \in Calls, Snapshotted(o) PROVE Roles'
  BY <1>11 DEF Snapshotted, Ask, CanAsk, Goto
<1>12. ASSUME NEW o \in Calls, Located(o) PROVE Roles'
  BY <1>12 DEF Located, Listings, Spawn, SpawnRefused, Goto
<1>13. ASSUME NEW o \in Calls, Opened(o) PROVE Roles'
  BY <1>13 DEF Opened, Ask, CanAsk, Goto
<1>14. ASSUME NEW o \in Calls, Applied(o) PROVE Roles'
  BY BoundIs, <1>14 DEF Applied, BindConflict, Ask, CanAsk, Goto
<1>15. ASSUME NEW o \in Calls, SummaryAnswered(o) PROVE Roles'
  BY <1>15 DEF SummaryAnswered, Goto
<1>16. ASSUME NEW o \in Calls, Enriched(o) PROVE Roles'
  BY <1>16 DEF Enriched, Goto
<1>17. ASSUME NEW o \in Calls, CloseSummarised(o) PROVE Roles'
  BY <1>17 DEF CloseSummarised, Ask, CanAsk, Goto
<1>18. ASSUME NEW o \in Calls, Closed(o) PROVE Roles'
  BY <1>18 DEF Closed, RemoveWorker, Unmapped, Goto
<1>19. ASSUME NEW o \in Calls, ForkSummarised(o) PROVE Roles'
  BY <1>19 DEF ForkSummarised, Ask, CanAsk, Goto
<1>20. ASSUME NEW o \in Calls, Forked(o) PROVE Roles'
  BY BoundIs, <1>20 DEF Forked, FreshSessions, Ask, CanAsk, Goto
<1>21. ASSUME NEW o \in Calls, ForkCancelled(o) PROVE Roles'
  BY BoundIs, <1>21 DEF ForkCancelled, BindConflict, Ask, CanAsk, Goto
<1>22. ASSUME NEW o \in Calls, DeleteSummarised(o) PROVE Roles'
  BY <1>22 DEF DeleteSummarised, Goto
<1>23. ASSUME NEW o \in Calls, DeleteListed(o) PROVE Roles'
  BY <1>23 DEF DeleteListed, Goto
<1>24. ASSUME NEW o \in Calls, Coordinated(o) PROVE Roles'
  BY <1>24 DEF Coordinated, RemoveWorker, Unmapped, Goto
<1>25. ASSUME NEW o \in Calls, Unlinked(o) PROVE Roles'
  BY <1>25 DEF Unlinked, Goto
<1>26. ASSUME NEW o \in Calls, TaskStarted(o) PROVE Roles'
  BY <1>26 DEF TaskStarted, OwnerAsserted, Goto
<1>27. ASSUME NEW o \in Calls, TaskRegistered(o) PROVE Roles'
  BY <1>27 DEF TaskRegistered, OwnerAsserted, Ask, CanAsk, Goto
<1>28. ASSUME NEW o \in Calls, Compacted(o) PROVE Roles'
  BY <1>28 DEF Compacted, Drop, RemoveWorker, Unmapped, Goto
<1>29. ASSUME NEW o \in Calls, TaskFail(o) PROVE Roles'
  BY <1>29 DEF TaskFail, Drop, RemoveWorker, Unmapped, Goto
<1>30. ASSUME NEW o \in Calls, Fail(o) PROVE Roles'
  BY <1>30 DEF Fail, RemoveWorker, Unmapped, Goto
<1>31. ASSUME NEW o \in Calls, Removed(o) PROVE Roles'
  BY <1>31 DEF Removed, Settled, Goto
<1>32. ASSUME NEW w \in Workers, Exit(w) PROVE Roles'
  BY <1>32 DEF Exit, Auxiliaries, Unmapped
<1>33. ASSUME BeginDispose PROVE Roles'
  BY <1>33 DEF BeginDispose
<1>34. ASSUME EndDispose PROVE Roles'
  BY <1>34 DEF EndDispose
<1>35. CASE UNCHANGED vars
  BY <1>35 DEF vars
<1>36. QED
  BY <1>1, <1>2, <1>3, <1>4, <1>5, <1>6, <1>7, <1>8, <1>9, <1>10, <1>11, <1>12,
     <1>13, <1>14, <1>15, <1>16, <1>17, <1>18, <1>19, <1>20, <1>21, <1>22,
     <1>23, <1>24, <1>25, <1>26, <1>27, <1>28, <1>29, <1>30, <1>31, <1>32,
     <1>33, <1>34, <1>35
  DEF Next, Continue

(***************************************************************************)
(* Every step keeps the running processes registered or retiring.          *)
(***************************************************************************)
LEMMA RegisteredStep ==
  ASSUME TypeOK, Kinds, Private, Registered, Disposal, [Next]_vars
  PROVE  Registered'
<1> USE CallsAssumption, SessionsAssumption, NoneAssumption
<1> USE DEF TypeOK, Calls, Owning, Asking, Tasking, Leaving, Ended, Labels, Kinds,
            TaskLabels, HasWorker, HasSession, Unbound, Private, Registered,
            Disposal, registry, process, disk, call, shutdown
<1>1. ASSUME NEW o \in Creates, CallCreate(o) PROVE Registered'
  BY <1>1 DEF CallCreate, Spawn, SpawnRefused, Goto
<1>2. ASSUME NEW o \in Opens, CallOpen(o) PROVE Registered'
  BY <1>2 DEF CallOpen, Ask, CanAsk, Goto
<1>3. ASSUME NEW o \in Closes, CallClose(o) PROVE Registered'
  BY <1>3 DEF CallClose, CallForActive, Ask, CanAsk, Goto
<1>4. ASSUME NEW o \in Forks, CallFork(o) PROVE Registered'
  BY <1>4 DEF CallFork, CallForActive, Ask, CanAsk, Goto
<1>5. ASSUME NEW o \in Deletes, CallDelete(o) PROVE Registered'
  BY <1>5 DEF CallDelete, Ask, CanAsk, Goto
<1>6. ASSUME NEW o \in Compactions, CallCompact(o) PROVE Registered'
  BY <1>6 DEF CallCompact, Spawn, SpawnRefused, Goto
<1>7. ASSUME NEW o \in Compactions, Abort(o) PROVE Registered'
  BY <1>7 DEF Abort, Drop, RemoveWorker, Unmapped
<1>8. ASSUME NEW o \in Calls, Admitted(o) PROVE Registered'
  BY <1>8 DEF Admitted, Goto
<1>9. ASSUME NEW o \in Calls, Started(o) PROVE Registered'
  BY <1>9 DEF Started, Ask, CanAsk, Goto
<1>10. ASSUME NEW o \in Calls, Created(o) PROVE Registered'
  BY BoundIs, <1>10 DEF Created, FreshSessions, Ask, CanAsk, Goto
<1>11. ASSUME NEW o \in Calls, Snapshotted(o) PROVE Registered'
  BY <1>11 DEF Snapshotted, Ask, CanAsk, Goto
<1>12. ASSUME NEW o \in Calls, Located(o) PROVE Registered'
  BY <1>12 DEF Located, Listings, Spawn, SpawnRefused, Goto
<1>13. ASSUME NEW o \in Calls, Opened(o) PROVE Registered'
  BY <1>13 DEF Opened, Ask, CanAsk, Goto
<1>14. ASSUME NEW o \in Calls, Applied(o) PROVE Registered'
  BY BoundIs, <1>14 DEF Applied, BindConflict, Ask, CanAsk, Goto
<1>15. ASSUME NEW o \in Calls, SummaryAnswered(o) PROVE Registered'
  BY <1>15 DEF SummaryAnswered, Goto
<1>16. ASSUME NEW o \in Calls, Enriched(o) PROVE Registered'
  BY <1>16 DEF Enriched, Goto
<1>17. ASSUME NEW o \in Calls, CloseSummarised(o) PROVE Registered'
  BY <1>17 DEF CloseSummarised, Ask, CanAsk, Goto
<1>18. ASSUME NEW o \in Calls, Closed(o) PROVE Registered'
  BY <1>18 DEF Closed, RemoveWorker, Unmapped, Goto
<1>19. ASSUME NEW o \in Calls, ForkSummarised(o) PROVE Registered'
  BY <1>19 DEF ForkSummarised, Ask, CanAsk, Goto
<1>20. ASSUME NEW o \in Calls, Forked(o) PROVE Registered'
  BY BoundIs, <1>20 DEF Forked, FreshSessions, Ask, CanAsk, Goto
<1>21. ASSUME NEW o \in Calls, ForkCancelled(o) PROVE Registered'
  BY BoundIs, <1>21 DEF ForkCancelled, BindConflict, Ask, CanAsk, Goto
<1>22. ASSUME NEW o \in Calls, DeleteSummarised(o) PROVE Registered'
  BY <1>22 DEF DeleteSummarised, Goto
<1>23. ASSUME NEW o \in Calls, DeleteListed(o) PROVE Registered'
  BY <1>23 DEF DeleteListed, Goto
<1>24. ASSUME NEW o \in Calls, Coordinated(o) PROVE Registered'
  BY <1>24 DEF Coordinated, RemoveWorker, Unmapped, Goto
<1>25. ASSUME NEW o \in Calls, Unlinked(o) PROVE Registered'
  BY <1>25 DEF Unlinked, Goto
<1>26. ASSUME NEW o \in Calls, TaskStarted(o) PROVE Registered'
  BY <1>26 DEF TaskStarted, OwnerAsserted, Goto
<1>27. ASSUME NEW o \in Calls, TaskRegistered(o) PROVE Registered'
  BY <1>27 DEF TaskRegistered, OwnerAsserted, Ask, CanAsk, Goto
<1>28. ASSUME NEW o \in Calls, Compacted(o) PROVE Registered'
  BY <1>28 DEF Compacted, Drop, RemoveWorker, Unmapped, Goto
<1>29. ASSUME NEW o \in Calls, TaskFail(o) PROVE Registered'
  BY <1>29 DEF TaskFail, Drop, RemoveWorker, Unmapped, Goto
<1>30. ASSUME NEW o \in Calls, Fail(o) PROVE Registered'
  BY <1>30 DEF Fail, RemoveWorker, Unmapped, Goto
<1>31. ASSUME NEW o \in Calls, Removed(o) PROVE Registered'
  BY <1>31 DEF Removed, Settled, Goto
<1>32. ASSUME NEW w \in Workers, Exit(w) PROVE Registered'
  BY <1>32 DEF Exit, Auxiliaries, Unmapped
<1>33. ASSUME BeginDispose PROVE Registered'
  BY <1>33 DEF BeginDispose
<1>34. ASSUME EndDispose PROVE Registered'
  BY <1>34 DEF EndDispose
<1>35. CASE UNCHANGED vars
  BY <1>35 DEF vars
<1>36. QED
  BY <1>1, <1>2, <1>3, <1>4, <1>5, <1>6, <1>7, <1>8, <1>9, <1>10, <1>11, <1>12,
     <1>13, <1>14, <1>15, <1>16, <1>17, <1>18, <1>19, <1>20, <1>21, <1>22,
     <1>23, <1>24, <1>25, <1>26, <1>27, <1>28, <1>29, <1>30, <1>31, <1>32,
     <1>33, <1>34, <1>35
  DEF Next, Continue

(***************************************************************************)
(* Every step preserves Disposal.                                          *)
(***************************************************************************)
LEMMA DisposalStep ==
  ASSUME TypeOK, Kinds, Disposal, [Next]_vars
  PROVE  Disposal'
<1> USE CallsAssumption, SessionsAssumption, NoneAssumption
<1> USE DEF TypeOK, Calls, Owning, Asking, Tasking, Leaving, Ended, Labels, Kinds,
            TaskLabels, HasWorker, HasSession, Disposal, registry, process, disk,
            call, shutdown
<1>1. ASSUME NEW o \in Creates, CallCreate(o) PROVE Disposal'
  BY <1>1 DEF CallCreate, Spawn, SpawnRefused, Goto
<1>2. ASSUME NEW o \in Opens, CallOpen(o) PROVE Disposal'
  BY <1>2 DEF CallOpen, Ask, CanAsk, Goto
<1>3. ASSUME NEW o \in Closes, CallClose(o) PROVE Disposal'
  BY <1>3 DEF CallClose, CallForActive, Ask, CanAsk, Goto
<1>4. ASSUME NEW o \in Forks, CallFork(o) PROVE Disposal'
  BY <1>4 DEF CallFork, CallForActive, Ask, CanAsk, Goto
<1>5. ASSUME NEW o \in Deletes, CallDelete(o) PROVE Disposal'
  BY <1>5 DEF CallDelete, Ask, CanAsk, Goto
<1>6. ASSUME NEW o \in Compactions, CallCompact(o) PROVE Disposal'
  BY <1>6 DEF CallCompact, Spawn, SpawnRefused, Goto
<1>7. ASSUME NEW o \in Compactions, Abort(o) PROVE Disposal'
  BY <1>7 DEF Abort, Drop, RemoveWorker, Unmapped
<1>8. ASSUME NEW o \in Calls, Admitted(o) PROVE Disposal'
  BY <1>8 DEF Admitted, Goto
<1>9. ASSUME NEW o \in Calls, Started(o) PROVE Disposal'
  BY <1>9 DEF Started, Ask, CanAsk, Goto
<1>10. ASSUME NEW o \in Calls, Created(o) PROVE Disposal'
  BY BoundIs, <1>10 DEF Created, FreshSessions, Ask, CanAsk, Goto
<1>11. ASSUME NEW o \in Calls, Snapshotted(o) PROVE Disposal'
  BY <1>11 DEF Snapshotted, Ask, CanAsk, Goto
<1>12. ASSUME NEW o \in Calls, Located(o) PROVE Disposal'
  BY <1>12 DEF Located, Listings, Spawn, SpawnRefused, Goto
<1>13. ASSUME NEW o \in Calls, Opened(o) PROVE Disposal'
  BY <1>13 DEF Opened, Ask, CanAsk, Goto
<1>14. ASSUME NEW o \in Calls, Applied(o) PROVE Disposal'
  BY BoundIs, <1>14 DEF Applied, BindConflict, Ask, CanAsk, Goto
<1>15. ASSUME NEW o \in Calls, SummaryAnswered(o) PROVE Disposal'
  BY <1>15 DEF SummaryAnswered, Goto
<1>16. ASSUME NEW o \in Calls, Enriched(o) PROVE Disposal'
  BY <1>16 DEF Enriched, Goto
<1>17. ASSUME NEW o \in Calls, CloseSummarised(o) PROVE Disposal'
  BY <1>17 DEF CloseSummarised, Ask, CanAsk, Goto
<1>18. ASSUME NEW o \in Calls, Closed(o) PROVE Disposal'
  BY <1>18 DEF Closed, RemoveWorker, Unmapped, Goto
<1>19. ASSUME NEW o \in Calls, ForkSummarised(o) PROVE Disposal'
  BY <1>19 DEF ForkSummarised, Ask, CanAsk, Goto
<1>20. ASSUME NEW o \in Calls, Forked(o) PROVE Disposal'
  BY BoundIs, <1>20 DEF Forked, FreshSessions, Ask, CanAsk, Goto
<1>21. ASSUME NEW o \in Calls, ForkCancelled(o) PROVE Disposal'
  BY BoundIs, <1>21 DEF ForkCancelled, BindConflict, Ask, CanAsk, Goto
<1>22. ASSUME NEW o \in Calls, DeleteSummarised(o) PROVE Disposal'
  BY <1>22 DEF DeleteSummarised, Goto
<1>23. ASSUME NEW o \in Calls, DeleteListed(o) PROVE Disposal'
  BY <1>23 DEF DeleteListed, Goto
<1>24. ASSUME NEW o \in Calls, Coordinated(o) PROVE Disposal'
  BY <1>24 DEF Coordinated, RemoveWorker, Unmapped, Goto
<1>25. ASSUME NEW o \in Calls, Unlinked(o) PROVE Disposal'
  BY <1>25 DEF Unlinked, Goto
<1>26. ASSUME NEW o \in Calls, TaskStarted(o) PROVE Disposal'
  BY <1>26 DEF TaskStarted, OwnerAsserted, Goto
<1>27. ASSUME NEW o \in Calls, TaskRegistered(o) PROVE Disposal'
  BY <1>27 DEF TaskRegistered, OwnerAsserted, Ask, CanAsk, Goto
<1>28. ASSUME NEW o \in Calls, Compacted(o) PROVE Disposal'
  BY <1>28 DEF Compacted, Drop, RemoveWorker, Unmapped, Goto
<1>29. ASSUME NEW o \in Calls, TaskFail(o) PROVE Disposal'
  BY <1>29 DEF TaskFail, Drop, RemoveWorker, Unmapped, Goto
<1>30. ASSUME NEW o \in Calls, Fail(o) PROVE Disposal'
  BY <1>30 DEF Fail, RemoveWorker, Unmapped, Goto
<1>31. ASSUME NEW o \in Calls, Removed(o) PROVE Disposal'
  BY <1>31 DEF Removed, Settled, Goto
<1>32. ASSUME NEW w \in Workers, Exit(w) PROVE Disposal'
  BY <1>32 DEF Exit, Auxiliaries, Unmapped
<1>33. ASSUME BeginDispose PROVE Disposal'
  BY <1>33 DEF BeginDispose
<1>34. ASSUME EndDispose PROVE Disposal'
  BY <1>34 DEF EndDispose
<1>35. CASE UNCHANGED vars
  BY <1>35 DEF vars
<1>36. QED
  BY <1>1, <1>2, <1>3, <1>4, <1>5, <1>6, <1>7, <1>8, <1>9, <1>10, <1>11, <1>12,
     <1>13, <1>14, <1>15, <1>16, <1>17, <1>18, <1>19, <1>20, <1>21, <1>22,
     <1>23, <1>24, <1>25, <1>26, <1>27, <1>28, <1>29, <1>30, <1>31, <1>32,
     <1>33, <1>34, <1>35
  DEF Next, Continue

(***************************************************************************)
(* Every step preserves PinBorn.                                           *)
(***************************************************************************)
LEMMA BornStep ==
  ASSUME TypeOK, Kinds, PinBorn, ArgBorn, [Next]_vars
  PROVE  PinBorn'
<1> USE CallsAssumption, SessionsAssumption, NoneAssumption
<1> USE DEF TypeOK, Calls, Owning, Asking, Tasking, Leaving, Ended, Labels, Kinds,
            TaskLabels, HasWorker, HasSession, PinBorn, ArgBorn, registry, process,
            disk, call, shutdown
<1>1. ASSUME NEW o \in Creates, CallCreate(o) PROVE PinBorn'
  BY <1>1 DEF CallCreate, Spawn, SpawnRefused, Goto
<1>2. ASSUME NEW o \in Opens, CallOpen(o) PROVE PinBorn'
  BY <1>2 DEF CallOpen, Ask, CanAsk, Goto
<1>3. ASSUME NEW o \in Closes, CallClose(o) PROVE PinBorn'
  BY <1>3 DEF CallClose, CallForActive, Ask, CanAsk, Goto
<1>4. ASSUME NEW o \in Forks, CallFork(o) PROVE PinBorn'
  BY <1>4 DEF CallFork, CallForActive, Ask, CanAsk, Goto
<1>5. ASSUME NEW o \in Deletes, CallDelete(o) PROVE PinBorn'
  BY <1>5 DEF CallDelete, Ask, CanAsk, Goto
<1>6. ASSUME NEW o \in Compactions, CallCompact(o) PROVE PinBorn'
  BY <1>6 DEF CallCompact, Spawn, SpawnRefused, Goto
<1>7. ASSUME NEW o \in Compactions, Abort(o) PROVE PinBorn'
  BY <1>7 DEF Abort, Drop, RemoveWorker, Unmapped
<1>8. ASSUME NEW o \in Calls, Admitted(o) PROVE PinBorn'
  BY <1>8 DEF Admitted, Goto
<1>9. ASSUME NEW o \in Calls, Started(o) PROVE PinBorn'
  BY <1>9 DEF Started, Ask, CanAsk, Goto
<1>10. ASSUME NEW o \in Calls, Created(o) PROVE PinBorn'
  BY BoundIs, <1>10 DEF Created, FreshSessions, Ask, CanAsk, Goto
<1>11. ASSUME NEW o \in Calls, Snapshotted(o) PROVE PinBorn'
  BY <1>11 DEF Snapshotted, Ask, CanAsk, Goto
<1>12. ASSUME NEW o \in Calls, Located(o) PROVE PinBorn'
  BY <1>12 DEF Located, Listings, Spawn, SpawnRefused, Goto
<1>13. ASSUME NEW o \in Calls, Opened(o) PROVE PinBorn'
  BY <1>13 DEF Opened, Ask, CanAsk, Goto
<1>14. ASSUME NEW o \in Calls, Applied(o) PROVE PinBorn'
  BY BoundIs, <1>14 DEF Applied, BindConflict, Ask, CanAsk, Goto
<1>15. ASSUME NEW o \in Calls, SummaryAnswered(o) PROVE PinBorn'
  BY <1>15 DEF SummaryAnswered, Goto
<1>16. ASSUME NEW o \in Calls, Enriched(o) PROVE PinBorn'
  BY <1>16 DEF Enriched, Goto
<1>17. ASSUME NEW o \in Calls, CloseSummarised(o) PROVE PinBorn'
  BY <1>17 DEF CloseSummarised, Ask, CanAsk, Goto
<1>18. ASSUME NEW o \in Calls, Closed(o) PROVE PinBorn'
  BY <1>18 DEF Closed, RemoveWorker, Unmapped, Goto
<1>19. ASSUME NEW o \in Calls, ForkSummarised(o) PROVE PinBorn'
  BY <1>19 DEF ForkSummarised, Ask, CanAsk, Goto
<1>20. ASSUME NEW o \in Calls, Forked(o) PROVE PinBorn'
  BY BoundIs, <1>20 DEF Forked, FreshSessions, Ask, CanAsk, Goto
<1>21. ASSUME NEW o \in Calls, ForkCancelled(o) PROVE PinBorn'
  BY BoundIs, <1>21 DEF ForkCancelled, BindConflict, Ask, CanAsk, Goto
<1>22. ASSUME NEW o \in Calls, DeleteSummarised(o) PROVE PinBorn'
  BY <1>22 DEF DeleteSummarised, Goto
<1>23. ASSUME NEW o \in Calls, DeleteListed(o) PROVE PinBorn'
  BY <1>23 DEF DeleteListed, Goto
<1>24. ASSUME NEW o \in Calls, Coordinated(o) PROVE PinBorn'
  BY <1>24 DEF Coordinated, RemoveWorker, Unmapped, Goto
<1>25. ASSUME NEW o \in Calls, Unlinked(o) PROVE PinBorn'
  BY <1>25 DEF Unlinked, Goto
<1>26. ASSUME NEW o \in Calls, TaskStarted(o) PROVE PinBorn'
  BY <1>26 DEF TaskStarted, OwnerAsserted, Goto
<1>27. ASSUME NEW o \in Calls, TaskRegistered(o) PROVE PinBorn'
  BY <1>27 DEF TaskRegistered, OwnerAsserted, Ask, CanAsk, Goto
<1>28. ASSUME NEW o \in Calls, Compacted(o) PROVE PinBorn'
  BY <1>28 DEF Compacted, Drop, RemoveWorker, Unmapped, Goto
<1>29. ASSUME NEW o \in Calls, TaskFail(o) PROVE PinBorn'
  BY <1>29 DEF TaskFail, Drop, RemoveWorker, Unmapped, Goto
<1>30. ASSUME NEW o \in Calls, Fail(o) PROVE PinBorn'
  BY <1>30 DEF Fail, RemoveWorker, Unmapped, Goto
<1>31. ASSUME NEW o \in Calls, Removed(o) PROVE PinBorn'
  BY <1>31 DEF Removed, Settled, Goto
<1>32. ASSUME NEW w \in Workers, Exit(w) PROVE PinBorn'
  BY <1>32 DEF Exit, Auxiliaries, Unmapped
<1>33. ASSUME BeginDispose PROVE PinBorn'
  BY <1>33 DEF BeginDispose
<1>34. ASSUME EndDispose PROVE PinBorn'
  BY <1>34 DEF EndDispose
<1>35. CASE UNCHANGED vars
  BY <1>35 DEF vars
<1>36. QED
  BY <1>1, <1>2, <1>3, <1>4, <1>5, <1>6, <1>7, <1>8, <1>9, <1>10, <1>11, <1>12,
     <1>13, <1>14, <1>15, <1>16, <1>17, <1>18, <1>19, <1>20, <1>21, <1>22,
     <1>23, <1>24, <1>25, <1>26, <1>27, <1>28, <1>29, <1>30, <1>31, <1>32,
     <1>33, <1>34, <1>35
  DEF Next, Continue

(***************************************************************************)
(* Every step preserves ArgBorn.                                           *)
(***************************************************************************)
LEMMA ArgBornStep ==
  ASSUME TypeOK, Kinds, ArgBorn, [Next]_vars
  PROVE  ArgBorn'
<1> USE CallsAssumption, SessionsAssumption, NoneAssumption
<1> USE DEF TypeOK, Calls, Owning, Asking, Tasking, Leaving, Ended, Labels, Kinds,
            TaskLabels, HasWorker, HasSession, ArgBorn, registry, process, disk,
            call, shutdown
<1>1. ASSUME NEW o \in Creates, CallCreate(o) PROVE ArgBorn'
  BY <1>1 DEF CallCreate, Spawn, SpawnRefused, Goto
<1>2. ASSUME NEW o \in Opens, CallOpen(o) PROVE ArgBorn'
  BY <1>2 DEF CallOpen, Ask, CanAsk, Goto
<1>3. ASSUME NEW o \in Closes, CallClose(o) PROVE ArgBorn'
  BY <1>3 DEF CallClose, CallForActive, Ask, CanAsk, Goto
<1>4. ASSUME NEW o \in Forks, CallFork(o) PROVE ArgBorn'
  BY <1>4 DEF CallFork, CallForActive, Ask, CanAsk, Goto
<1>5. ASSUME NEW o \in Deletes, CallDelete(o) PROVE ArgBorn'
  BY <1>5 DEF CallDelete, Ask, CanAsk, Goto
<1>6. ASSUME NEW o \in Compactions, CallCompact(o) PROVE ArgBorn'
  BY <1>6 DEF CallCompact, Spawn, SpawnRefused, Goto
<1>7. ASSUME NEW o \in Compactions, Abort(o) PROVE ArgBorn'
  BY <1>7 DEF Abort, Drop, RemoveWorker, Unmapped
<1>8. ASSUME NEW o \in Calls, Admitted(o) PROVE ArgBorn'
  BY <1>8 DEF Admitted, Goto
<1>9. ASSUME NEW o \in Calls, Started(o) PROVE ArgBorn'
  BY <1>9 DEF Started, Ask, CanAsk, Goto
<1>10. ASSUME NEW o \in Calls, Created(o) PROVE ArgBorn'
  BY BoundIs, <1>10 DEF Created, FreshSessions, Ask, CanAsk, Goto
<1>11. ASSUME NEW o \in Calls, Snapshotted(o) PROVE ArgBorn'
  BY <1>11 DEF Snapshotted, Ask, CanAsk, Goto
<1>12. ASSUME NEW o \in Calls, Located(o) PROVE ArgBorn'
  BY <1>12 DEF Located, Listings, Spawn, SpawnRefused, Goto
<1>13. ASSUME NEW o \in Calls, Opened(o) PROVE ArgBorn'
  BY <1>13 DEF Opened, Ask, CanAsk, Goto
<1>14. ASSUME NEW o \in Calls, Applied(o) PROVE ArgBorn'
  BY BoundIs, <1>14 DEF Applied, BindConflict, Ask, CanAsk, Goto
<1>15. ASSUME NEW o \in Calls, SummaryAnswered(o) PROVE ArgBorn'
  BY <1>15 DEF SummaryAnswered, Goto
<1>16. ASSUME NEW o \in Calls, Enriched(o) PROVE ArgBorn'
  BY <1>16 DEF Enriched, Goto
<1>17. ASSUME NEW o \in Calls, CloseSummarised(o) PROVE ArgBorn'
  BY <1>17 DEF CloseSummarised, Ask, CanAsk, Goto
<1>18. ASSUME NEW o \in Calls, Closed(o) PROVE ArgBorn'
  BY <1>18 DEF Closed, RemoveWorker, Unmapped, Goto
<1>19. ASSUME NEW o \in Calls, ForkSummarised(o) PROVE ArgBorn'
  BY <1>19 DEF ForkSummarised, Ask, CanAsk, Goto
<1>20. ASSUME NEW o \in Calls, Forked(o) PROVE ArgBorn'
  BY BoundIs, <1>20 DEF Forked, FreshSessions, Ask, CanAsk, Goto
<1>21. ASSUME NEW o \in Calls, ForkCancelled(o) PROVE ArgBorn'
  BY BoundIs, <1>21 DEF ForkCancelled, BindConflict, Ask, CanAsk, Goto
<1>22. ASSUME NEW o \in Calls, DeleteSummarised(o) PROVE ArgBorn'
  BY <1>22 DEF DeleteSummarised, Goto
<1>23. ASSUME NEW o \in Calls, DeleteListed(o) PROVE ArgBorn'
  BY <1>23 DEF DeleteListed, Goto
<1>24. ASSUME NEW o \in Calls, Coordinated(o) PROVE ArgBorn'
  BY <1>24 DEF Coordinated, RemoveWorker, Unmapped, Goto
<1>25. ASSUME NEW o \in Calls, Unlinked(o) PROVE ArgBorn'
  BY <1>25 DEF Unlinked, Goto
<1>26. ASSUME NEW o \in Calls, TaskStarted(o) PROVE ArgBorn'
  BY <1>26 DEF TaskStarted, OwnerAsserted, Goto
<1>27. ASSUME NEW o \in Calls, TaskRegistered(o) PROVE ArgBorn'
  BY <1>27 DEF TaskRegistered, OwnerAsserted, Ask, CanAsk, Goto
<1>28. ASSUME NEW o \in Calls, Compacted(o) PROVE ArgBorn'
  BY <1>28 DEF Compacted, Drop, RemoveWorker, Unmapped, Goto
<1>29. ASSUME NEW o \in Calls, TaskFail(o) PROVE ArgBorn'
  BY <1>29 DEF TaskFail, Drop, RemoveWorker, Unmapped, Goto
<1>30. ASSUME NEW o \in Calls, Fail(o) PROVE ArgBorn'
  BY <1>30 DEF Fail, RemoveWorker, Unmapped, Goto
<1>31. ASSUME NEW o \in Calls, Removed(o) PROVE ArgBorn'
  BY <1>31 DEF Removed, Settled, Goto
<1>32. ASSUME NEW w \in Workers, Exit(w) PROVE ArgBorn'
  BY <1>32 DEF Exit, Auxiliaries, Unmapped
<1>33. ASSUME BeginDispose PROVE ArgBorn'
  BY <1>33 DEF BeginDispose
<1>34. ASSUME EndDispose PROVE ArgBorn'
  BY <1>34 DEF EndDispose
<1>35. CASE UNCHANGED vars
  BY <1>35 DEF vars
<1>36. QED
  BY <1>1, <1>2, <1>3, <1>4, <1>5, <1>6, <1>7, <1>8, <1>9, <1>10, <1>11, <1>12,
     <1>13, <1>14, <1>15, <1>16, <1>17, <1>18, <1>19, <1>20, <1>21, <1>22,
     <1>23, <1>24, <1>25, <1>26, <1>27, <1>28, <1>29, <1>30, <1>31, <1>32,
     <1>33, <1>34, <1>35
  DEF Next, Continue

(***************************************************************************)
(* Every step preserves TaskPrivate.                                       *)
(***************************************************************************)
LEMMA TaskPrivateStep ==
  ASSUME TypeOK, Kinds, Spawned, Roles, TaskPrivate, Routed, [Next]_vars
  PROVE  TaskPrivate'
<1> USE CallsAssumption, SessionsAssumption, NoneAssumption
<1> USE DEF TypeOK, Calls, Owning, Asking, Tasking, Leaving, Ended, Labels, Kinds,
            TaskLabels, HasWorker, HasSession, Spawned, Roles, TaskPrivate, Routed,
            registry, process, disk, call, shutdown
<1>1. ASSUME NEW o \in Creates, CallCreate(o) PROVE TaskPrivate'
  BY <1>1 DEF CallCreate, Spawn, SpawnRefused, Goto
<1>2. ASSUME NEW o \in Opens, CallOpen(o) PROVE TaskPrivate'
  BY <1>2 DEF CallOpen, Ask, CanAsk, Goto
<1>3. ASSUME NEW o \in Closes, CallClose(o) PROVE TaskPrivate'
  BY <1>3 DEF CallClose, CallForActive, Ask, CanAsk, Goto
<1>4. ASSUME NEW o \in Forks, CallFork(o) PROVE TaskPrivate'
  BY <1>4 DEF CallFork, CallForActive, Ask, CanAsk, Goto
<1>5. ASSUME NEW o \in Deletes, CallDelete(o) PROVE TaskPrivate'
  BY <1>5 DEF CallDelete, Ask, CanAsk, Goto
<1>6. ASSUME NEW o \in Compactions, CallCompact(o) PROVE TaskPrivate'
  BY <1>6 DEF CallCompact, Spawn, SpawnRefused, Goto
<1>7. ASSUME NEW o \in Compactions, Abort(o) PROVE TaskPrivate'
  BY <1>7 DEF Abort, Drop, RemoveWorker, Unmapped
<1>8. ASSUME NEW o \in Calls, Admitted(o) PROVE TaskPrivate'
  BY <1>8 DEF Admitted, Goto
<1>9. ASSUME NEW o \in Calls, Started(o) PROVE TaskPrivate'
  BY <1>9 DEF Started, Ask, CanAsk, Goto
<1>10. ASSUME NEW o \in Calls, Created(o) PROVE TaskPrivate'
  BY BoundIs, <1>10 DEF Created, FreshSessions, Ask, CanAsk, Goto
<1>11. ASSUME NEW o \in Calls, Snapshotted(o) PROVE TaskPrivate'
  BY <1>11 DEF Snapshotted, Ask, CanAsk, Goto
<1>12. ASSUME NEW o \in Calls, Located(o) PROVE TaskPrivate'
  BY <1>12 DEF Located, Listings, Spawn, SpawnRefused, Goto
<1>13. ASSUME NEW o \in Calls, Opened(o) PROVE TaskPrivate'
  BY <1>13 DEF Opened, Ask, CanAsk, Goto
<1>14. ASSUME NEW o \in Calls, Applied(o) PROVE TaskPrivate'
  BY BoundIs, <1>14 DEF Applied, BindConflict, Ask, CanAsk, Goto
<1>15. ASSUME NEW o \in Calls, SummaryAnswered(o) PROVE TaskPrivate'
  BY <1>15 DEF SummaryAnswered, Goto
<1>16. ASSUME NEW o \in Calls, Enriched(o) PROVE TaskPrivate'
  BY <1>16 DEF Enriched, Goto
<1>17. ASSUME NEW o \in Calls, CloseSummarised(o) PROVE TaskPrivate'
  BY <1>17 DEF CloseSummarised, Ask, CanAsk, Goto
<1>18. ASSUME NEW o \in Calls, Closed(o) PROVE TaskPrivate'
  BY <1>18 DEF Closed, RemoveWorker, Unmapped, Goto
<1>19. ASSUME NEW o \in Calls, ForkSummarised(o) PROVE TaskPrivate'
  BY <1>19 DEF ForkSummarised, Ask, CanAsk, Goto
<1>20. ASSUME NEW o \in Calls, Forked(o) PROVE TaskPrivate'
  BY BoundIs, <1>20 DEF Forked, FreshSessions, Ask, CanAsk, Goto
<1>21. ASSUME NEW o \in Calls, ForkCancelled(o) PROVE TaskPrivate'
  BY BoundIs, <1>21 DEF ForkCancelled, BindConflict, Ask, CanAsk, Goto
<1>22. ASSUME NEW o \in Calls, DeleteSummarised(o) PROVE TaskPrivate'
  BY <1>22 DEF DeleteSummarised, Goto
<1>23. ASSUME NEW o \in Calls, DeleteListed(o) PROVE TaskPrivate'
  BY <1>23 DEF DeleteListed, Goto
<1>24. ASSUME NEW o \in Calls, Coordinated(o) PROVE TaskPrivate'
  BY <1>24 DEF Coordinated, RemoveWorker, Unmapped, Goto
<1>25. ASSUME NEW o \in Calls, Unlinked(o) PROVE TaskPrivate'
  BY <1>25 DEF Unlinked, Goto
<1>26. ASSUME NEW o \in Calls, TaskStarted(o) PROVE TaskPrivate'
  BY <1>26 DEF TaskStarted, OwnerAsserted, Goto
<1>27. ASSUME NEW o \in Calls, TaskRegistered(o) PROVE TaskPrivate'
  BY <1>27 DEF TaskRegistered, OwnerAsserted, Ask, CanAsk, Goto
<1>28. ASSUME NEW o \in Calls, Compacted(o) PROVE TaskPrivate'
  BY <1>28 DEF Compacted, Drop, RemoveWorker, Unmapped, Goto
<1>29. ASSUME NEW o \in Calls, TaskFail(o) PROVE TaskPrivate'
  BY <1>29 DEF TaskFail, Drop, RemoveWorker, Unmapped, Goto
<1>30. ASSUME NEW o \in Calls, Fail(o) PROVE TaskPrivate'
  BY <1>30 DEF Fail, RemoveWorker, Unmapped, Goto
<1>31. ASSUME NEW o \in Calls, Removed(o) PROVE TaskPrivate'
  BY <1>31 DEF Removed, Settled, Goto
<1>32. ASSUME NEW w \in Workers, Exit(w) PROVE TaskPrivate'
  BY <1>32 DEF Exit, Auxiliaries, Unmapped
<1>33. ASSUME BeginDispose PROVE TaskPrivate'
  BY <1>33 DEF BeginDispose
<1>34. ASSUME EndDispose PROVE TaskPrivate'
  BY <1>34 DEF EndDispose
<1>35. CASE UNCHANGED vars
  BY <1>35 DEF vars
<1>36. QED
  BY <1>1, <1>2, <1>3, <1>4, <1>5, <1>6, <1>7, <1>8, <1>9, <1>10, <1>11, <1>12,
     <1>13, <1>14, <1>15, <1>16, <1>17, <1>18, <1>19, <1>20, <1>21, <1>22,
     <1>23, <1>24, <1>25, <1>26, <1>27, <1>28, <1>29, <1>30, <1>31, <1>32,
     <1>33, <1>34, <1>35
  DEF Next, Continue

(***************************************************************************)
(* Every step preserves Private: the worker of a session somebody else can *)
(* find is pinned.                                                         *)
(***************************************************************************)
LEMMA PrivateStep ==
  ASSUME TypeOK, Kinds, Spawned, Roles, Private, Routed, [Next]_vars
  PROVE  Private'
<1> USE CallsAssumption, SessionsAssumption, NoneAssumption
<1> USE DEF TypeOK, Calls, Owning, Asking, Tasking, Leaving, Ended, Labels, Kinds,
            TaskLabels, HasWorker, HasSession, Unbound, Spawned, Roles, Private,
            Routed, registry, process, disk, call, shutdown
<1>1. ASSUME NEW o \in Creates, CallCreate(o) PROVE Private'
  BY <1>1 DEF CallCreate, Spawn, SpawnRefused, Goto
<1>2. ASSUME NEW o \in Opens, CallOpen(o) PROVE Private'
  BY <1>2 DEF CallOpen, Ask, CanAsk, Goto
<1>3. ASSUME NEW o \in Closes, CallClose(o) PROVE Private'
  BY <1>3 DEF CallClose, CallForActive, Ask, CanAsk, Goto
<1>4. ASSUME NEW o \in Forks, CallFork(o) PROVE Private'
  BY <1>4 DEF CallFork, CallForActive, Ask, CanAsk, Goto
<1>5. ASSUME NEW o \in Deletes, CallDelete(o) PROVE Private'
  BY <1>5 DEF CallDelete, Ask, CanAsk, Goto
<1>6. ASSUME NEW o \in Compactions, CallCompact(o) PROVE Private'
  BY <1>6 DEF CallCompact, Spawn, SpawnRefused, Goto
<1>7. ASSUME NEW o \in Compactions, Abort(o) PROVE Private'
  BY <1>7 DEF Abort, Drop, RemoveWorker, Unmapped
<1>8. ASSUME NEW o \in Calls, Admitted(o) PROVE Private'
  BY <1>8 DEF Admitted, Goto
<1>9. ASSUME NEW o \in Calls, Started(o) PROVE Private'
  BY <1>9 DEF Started, Ask, CanAsk, Goto
<1>10. ASSUME NEW o \in Calls, Created(o) PROVE Private'
  BY BoundIs, <1>10 DEF Created, FreshSessions, Ask, CanAsk, Goto
<1>11. ASSUME NEW o \in Calls, Snapshotted(o) PROVE Private'
  BY <1>11 DEF Snapshotted, Ask, CanAsk, Goto
<1>12. ASSUME NEW o \in Calls, Located(o) PROVE Private'
  BY <1>12 DEF Located, Listings, Spawn, SpawnRefused, Goto
<1>13. ASSUME NEW o \in Calls, Opened(o) PROVE Private'
  BY <1>13 DEF Opened, Ask, CanAsk, Goto
<1>14. ASSUME NEW o \in Calls, Applied(o) PROVE Private'
  BY BoundIs, <1>14 DEF Applied, BindConflict, Ask, CanAsk, Goto
<1>15. ASSUME NEW o \in Calls, SummaryAnswered(o) PROVE Private'
  BY <1>15 DEF SummaryAnswered, Goto
<1>16. ASSUME NEW o \in Calls, Enriched(o) PROVE Private'
  BY <1>16 DEF Enriched, Goto
<1>17. ASSUME NEW o \in Calls, CloseSummarised(o) PROVE Private'
  BY <1>17 DEF CloseSummarised, Ask, CanAsk, Goto
<1>18. ASSUME NEW o \in Calls, Closed(o) PROVE Private'
  BY <1>18 DEF Closed, RemoveWorker, Unmapped, Goto
<1>19. ASSUME NEW o \in Calls, ForkSummarised(o) PROVE Private'
  BY <1>19 DEF ForkSummarised, Ask, CanAsk, Goto
<1>20. ASSUME NEW o \in Calls, Forked(o) PROVE Private'
  BY BoundIs, <1>20 DEF Forked, FreshSessions, Ask, CanAsk, Goto
<1>21. ASSUME NEW o \in Calls, ForkCancelled(o) PROVE Private'
  BY BoundIs, <1>21 DEF ForkCancelled, BindConflict, Ask, CanAsk, Goto
<1>22. ASSUME NEW o \in Calls, DeleteSummarised(o) PROVE Private'
  BY <1>22 DEF DeleteSummarised, Goto
<1>23. ASSUME NEW o \in Calls, DeleteListed(o) PROVE Private'
  BY <1>23 DEF DeleteListed, Goto
<1>24. ASSUME NEW o \in Calls, Coordinated(o) PROVE Private'
  BY <1>24 DEF Coordinated, RemoveWorker, Unmapped, Goto
<1>25. ASSUME NEW o \in Calls, Unlinked(o) PROVE Private'
  BY <1>25 DEF Unlinked, Goto
<1>26. ASSUME NEW o \in Calls, TaskStarted(o) PROVE Private'
  BY <1>26 DEF TaskStarted, OwnerAsserted, Goto
<1>27. ASSUME NEW o \in Calls, TaskRegistered(o) PROVE Private'
  BY <1>27 DEF TaskRegistered, OwnerAsserted, Ask, CanAsk, Goto
<1>28. ASSUME NEW o \in Calls, Compacted(o) PROVE Private'
  BY <1>28 DEF Compacted, Drop, RemoveWorker, Unmapped, Goto
<1>29. ASSUME NEW o \in Calls, TaskFail(o) PROVE Private'
  BY <1>29 DEF TaskFail, Drop, RemoveWorker, Unmapped, Goto
<1>30. ASSUME NEW o \in Calls, Fail(o) PROVE Private'
  BY <1>30 DEF Fail, RemoveWorker, Unmapped, Goto
<1>31. ASSUME NEW o \in Calls, Removed(o) PROVE Private'
  BY <1>31 DEF Removed, Settled, Goto
<1>32. ASSUME NEW w \in Workers, Exit(w) PROVE Private'
  BY <1>32 DEF Exit, Auxiliaries, Unmapped
<1>33. ASSUME BeginDispose PROVE Private'
  BY <1>33 DEF BeginDispose
<1>34. ASSUME EndDispose PROVE Private'
  BY <1>34 DEF EndDispose
<1>35. CASE UNCHANGED vars
  BY <1>35 DEF vars
<1>36. QED
  BY <1>1, <1>2, <1>3, <1>4, <1>5, <1>6, <1>7, <1>8, <1>9, <1>10, <1>11, <1>12,
     <1>13, <1>14, <1>15, <1>16, <1>17, <1>18, <1>19, <1>20, <1>21, <1>22,
     <1>23, <1>24, <1>25, <1>26, <1>27, <1>28, <1>29, <1>30, <1>31, <1>32,
     <1>33, <1>34, <1>35
  DEF Next, Continue

(***************************************************************************)
(* Every step preserves Routed.                                            *)
(***************************************************************************)
LEMMA RoutedStep ==
  ASSUME TypeOK, Kinds, Spawned, Roles, Private, Routed, [Next]_vars
  PROVE  Routed'
<1> USE CallsAssumption, SessionsAssumption, NoneAssumption
<1> USE DEF TypeOK, Calls, Owning, Asking, Tasking, Leaving, Ended, Labels, Kinds,
            TaskLabels, HasWorker, HasSession, Unbound, Spawned, Roles, Private,
            Routed, registry, process, disk, call, shutdown
<1>1. ASSUME NEW o \in Creates, CallCreate(o) PROVE Routed'
  BY <1>1 DEF CallCreate, Spawn, SpawnRefused, Goto
<1>2. ASSUME NEW o \in Opens, CallOpen(o) PROVE Routed'
  BY <1>2 DEF CallOpen, Ask, CanAsk, Goto
<1>3. ASSUME NEW o \in Closes, CallClose(o) PROVE Routed'
  BY <1>3 DEF CallClose, CallForActive, Ask, CanAsk, Goto
<1>4. ASSUME NEW o \in Forks, CallFork(o) PROVE Routed'
  BY <1>4 DEF CallFork, CallForActive, Ask, CanAsk, Goto
<1>5. ASSUME NEW o \in Deletes, CallDelete(o) PROVE Routed'
  BY <1>5 DEF CallDelete, Ask, CanAsk, Goto
<1>6. ASSUME NEW o \in Compactions, CallCompact(o) PROVE Routed'
  BY <1>6 DEF CallCompact, Spawn, SpawnRefused, Goto
<1>7. ASSUME NEW o \in Compactions, Abort(o) PROVE Routed'
  BY <1>7 DEF Abort, Drop, RemoveWorker, Unmapped
<1>8. ASSUME NEW o \in Calls, Admitted(o) PROVE Routed'
  BY <1>8 DEF Admitted, Goto
<1>9. ASSUME NEW o \in Calls, Started(o) PROVE Routed'
  BY <1>9 DEF Started, Ask, CanAsk, Goto
<1>10. ASSUME NEW o \in Calls, Created(o) PROVE Routed'
  BY BoundIs, <1>10 DEF Created, FreshSessions, Ask, CanAsk, Goto
<1>11. ASSUME NEW o \in Calls, Snapshotted(o) PROVE Routed'
  BY <1>11 DEF Snapshotted, Ask, CanAsk, Goto
<1>12. ASSUME NEW o \in Calls, Located(o) PROVE Routed'
  BY <1>12 DEF Located, Listings, Spawn, SpawnRefused, Goto
<1>13. ASSUME NEW o \in Calls, Opened(o) PROVE Routed'
  BY <1>13 DEF Opened, Ask, CanAsk, Goto
<1>14. ASSUME NEW o \in Calls, Applied(o) PROVE Routed'
  BY BoundIs, <1>14 DEF Applied, BindConflict, Ask, CanAsk, Goto
<1>15. ASSUME NEW o \in Calls, SummaryAnswered(o) PROVE Routed'
  BY <1>15 DEF SummaryAnswered, Goto
<1>16. ASSUME NEW o \in Calls, Enriched(o) PROVE Routed'
  BY <1>16 DEF Enriched, Goto
<1>17. ASSUME NEW o \in Calls, CloseSummarised(o) PROVE Routed'
  BY <1>17 DEF CloseSummarised, Ask, CanAsk, Goto
<1>18. ASSUME NEW o \in Calls, Closed(o) PROVE Routed'
  BY <1>18 DEF Closed, RemoveWorker, Unmapped, Goto
<1>19. ASSUME NEW o \in Calls, ForkSummarised(o) PROVE Routed'
  BY <1>19 DEF ForkSummarised, Ask, CanAsk, Goto
<1>20. ASSUME NEW o \in Calls, Forked(o) PROVE Routed'
  BY BoundIs, <1>20 DEF Forked, FreshSessions, Ask, CanAsk, Goto
<1>21. ASSUME NEW o \in Calls, ForkCancelled(o) PROVE Routed'
  BY BoundIs, <1>21 DEF ForkCancelled, BindConflict, Ask, CanAsk, Goto
<1>22. ASSUME NEW o \in Calls, DeleteSummarised(o) PROVE Routed'
  BY <1>22 DEF DeleteSummarised, Goto
<1>23. ASSUME NEW o \in Calls, DeleteListed(o) PROVE Routed'
  BY <1>23 DEF DeleteListed, Goto
<1>24. ASSUME NEW o \in Calls, Coordinated(o) PROVE Routed'
  BY <1>24 DEF Coordinated, RemoveWorker, Unmapped, Goto
<1>25. ASSUME NEW o \in Calls, Unlinked(o) PROVE Routed'
  BY <1>25 DEF Unlinked, Goto
<1>26. ASSUME NEW o \in Calls, TaskStarted(o) PROVE Routed'
  BY <1>26 DEF TaskStarted, OwnerAsserted, Goto
<1>27. ASSUME NEW o \in Calls, TaskRegistered(o) PROVE Routed'
  BY <1>27 DEF TaskRegistered, OwnerAsserted, Ask, CanAsk, Goto
<1>28. ASSUME NEW o \in Calls, Compacted(o) PROVE Routed'
  BY <1>28 DEF Compacted, Drop, RemoveWorker, Unmapped, Goto
<1>29. ASSUME NEW o \in Calls, TaskFail(o) PROVE Routed'
  BY <1>29 DEF TaskFail, Drop, RemoveWorker, Unmapped, Goto
<1>30. ASSUME NEW o \in Calls, Fail(o) PROVE Routed'
  BY <1>30 DEF Fail, RemoveWorker, Unmapped, Goto
<1>31. ASSUME NEW o \in Calls, Removed(o) PROVE Routed'
  BY <1>31 DEF Removed, Settled, Goto
<1>32. ASSUME NEW w \in Workers, Exit(w) PROVE Routed'
  BY <1>32 DEF Exit, Auxiliaries, Unmapped
<1>33. ASSUME BeginDispose PROVE Routed'
  BY <1>33 DEF BeginDispose
<1>34. ASSUME EndDispose PROVE Routed'
  BY <1>34 DEF EndDispose
<1>35. CASE UNCHANGED vars
  BY <1>35 DEF vars
<1>36. QED
  BY <1>1, <1>2, <1>3, <1>4, <1>5, <1>6, <1>7, <1>8, <1>9, <1>10, <1>11, <1>12,
     <1>13, <1>14, <1>15, <1>16, <1>17, <1>18, <1>19, <1>20, <1>21, <1>22,
     <1>23, <1>24, <1>25, <1>26, <1>27, <1>28, <1>29, <1>30, <1>31, <1>32,
     <1>33, <1>34, <1>35
  DEF Next, Continue

(***************************************************************************)
(* Every step preserves ReopenReusesWorker.                                *)
(***************************************************************************)
LEMMA ReopenStep ==
  ASSUME TypeOK, Kinds, Spawned, Roles, Private, PinBorn, ArgBorn, Routed,
         ReopenReusesWorker, [Next]_vars
  PROVE  ReopenReusesWorker'
<1> USE CallsAssumption, SessionsAssumption, NoneAssumption
<1> USE DEF TypeOK, Calls, Owning, Asking, Tasking, Leaving, Ended, Labels, Kinds,
            TaskLabels, HasWorker, HasSession, Unbound, Spawned, Roles, Private,
            PinBorn, ArgBorn, Routed, ReopenReusesWorker, registry, process, disk, call,
            shutdown
<1>1. ASSUME NEW o \in Creates, CallCreate(o) PROVE ReopenReusesWorker'
  BY <1>1 DEF CallCreate, Spawn, SpawnRefused, Goto
<1>2. ASSUME NEW o \in Opens, CallOpen(o) PROVE ReopenReusesWorker'
  BY <1>2 DEF CallOpen, Ask, CanAsk, Goto
<1>3. ASSUME NEW o \in Closes, CallClose(o) PROVE ReopenReusesWorker'
  BY <1>3 DEF CallClose, CallForActive, Ask, CanAsk, Goto
<1>4. ASSUME NEW o \in Forks, CallFork(o) PROVE ReopenReusesWorker'
  BY <1>4 DEF CallFork, CallForActive, Ask, CanAsk, Goto
<1>5. ASSUME NEW o \in Deletes, CallDelete(o) PROVE ReopenReusesWorker'
  BY <1>5 DEF CallDelete, Ask, CanAsk, Goto
<1>6. ASSUME NEW o \in Compactions, CallCompact(o) PROVE ReopenReusesWorker'
  BY <1>6 DEF CallCompact, Spawn, SpawnRefused, Goto
<1>7. ASSUME NEW o \in Compactions, Abort(o) PROVE ReopenReusesWorker'
  BY <1>7 DEF Abort, Drop, RemoveWorker, Unmapped
<1>8. ASSUME NEW o \in Calls, Admitted(o) PROVE ReopenReusesWorker'
  BY <1>8 DEF Admitted, Goto
<1>9. ASSUME NEW o \in Calls, Started(o) PROVE ReopenReusesWorker'
  BY <1>9 DEF Started, Ask, CanAsk, Goto
<1>10. ASSUME NEW o \in Calls, Created(o) PROVE ReopenReusesWorker'
  BY BoundIs, <1>10 DEF Created, FreshSessions, Ask, CanAsk, Goto
<1>11. ASSUME NEW o \in Calls, Snapshotted(o) PROVE ReopenReusesWorker'
  BY <1>11 DEF Snapshotted, Ask, CanAsk, Goto
<1>12. ASSUME NEW o \in Calls, Located(o) PROVE ReopenReusesWorker'
  BY <1>12 DEF Located, Listings, Spawn, SpawnRefused, Goto
<1>13. ASSUME NEW o \in Calls, Opened(o) PROVE ReopenReusesWorker'
  BY <1>13 DEF Opened, Ask, CanAsk, Goto
<1>14. ASSUME NEW o \in Calls, Applied(o) PROVE ReopenReusesWorker'
  BY BoundIs, <1>14 DEF Applied, BindConflict, Ask, CanAsk, Goto
<1>15. ASSUME NEW o \in Calls, SummaryAnswered(o) PROVE ReopenReusesWorker'
  BY <1>15 DEF SummaryAnswered, Goto
<1>16. ASSUME NEW o \in Calls, Enriched(o) PROVE ReopenReusesWorker'
  BY <1>16 DEF Enriched, Goto
<1>17. ASSUME NEW o \in Calls, CloseSummarised(o) PROVE ReopenReusesWorker'
  BY <1>17 DEF CloseSummarised, Ask, CanAsk, Goto
<1>18. ASSUME NEW o \in Calls, Closed(o) PROVE ReopenReusesWorker'
  BY <1>18 DEF Closed, RemoveWorker, Unmapped, Goto
<1>19. ASSUME NEW o \in Calls, ForkSummarised(o) PROVE ReopenReusesWorker'
  BY <1>19 DEF ForkSummarised, Ask, CanAsk, Goto
<1>20. ASSUME NEW o \in Calls, Forked(o) PROVE ReopenReusesWorker'
  BY BoundIs, <1>20 DEF Forked, FreshSessions, BindConflict, Ask, CanAsk, Goto
<1>21. ASSUME NEW o \in Calls, ForkCancelled(o) PROVE ReopenReusesWorker'
  BY BoundIs, <1>21 DEF ForkCancelled, BindConflict, Ask, CanAsk, Goto
<1>22. ASSUME NEW o \in Calls, DeleteSummarised(o) PROVE ReopenReusesWorker'
  BY <1>22 DEF DeleteSummarised, Goto
<1>23. ASSUME NEW o \in Calls, DeleteListed(o) PROVE ReopenReusesWorker'
  BY <1>23 DEF DeleteListed, Goto
<1>24. ASSUME NEW o \in Calls, Coordinated(o) PROVE ReopenReusesWorker'
  BY <1>24 DEF Coordinated, RemoveWorker, Unmapped, Goto
<1>25. ASSUME NEW o \in Calls, Unlinked(o) PROVE ReopenReusesWorker'
  BY <1>25 DEF Unlinked, Goto
<1>26. ASSUME NEW o \in Calls, TaskStarted(o) PROVE ReopenReusesWorker'
  BY <1>26 DEF TaskStarted, OwnerAsserted, Goto
<1>27. ASSUME NEW o \in Calls, TaskRegistered(o) PROVE ReopenReusesWorker'
  BY <1>27 DEF TaskRegistered, OwnerAsserted, Ask, CanAsk, Goto
<1>28. ASSUME NEW o \in Calls, Compacted(o) PROVE ReopenReusesWorker'
  BY <1>28 DEF Compacted, Drop, RemoveWorker, Unmapped, Goto
<1>29. ASSUME NEW o \in Calls, TaskFail(o) PROVE ReopenReusesWorker'
  BY <1>29 DEF TaskFail, Drop, RemoveWorker, Unmapped, Goto
<1>30. ASSUME NEW o \in Calls, Fail(o) PROVE ReopenReusesWorker'
  BY <1>30 DEF Fail, RemoveWorker, Unmapped, Goto
<1>31. ASSUME NEW o \in Calls, Removed(o) PROVE ReopenReusesWorker'
  BY <1>31 DEF Removed, Settled, Goto
<1>32. ASSUME NEW w \in Workers, Exit(w) PROVE ReopenReusesWorker'
  BY <1>32 DEF Exit, Auxiliaries, Unmapped
<1>33. ASSUME BeginDispose PROVE ReopenReusesWorker'
  BY <1>33 DEF BeginDispose
<1>34. ASSUME EndDispose PROVE ReopenReusesWorker'
  BY <1>34 DEF EndDispose
<1>35. CASE UNCHANGED vars
  BY <1>35 DEF vars
<1>36. QED
  BY <1>1, <1>2, <1>3, <1>4, <1>5, <1>6, <1>7, <1>8, <1>9, <1>10, <1>11, <1>12,
     <1>13, <1>14, <1>15, <1>16, <1>17, <1>18, <1>19, <1>20, <1>21, <1>22,
     <1>23, <1>24, <1>25, <1>26, <1>27, <1>28, <1>29, <1>30, <1>31, <1>32,
     <1>33, <1>34, <1>35
  DEF Next, Continue

(***************************************************************************)
(* Every step preserves TaskHeld.                                          *)
(***************************************************************************)
LEMMA TaskHeldStep ==
  ASSUME TypeOK, Kinds, Spawned, Roles, Private, TaskPrivate, Routed, TaskHeld, [Next]_vars
  PROVE  TaskHeld'
<1> USE CallsAssumption, SessionsAssumption, NoneAssumption
<1> USE DEF TypeOK, Calls, Owning, Asking, Tasking, Leaving, Ended, Labels, Kinds,
            TaskLabels, HasWorker, HasSession, Unbound, Spawned, Roles, Private,
            TaskPrivate, Routed, TaskHeld, registry, process, disk, call, shutdown
<1>1. ASSUME NEW o \in Creates, CallCreate(o) PROVE TaskHeld'
  BY <1>1 DEF CallCreate, Spawn, SpawnRefused, Goto
<1>2. ASSUME NEW o \in Opens, CallOpen(o) PROVE TaskHeld'
  BY <1>2 DEF CallOpen, Ask, CanAsk, Goto
<1>3. ASSUME NEW o \in Closes, CallClose(o) PROVE TaskHeld'
  BY <1>3 DEF CallClose, CallForActive, Ask, CanAsk, Goto
<1>4. ASSUME NEW o \in Forks, CallFork(o) PROVE TaskHeld'
  BY <1>4 DEF CallFork, CallForActive, Ask, CanAsk, Goto
<1>5. ASSUME NEW o \in Deletes, CallDelete(o) PROVE TaskHeld'
  BY <1>5 DEF CallDelete, Ask, CanAsk, Goto
<1>6. ASSUME NEW o \in Compactions, CallCompact(o) PROVE TaskHeld'
  BY <1>6 DEF CallCompact, Spawn, SpawnRefused, Goto
<1>7. ASSUME NEW o \in Compactions, Abort(o) PROVE TaskHeld'
  BY <1>7 DEF Abort, Drop, RemoveWorker, Unmapped
<1>8. ASSUME NEW o \in Calls, Admitted(o) PROVE TaskHeld'
  BY <1>8 DEF Admitted, Goto
<1>9. ASSUME NEW o \in Calls, Started(o) PROVE TaskHeld'
  BY <1>9 DEF Started, Ask, CanAsk, Goto
<1>10. ASSUME NEW o \in Calls, Created(o) PROVE TaskHeld'
  BY BoundIs, <1>10 DEF Created, FreshSessions, Ask, CanAsk, Goto
<1>11. ASSUME NEW o \in Calls, Snapshotted(o) PROVE TaskHeld'
  BY <1>11 DEF Snapshotted, Ask, CanAsk, Goto
<1>12. ASSUME NEW o \in Calls, Located(o) PROVE TaskHeld'
  BY <1>12 DEF Located, Listings, Spawn, SpawnRefused, Goto
<1>13. ASSUME NEW o \in Calls, Opened(o) PROVE TaskHeld'
  BY <1>13 DEF Opened, Ask, CanAsk, Goto
<1>14. ASSUME NEW o \in Calls, Applied(o) PROVE TaskHeld'
  BY BoundIs, <1>14 DEF Applied, BindConflict, Ask, CanAsk, Goto
<1>15. ASSUME NEW o \in Calls, SummaryAnswered(o) PROVE TaskHeld'
  BY <1>15 DEF SummaryAnswered, Goto
<1>16. ASSUME NEW o \in Calls, Enriched(o) PROVE TaskHeld'
  BY <1>16 DEF Enriched, Goto
<1>17. ASSUME NEW o \in Calls, CloseSummarised(o) PROVE TaskHeld'
  BY <1>17 DEF CloseSummarised, Ask, CanAsk, Goto
<1>18. ASSUME NEW o \in Calls, Closed(o) PROVE TaskHeld'
  BY <1>18 DEF Closed, RemoveWorker, Unmapped, Goto
<1>19. ASSUME NEW o \in Calls, ForkSummarised(o) PROVE TaskHeld'
  BY <1>19 DEF ForkSummarised, Ask, CanAsk, Goto
<1>20. ASSUME NEW o \in Calls, Forked(o) PROVE TaskHeld'
  BY BoundIs, <1>20 DEF Forked, FreshSessions, Ask, CanAsk, Goto
<1>21. ASSUME NEW o \in Calls, ForkCancelled(o) PROVE TaskHeld'
  BY BoundIs, <1>21 DEF ForkCancelled, BindConflict, Ask, CanAsk, Goto
<1>22. ASSUME NEW o \in Calls, DeleteSummarised(o) PROVE TaskHeld'
  BY <1>22 DEF DeleteSummarised, Goto
<1>23. ASSUME NEW o \in Calls, DeleteListed(o) PROVE TaskHeld'
  BY <1>23 DEF DeleteListed, Goto
<1>24. ASSUME NEW o \in Calls, Coordinated(o) PROVE TaskHeld'
  BY <1>24 DEF Coordinated, RemoveWorker, Unmapped, Goto
<1>25. ASSUME NEW o \in Calls, Unlinked(o) PROVE TaskHeld'
  BY <1>25 DEF Unlinked, Goto
<1>26. ASSUME NEW o \in Calls, TaskStarted(o) PROVE TaskHeld'
  BY <1>26 DEF TaskStarted, OwnerAsserted, Goto
<1>27. ASSUME NEW o \in Calls, TaskRegistered(o) PROVE TaskHeld'
  BY <1>27 DEF TaskRegistered, OwnerAsserted, Ask, CanAsk, Goto
<1>28. ASSUME NEW o \in Calls, Compacted(o) PROVE TaskHeld'
  BY <1>28 DEF Compacted, Drop, RemoveWorker, Unmapped, Goto
<1>29. ASSUME NEW o \in Calls, TaskFail(o) PROVE TaskHeld'
  BY <1>29 DEF TaskFail, Drop, RemoveWorker, Unmapped, Goto
<1>30. ASSUME NEW o \in Calls, Fail(o) PROVE TaskHeld'
  BY <1>30 DEF Fail, RemoveWorker, Unmapped, Goto
<1>31. ASSUME NEW o \in Calls, Removed(o) PROVE TaskHeld'
  BY <1>31 DEF Removed, Settled, Goto
<1>32. ASSUME NEW w \in Workers, Exit(w) PROVE TaskHeld'
  BY <1>32 DEF Exit, Auxiliaries, Unmapped
<1>33. ASSUME BeginDispose PROVE TaskHeld'
  BY <1>33 DEF BeginDispose
<1>34. ASSUME EndDispose PROVE TaskHeld'
  BY <1>34 DEF EndDispose
<1>35. CASE UNCHANGED vars
  BY <1>35 DEF vars
<1>36. QED
  BY <1>1, <1>2, <1>3, <1>4, <1>5, <1>6, <1>7, <1>8, <1>9, <1>10, <1>11, <1>12,
     <1>13, <1>14, <1>15, <1>16, <1>17, <1>18, <1>19, <1>20, <1>21, <1>22,
     <1>23, <1>24, <1>25, <1>26, <1>27, <1>28, <1>29, <1>30, <1>31, <1>32,
     <1>33, <1>34, <1>35
  DEF Next, Continue

-----------------------------------------------------------------------------
(* The inductive invariant holds initially. *)
LEMMA InitIInv == Init => IInv
BY CallsAssumption, SessionsAssumption, NoneAssumption
DEF Init, IInv, TypeOK, Calls, Labels, Owning, Asking, Tasking, Leaving, Ended,
    Kinds, TaskLabels, HasWorker, HasSession, Unbound, Spawned, Roles, Private,
    TaskPrivate, Registered, Disposal, PinBorn, ArgBorn, Routed,
    ReopenReusesWorker

(* Every step preserves the inductive invariant. *)
LEMMA NextIInv == IInv /\ [Next]_vars => IInv'
<1> SUFFICES ASSUME IInv, [Next]_vars PROVE IInv'
  OBVIOUS
<1> USE DEF IInv
<1>1. TypeOK' BY TypeStep
<1>2. Kinds' BY KindsStep
<1>3. Spawned' BY SpawnedStep
<1>4. Roles' BY RolesStep
<1>5. Private' BY PrivateStep
<1>6. TaskPrivate' BY TaskPrivateStep
<1>7. Registered' /\ Disposal' BY RegisteredStep, DisposalStep
<1>8. PinBorn' /\ ArgBorn' BY BornStep, ArgBornStep
<1>9. Routed' BY RoutedStep
<1>10. ReopenReusesWorker' BY ReopenStep
<1>11. QED BY <1>1, <1>2, <1>3, <1>4, <1>5, <1>6, <1>7, <1>8, <1>9, <1>10

(* The inductive invariant holds in every reachable state. *)
THEOREM Invariance == Spec => []IInv
BY InitIInv, NextIInv, PTL DEF Spec

(***************************************************************************)
(* Every reachable state of the registry is well typed.                    *)
(***************************************************************************)
THEOREM TypeCorrect == Spec => []TypeOK
<1>1. IInv => TypeOK BY DEF IInv
<1>2. QED BY <1>1, Invariance, PTL

(***************************************************************************)
(* For any number of sessions, workers and calls, #sessions leads only to  *)
(* live session workers that are pinned to the session and serve it.       *)
(***************************************************************************)
THEOREM RoutingCorrect == Spec => []Routed
<1>1. IInv => Routed BY DEF IInv
<1>2. QED BY <1>1, Invariance, PTL

(***************************************************************************)
(* No failure of a call leaks a process: what runs is registered or being  *)
(* retired.                                                                *)
(***************************************************************************)
THEOREM NothingOrphaned == Spec => []NoOrphan
<1>1. IInv => NoOrphan BY DEF IInv, Registered, NoOrphan
<1>2. QED BY <1>1, Invariance, PTL

(***************************************************************************)
(* dispose() leaves no client registered and nothing running that is not   *)
(* being retired.                                                          *)
(***************************************************************************)
THEOREM DisposeRetiresAll == Spec => []DisposedClean
<1>1. IInv => DisposedClean BY DEF IInv, Registered, Disposal, DisposedClean
<1>2. QED BY <1>1, Invariance, PTL

(***************************************************************************)
(* Whatever the calls and the forks among them: but for the sessions of    *)
(* which a late fork answer has deleted another worker's entry, no two     *)
(* registered workers are bound to the same session and a reopened session *)
(* finds its worker.                                                       *)
(***************************************************************************)
THEOREM SessionExclusive == Spec => [](OneWorkerPerSession /\ ReopenReusesWorker)
<1>1. IInv => OneWorkerPerSession /\ ReopenReusesWorker
  BY DEF IInv, ReopenReusesWorker, OneWorkerPerSession
<1>2. QED BY <1>1, Invariance, PTL

(***************************************************************************)
(* Forks or not, #handleExit of a session worker that still is the worker  *)
(* of the session its compaction tasks were started for retires them all:  *)
(* none escapes between its registration and the death.                    *)
(***************************************************************************)
THEOREM OrphansRetired == Spec => []OrphanedTaskRetired
<1>1. Init => TaskHeld
  BY DEF Init, TaskHeld, Calls
<1>2. IInv /\ TaskHeld /\ [Next]_vars => TaskHeld'
  BY TaskHeldStep DEF IInv
<1>3. TaskHeld => OrphanedTaskRetired
  BY DEF TaskHeld, OrphanedTaskRetired
<1>4. QED BY <1>1, <1>2, <1>3, Invariance, PTL DEF Spec

=============================================================================
