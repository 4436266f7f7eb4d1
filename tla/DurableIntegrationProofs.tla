----------------------- MODULE DurableIntegrationProofs -----------------------
(***************************************************************************)
(* Proofs of the properties of DurableIntegration, for any set of paths    *)
(* and any number of crashes and edits.                                    *)
(***************************************************************************)
EXTENDS DurableIntegration, TLAPS

Applying == {"apply", "write", "observe"}
Compensating == {"compensate", "compWrite", "compObserve"}
Asking == {"dispatch", "request", "revert", "finalize"}
Binding == {"bind", "rebind", "record"}
Restoring == {"restore", "restoreWrite", "restoreObserve"}
Undoing == {"undoMark", "undoRequest", "undoFinish"}
InBody == {"write", "observe", "compWrite", "compObserve", "restoreWrite", "restoreObserve"}

\* The loop body is about a path of the loop, and a gated path holds what the
\* call last saw in it or wrote to it.
Cursor ==
    /\ pc \in InBody => cur \in Disk /\ cur \in todo
    /\ pc \in {"write", "restoreObserve"} => disk[cur] = "safety"
    /\ pc \in {"observe", "restoreWrite"} => disk[cur] = "target"

\* The state of the row that goes with each place of a call.
Row ==
    /\ op.state = "none" => pc = "idle" /\ recorded = {} /\ \A f \in Paths : phase[f] = "pending"
    /\ pc = "intent" \/ pc \in Applying => op.state = "applying"
    /\ pc \in Asking => op.state = "awaiting-surface"
    /\ pc \in Binding => op.state = "awaiting-turn-binding"
    /\ pc \in Restoring => op.state \in {"applying", "awaiting-surface", "undoing"}
    /\ pc = "inspect" => op.state \in Unfinished
    /\ pc = "undoMark" => op.state \in CompleteStates
    /\ pc \in {"undoRequest", "undoFinish"} => op.state = "undoing"
    /\ op.state \in RolledBackStates => pc = "idle"

\* The same for the compensation inside a failed merge: its row is still the
\* one it began with, unless the answer of the commit was lost.
RowOfFailed ==
    /\ pc \notin Compensating => stale = FALSE
    /\ pc \in Compensating /\ stale = FALSE => op.state = "applying"
    /\ pc \in Compensating /\ stale = TRUE =>
         \/ op.state = "awaiting-surface"
         \/ op.state \in CompleteStates /\ spec.external = {} /\ spec.bound = FALSE

\* Only an undo ends in "undone".
Goal ==
    /\ pc \in {"idle", "intent"} \cup Applying \cup Compensating \cup Asking => goal = "compensated"
    /\ pc \in {"inspect"} \cup Restoring => (goal = "undone" <=> op.state = "undoing")
    /\ pc \in Undoing => goal = "undone"

\* What data.appliedPaths contains.
AppliedPaths ==
    /\ pc \in {"idle", "intent"} => applied = {}
    /\ pc \in Applying => applied = Disk \ todo
    /\ pc \in {"dispatch", "request", "revert"} => applied = Disk
    /\ pc = "finalize" => applied = Disk \cup {f \in spec.external \ todo : results[f] = "applied"}
    /\ pc \in Binding => applied = Files
    /\ pc \in Undoing => Disk \subseteq applied
    /\ pc = "inspect" => applied = op.applied
    /\ op.state = "awaiting-turn-binding" => op.applied = Files
    /\ op.state \in CompleteStates => Disk \subseteq op.applied

\* The loops over the editor's paths stay inside them.
LoopsInside == pc \in Asking \cup Undoing => todo \subseteq spec.external

\* The phases of disk paths; target content is never hidden by its phase.
DiskPhase ==
    /\ \A f \in Disk : phase[f] \notin SurfacePhases
    /\ \A f \in Disk : disk[f] = "target" =>
         phase[f] \in {"apply-intent", "target-observed", "compensate-intent", "needs-attention"}
    /\ pc = "intent" => \A f \in Disk \ todo : phase[f] = "apply-intent"
    /\ pc \in Applying => \A f \in todo : phase[f] = "apply-intent"

\* The phases of the editor's paths; a buffer observed at its target has it
\* until the undo intent of the path is written.
SurfacePhase ==
    /\ \A f \in Surface : phase[f] \notin DiskPhases
    /\ \A f \in spec.external : phase[f] = "external-target-observed" =>
         buffer[f] = "target" \/ f \in touched
    /\ pc \in {"intent", "dispatch", "request", "revert"} \cup Applying =>
         \A f \in Surface : phase[f] # "external-target-observed"
    /\ pc = "undoMark" =>
         \A f \in spec.external \ todo : phase[f] # "external-target-observed"
    /\ pc = "undoRequest" => \A f \in spec.external : phase[f] # "external-target-observed"
    /\ \A f \in Surface : results[f] = "applied" => buffer[f] = "target" \/ f \in touched

\* What the visited paths of a loop satisfy: while reconciling, ...
Inspecting ==
    pc = "inspect" => \A f \in Disk \ todo :
        /\ disk[f] = "target" => phase[f] # "apply-intent"
        /\ phase[f] = "target-observed" => disk[f] = "target" \/ f \in touched

\* ... compensating a failed merge, and ...
Compensated ==
    pc \in Compensating => \A f \in Disk \ todo : disk[f] # "target" \/ f \in attention

\* ... compensating from the row.
Restored ==
    pc \in Restoring => \A f \in Disk \ todo :
        disk[f] = "target" => phase[f] \in {"compensate-intent", "needs-attention"}

\* The changes that the checkpoint of the parent turn contains.
Recorded ==
    /\ recorded \subseteq Disk
    /\ pc = "record" => Disk \ todo \subseteq recorded /\ todo \subseteq Disk
    /\ op.state \in {"applying", "awaiting-surface"} => recorded = {}

\* A merge that is to be bound is whole already.
Whole ==
    /\ pc \in Applying => \A f \in Disk \ (todo \cup touched) : disk[f] = "target"
    /\ pc \in Asking \/ op.state = "awaiting-turn-binding" =>
         \A f \in Disk \ touched : disk[f] = "target"
    /\ op.state = "awaiting-turn-binding" =>
         \A f \in spec.external \ touched : buffer[f] = "target"

Control == Row /\ RowOfFailed /\ Goal
Progress == AppliedPaths /\ LoopsInside
Visited == Inspecting /\ Compensated /\ Restored

IInv ==
    /\ TypeOK /\ Cursor /\ Control /\ Progress /\ DiskPhase /\ SurfacePhase /\ Visited
    /\ Recorded /\ Whole
    /\ RolledBack /\ CompleteIsWhole /\ CheckpointAgrees

(* Two sets that contain each other are equal. *)
LEMMA SameSet ==
  ASSUME NEW S, NEW T, \A x \in T : x \in S, S \subseteq T
  PROVE  S = T
OBVIOUS

(***************************************************************************)
(* Every step keeps the state well typed.                                  *)
(***************************************************************************)
LEMMA TypeStep ==
  ASSUME TypeOK, Cursor, [Next]_vars
  PROVE  TypeOK'
<1> USE PathsAssumption, BoundAssumption
<1> USE DEF TypeOK, Cursor, InBody, Specs, Contents, Answers, Stages, Paths, Terminal,
            Unfinished, RolledBackStates, CompleteStates, DiskPhases, SurfacePhases,
            world
<1>1. ASSUME Begin PROVE TypeOK'
  BY <1>1 DEF Begin, Loop, Files
<1>2. ASSUME UndoBegin PROVE TypeOK'
  BY <1>2 DEF UndoBegin, Loop
<1>3. ASSUME UndoUnresolved PROVE TypeOK'
  BY <1>3 DEF UndoUnresolved, job
<1>4. ASSUME NEW f \in Files, RecordIntent(f) PROVE TypeOK'
  BY <1>4 DEF RecordIntent, Loop, Transition, Files
<1>5. ASSUME NEW f \in Files, BindRecord(f) PROVE TypeOK'
  BY <1>5 DEF BindRecord, Files
<1>6. ASSUME NEW f \in Disk, ApplyCheck(f) PROVE TypeOK'
  BY <1>6 DEF ApplyCheck, Loop
<1>7. ASSUME NEW f \in Disk, CompensateCheck(f) PROVE TypeOK'
  BY <1>7 DEF CompensateCheck, LoopOn, Transition
<1>8. ASSUME NEW f \in Disk, CompensateFails(f) PROVE TypeOK'
  BY <1>8 DEF CompensateFails, LoopOn, Transition
<1>9. ASSUME NEW f \in Disk, RestoreCheck(f) PROVE TypeOK'
  BY <1>9 DEF RestoreCheck, LoopOn, Transition
<1>10. ASSUME NEW f \in Disk, InspectDisk(f) PROVE TypeOK'
  BY <1>10 DEF InspectDisk, Transition
<1>11. ASSUME NEW f \in Surface, Dispatch(f) PROVE TypeOK'
  BY <1>11 DEF Dispatch, Loop, Transition
<1>12. ASSUME NEW f \in Surface, RequestApply(f) PROVE TypeOK'
  BY <1>12 DEF RequestApply, Edited
<1>13. ASSUME NEW f \in Surface, RequestRevert(f) PROVE TypeOK'
  BY <1>13 DEF RequestRevert, Edited
<1>14. ASSUME NEW f \in Surface, FinalizePath(f) PROVE TypeOK'
  BY <1>14 DEF FinalizePath, Transition
<1>15. ASSUME NEW f \in Surface, InspectSurface(f) PROVE TypeOK'
  BY <1>15 DEF InspectSurface, Transition
<1>16. ASSUME NEW f \in Surface, UndoMark(f) PROVE TypeOK'
  BY <1>16 DEF UndoMark, Transition
<1>17. ASSUME NEW f \in Surface, RequestUndo(f) PROVE TypeOK'
  BY <1>17 DEF RequestUndo, Edited
<1>18. ASSUME NEW f \in Surface, UndoSurface(f) PROVE TypeOK'
  BY <1>18 DEF UndoSurface, Transition
<1>19. ASSUME ApplyWrite PROVE TypeOK'
  BY <1>19 DEF ApplyWrite
<1>20. ASSUME ApplyFails PROVE TypeOK'
  BY <1>20 DEF ApplyFails, Loop
<1>21. ASSUME ApplyObserve PROVE TypeOK'
  BY <1>21 DEF ApplyObserve, LoopOn, Transition
<1>22. ASSUME CommitApplied PROVE TypeOK'
  <2>1. op' \in [state: {"none"} \cup Unfinished \cup Terminal, applied: SUBSET Paths]
    BY <1>22 DEF CommitApplied, Loop, Return, CompleteOperation, CompleteMerge
  <2>2. stale' \in BOOLEAN
    BY <1>22 DEF CommitApplied, Loop, Return, CompleteOperation, CompleteMerge
  <2>3. abandons' \in 0..Abandons
    BY <1>22 DEF CommitApplied, Loop, Return, CompleteOperation, CompleteMerge
  <2>4. phase' \in [Paths -> {"pending", "needs-attention"} \cup DiskPhases \cup SurfacePhases]
    BY <1>22 DEF CommitApplied, Loop, Return, CompleteOperation, CompleteMerge
  <2>5. QED
    BY <1>22, <2>1, <2>2, <2>3, <2>4 DEF CommitApplied, Loop, Return, CompleteOperation, CompleteMerge
<1>23. ASSUME CommitFails PROVE TypeOK'
  <2>1. op' \in [state: {"none"} \cup Unfinished \cup Terminal, applied: SUBSET Paths]
    BY <1>23 DEF CommitFails, Loop, CompleteOperation, CompleteMerge
  <2>2. stale' \in BOOLEAN
    BY <1>23 DEF CommitFails, Loop, CompleteOperation, CompleteMerge
  <2>3. abandons' \in 0..Abandons
    BY <1>23 DEF CommitFails, Loop, CompleteOperation, CompleteMerge
  <2>4. phase' \in [Paths -> {"pending", "needs-attention"} \cup DiskPhases \cup SurfacePhases]
    BY <1>23 DEF CommitFails, Loop, CompleteOperation, CompleteMerge
  <2>5. QED
    BY <1>23, <2>1, <2>2, <2>3, <2>4 DEF CommitFails, Loop, CompleteOperation, CompleteMerge
<1>24. ASSUME CompensateWrite PROVE TypeOK'
  BY <1>24 DEF CompensateWrite
<1>25. ASSUME CompensateObserve PROVE TypeOK'
  BY <1>25 DEF CompensateObserve, LoopOn, Transition
<1>26. ASSUME CompensateEnds PROVE TypeOK'
  <2>1. op' \in [state: {"none"} \cup Unfinished \cup Terminal, applied: SUBSET Paths]
    BY <1>26 DEF CompensateEnds, Return, CompleteOperation, Settled
  <2>2. stale' \in BOOLEAN
    BY <1>26 DEF CompensateEnds, Return, CompleteOperation, Settled
  <2>3. abandons' \in 0..Abandons
    BY <1>26 DEF CompensateEnds, Return, CompleteOperation, Settled
  <2>4. phase' \in [Paths -> {"pending", "needs-attention"} \cup DiskPhases \cup SurfacePhases]
    BY <1>26 DEF CompensateEnds, Return, CompleteOperation, Settled
  <2>5. QED
    BY <1>26, <2>1, <2>2, <2>3, <2>4 DEF CompensateEnds, Return, CompleteOperation, Settled
<1>27. ASSUME Requested PROVE TypeOK'
  BY <1>27 DEF Requested, Loop, With
<1>28. ASSUME Reverted PROVE TypeOK'
  BY <1>28 DEF Reverted, Loop
<1>29. ASSUME FinalizeEnds PROVE TypeOK'
  <2>1. op' \in [state: {"none"} \cup Unfinished \cup Terminal, applied: SUBSET Paths]
    BY <1>29 DEF FinalizeEnds, Loop, Return, CompleteOperation, CompleteMerge, With
  <2>2. stale' \in BOOLEAN
    BY <1>29 DEF FinalizeEnds, Loop, Return, CompleteOperation, CompleteMerge, With
  <2>3. abandons' \in 0..Abandons
    BY <1>29 DEF FinalizeEnds, Loop, Return, CompleteOperation, CompleteMerge, With
  <2>4. phase' \in [Paths -> {"pending", "needs-attention"} \cup DiskPhases \cup SurfacePhases]
    BY <1>29 DEF FinalizeEnds, Loop, Return, CompleteOperation, CompleteMerge, With
  <2>5. QED
    BY <1>29, <2>1, <2>2, <2>3, <2>4 DEF FinalizeEnds, Loop, Return, CompleteOperation, CompleteMerge, With
<1>30. ASSUME BindPending PROVE TypeOK'
  BY <1>30 DEF BindPending, Loop, Changes
<1>31. ASSUME BindEnds PROVE TypeOK'
  <2>1. op' \in [state: {"none"} \cup Unfinished \cup Terminal, applied: SUBSET Paths]
    BY <1>31 DEF BindEnds, Return, CompleteOperation, CompleteMerge
  <2>2. stale' \in BOOLEAN
    BY <1>31 DEF BindEnds, Return, CompleteOperation, CompleteMerge
  <2>3. abandons' \in 0..Abandons
    BY <1>31 DEF BindEnds, Return, CompleteOperation, CompleteMerge
  <2>4. phase' \in [Paths -> {"pending", "needs-attention"} \cup DiskPhases \cup SurfacePhases]
    BY <1>31 DEF BindEnds, Return, CompleteOperation, CompleteMerge
  <2>5. QED
    BY <1>31, <2>1, <2>2, <2>3, <2>4 DEF BindEnds, Return, CompleteOperation, CompleteMerge
<1>32. ASSUME BindConfirmed PROVE TypeOK'
  <2>1. op' \in [state: {"none"} \cup Unfinished \cup Terminal, applied: SUBSET Paths]
    BY <1>32 DEF BindConfirmed, Return, CompleteOperation, CompleteMerge, Confirmed, Changes
  <2>2. stale' \in BOOLEAN
    BY <1>32 DEF BindConfirmed, Return, CompleteOperation, CompleteMerge, Confirmed, Changes
  <2>3. abandons' \in 0..Abandons
    BY <1>32 DEF BindConfirmed, Return, CompleteOperation, CompleteMerge, Confirmed, Changes
  <2>4. phase' \in [Paths -> {"pending", "needs-attention"} \cup DiskPhases \cup SurfacePhases]
    BY <1>32 DEF BindConfirmed, Return, CompleteOperation, CompleteMerge, Confirmed, Changes
  <2>5. QED
    BY <1>32, <2>1, <2>2, <2>3, <2>4 DEF BindConfirmed, Return, CompleteOperation, CompleteMerge, Confirmed, Changes
<1>33. ASSUME BindRefused PROVE TypeOK'
  <2>1. op' \in [state: {"none"} \cup Unfinished \cup Terminal, applied: SUBSET Paths]
    BY <1>33 DEF BindRefused, Return, CompleteOperation, Confirmed
  <2>2. stale' \in BOOLEAN
    BY <1>33 DEF BindRefused, Return, CompleteOperation, Confirmed
  <2>3. abandons' \in 0..Abandons
    BY <1>33 DEF BindRefused, Return, CompleteOperation, Confirmed
  <2>4. phase' \in [Paths -> {"pending", "needs-attention"} \cup DiskPhases \cup SurfacePhases]
    BY <1>33 DEF BindRefused, Return, CompleteOperation, Confirmed
  <2>5. QED
    BY <1>33, <2>1, <2>2, <2>3, <2>4 DEF BindRefused, Return, CompleteOperation, Confirmed
<1>34. ASSUME RestoreWrite PROVE TypeOK'
  BY <1>34 DEF RestoreWrite
<1>35. ASSUME RestoreObserve PROVE TypeOK'
  BY <1>35 DEF RestoreObserve, LoopOn, Transition
<1>36. ASSUME RestoreEnds PROVE TypeOK'
  BY <1>36 DEF RestoreEnds, Return, CompleteOperation, Settled
<1>37. ASSUME Reconcile PROVE TypeOK'
  BY <1>37 DEF Reconcile, Loop, Files
<1>38. ASSUME Unresolved PROVE TypeOK'
  BY <1>38 DEF Unresolved, Return, CompleteOperation
<1>39. ASSUME DecideFinish PROVE TypeOK'
  BY <1>39 DEF DecideFinish, Loop, Inspected, FinishMerge, ProvenApplied, Files
<1>40. ASSUME DecideUnknown PROVE TypeOK'
  BY <1>40 DEF DecideUnknown, Return, Inspected, ProvenApplied, Files
<1>41. ASSUME DecideBinding PROVE TypeOK'
  BY <1>41 DEF DecideBinding, Loop, Inspected, ProvenApplied, Files
<1>42. ASSUME DecideRestore PROVE TypeOK'
  BY <1>42 DEF DecideRestore, Loop, Inspected, FinishMerge, ProvenApplied, Files
<1>43. ASSUME DecideAbort PROVE TypeOK'
  BY <1>43 DEF DecideAbort, Return, CompleteOperation, Inspected, ProvenApplied, Files
<1>44. ASSUME UndoIntent PROVE TypeOK'
  BY <1>44 DEF UndoIntent, Loop, CompleteOperation
<1>45. ASSUME UndoRequested PROVE TypeOK'
  <2>1. op' \in [state: {"none"} \cup Unfinished \cup Terminal, applied: SUBSET Paths]
    BY <1>45 DEF UndoRequested, Loop, Return, CompleteOperation, With
  <2>2. stale' \in BOOLEAN
    BY <1>45 DEF UndoRequested, Loop, Return, CompleteOperation, With
  <2>3. abandons' \in 0..Abandons
    BY <1>45 DEF UndoRequested, Loop, Return, CompleteOperation, With
  <2>4. phase' \in [Paths -> {"pending", "needs-attention"} \cup DiskPhases \cup SurfacePhases]
    BY <1>45 DEF UndoRequested, Loop, Return, CompleteOperation, With
  <2>5. QED
    BY <1>45, <2>1, <2>2, <2>3, <2>4 DEF UndoRequested, Loop, Return, CompleteOperation, With
<1>46. ASSUME UndoDisk PROVE TypeOK'
  BY <1>46 DEF UndoDisk, Loop
<1>47. ASSUME Abandon PROVE TypeOK'
  <2>1. op' \in [state: {"none"} \cup Unfinished \cup Terminal, applied: SUBSET Paths]
    BY <1>47 DEF Abandon, Return
  <2>2. stale' \in BOOLEAN
    BY <1>47 DEF Abandon, Return
  <2>3. abandons' \in 0..Abandons
    BY <1>47 DEF Abandon, Return
  <2>4. phase' \in [Paths -> {"pending", "needs-attention"} \cup DiskPhases \cup SurfacePhases]
    BY <1>47 DEF Abandon, Return
  <2>5. QED
    BY <1>47, <2>1, <2>2, <2>3, <2>4 DEF Abandon, Return
<1>48. ASSUME TurnSettles PROVE TypeOK'
  BY <1>48 DEF TurnSettles, job
<1>49. ASSUME NEW f \in Disk, EditDisk(f) PROVE TypeOK'
  BY <1>49 DEF EditDisk, Gated, job
<1>50. ASSUME NEW f \in Surface, EditBuffer(f) PROVE TypeOK'
  BY <1>50 DEF EditBuffer, job
<1>51. CASE UNCHANGED vars
  BY <1>51 DEF vars, durable, job
<1> HIDE DEF TypeOK, Cursor, InBody, Specs, Contents, Answers, Stages, Paths,
            Terminal, Unfinished, RolledBackStates, CompleteStates, DiskPhases,
            SurfacePhases, world
<1>52. ASSUME NEW f \in Disk, DiskStep(f) PROVE TypeOK'
  BY <1>52, <1>6, <1>7, <1>8, <1>9, <1>10, Zenon DEF DiskStep
<1>53. ASSUME NEW f \in Surface, SurfaceStep(f) PROVE TypeOK'
  BY <1>53, <1>11, <1>12, <1>13, <1>14, <1>15, <1>16, <1>17, <1>18, Zenon DEF
     SurfaceStep
<1>54. ASSUME HostStep PROVE TypeOK'
  BY <1>52, <1>53, <1>54, <1>4, <1>5, <1>19, <1>20, <1>21, <1>22, <1>23, <1>24, <1>25,
     <1>26, <1>27, <1>28, <1>29, <1>30, <1>31, <1>32, <1>33, <1>34, <1>35, <1>36, <1>37,
     <1>38, <1>39, <1>40, <1>41, <1>42, <1>43, <1>44, <1>45, <1>46, Zenon DEF HostStep
<1>55. QED
  BY <1>51, <1>54, <1>1, <1>2, <1>3, <1>47, <1>48, <1>49, <1>50, Zenon DEF Next

(***************************************************************************)
(* Every step preserves Cursor: the resource gate keeps other writers out  *)
(* of the loop body.                                                       *)
(***************************************************************************)
LEMMA CursorStep ==
  ASSUME TypeOK, Cursor, [Next]_vars
  PROVE  Cursor'
<1> USE PathsAssumption
<1> USE DEF TypeOK, Contents, Paths, Cursor, InBody, Compensating, world
<1>1. ASSUME Begin PROVE Cursor'
  BY <1>1 DEF Begin, Loop, Files
<1>2. ASSUME UndoBegin PROVE Cursor'
  BY <1>2 DEF UndoBegin, Loop
<1>3. ASSUME UndoUnresolved PROVE Cursor'
  BY <1>3 DEF UndoUnresolved, job
<1>4. ASSUME NEW f \in Files, RecordIntent(f) PROVE Cursor'
  BY <1>4 DEF RecordIntent, Loop, Transition, Files
<1>5. ASSUME NEW f \in Files, BindRecord(f) PROVE Cursor'
  BY <1>5 DEF BindRecord, Files
<1>6. ASSUME NEW f \in Disk, ApplyCheck(f) PROVE Cursor'
  BY <1>6 DEF ApplyCheck, Loop
<1>7. ASSUME NEW f \in Disk, CompensateCheck(f) PROVE Cursor'
  BY <1>7 DEF CompensateCheck, LoopOn, Transition
<1>8. ASSUME NEW f \in Disk, CompensateFails(f) PROVE Cursor'
  BY <1>8 DEF CompensateFails, LoopOn, Transition
<1>9. ASSUME NEW f \in Disk, RestoreCheck(f) PROVE Cursor'
  BY <1>9 DEF RestoreCheck, LoopOn, Transition
<1>10. ASSUME NEW f \in Disk, InspectDisk(f) PROVE Cursor'
  BY <1>10 DEF InspectDisk, Transition
<1>11. ASSUME NEW f \in Surface, Dispatch(f) PROVE Cursor'
  BY <1>11 DEF Dispatch, Loop, Transition
<1>12. ASSUME NEW f \in Surface, RequestApply(f) PROVE Cursor'
  BY <1>12 DEF RequestApply, Edited
<1>13. ASSUME NEW f \in Surface, RequestRevert(f) PROVE Cursor'
  BY <1>13 DEF RequestRevert, Edited
<1>14. ASSUME NEW f \in Surface, FinalizePath(f) PROVE Cursor'
  BY <1>14 DEF FinalizePath, Transition
<1>15. ASSUME NEW f \in Surface, InspectSurface(f) PROVE Cursor'
  BY <1>15 DEF InspectSurface, Transition
<1>16. ASSUME NEW f \in Surface, UndoMark(f) PROVE Cursor'
  BY <1>16 DEF UndoMark, Transition
<1>17. ASSUME NEW f \in Surface, RequestUndo(f) PROVE Cursor'
  BY <1>17 DEF RequestUndo, Edited
<1>18. ASSUME NEW f \in Surface, UndoSurface(f) PROVE Cursor'
  BY <1>18 DEF UndoSurface, Transition
<1>19. ASSUME ApplyWrite PROVE Cursor'
  BY <1>19 DEF ApplyWrite
<1>20. ASSUME ApplyFails PROVE Cursor'
  BY <1>20 DEF ApplyFails, Loop
<1>21. ASSUME ApplyObserve PROVE Cursor'
  BY <1>21 DEF ApplyObserve, LoopOn, Transition
<1>22. ASSUME CommitApplied PROVE Cursor'
  BY <1>22 DEF CommitApplied, Loop, Return, CompleteOperation, CompleteMerge
<1>23. ASSUME CommitFails PROVE Cursor'
  BY <1>23 DEF CommitFails, Loop, CompleteOperation, CompleteMerge
<1>24. ASSUME CompensateWrite PROVE Cursor'
  BY <1>24 DEF CompensateWrite
<1>25. ASSUME CompensateObserve PROVE Cursor'
  BY <1>25 DEF CompensateObserve, LoopOn, Transition
<1>26. ASSUME CompensateEnds PROVE Cursor'
  BY <1>26 DEF CompensateEnds, Return, CompleteOperation, Settled
<1>27. ASSUME Requested PROVE Cursor'
  BY <1>27 DEF Requested, Loop, With
<1>28. ASSUME Reverted PROVE Cursor'
  BY <1>28 DEF Reverted, Loop
<1>29. ASSUME FinalizeEnds PROVE Cursor'
  BY <1>29 DEF FinalizeEnds, Loop, Return, CompleteOperation, CompleteMerge, With
<1>30. ASSUME BindPending PROVE Cursor'
  BY <1>30 DEF BindPending, Loop, Changes
<1>31. ASSUME BindEnds PROVE Cursor'
  BY <1>31 DEF BindEnds, Return, CompleteOperation, CompleteMerge
<1>32. ASSUME BindConfirmed PROVE Cursor'
  BY <1>32 DEF BindConfirmed, Return, CompleteOperation, CompleteMerge, Confirmed,
     Changes
<1>33. ASSUME BindRefused PROVE Cursor'
  BY <1>33 DEF BindRefused, Return, CompleteOperation, Confirmed
<1>34. ASSUME RestoreWrite PROVE Cursor'
  BY <1>34 DEF RestoreWrite
<1>35. ASSUME RestoreObserve PROVE Cursor'
  BY <1>35 DEF RestoreObserve, LoopOn, Transition
<1>36. ASSUME RestoreEnds PROVE Cursor'
  BY <1>36 DEF RestoreEnds, Return, CompleteOperation, Settled
<1>37. ASSUME Reconcile PROVE Cursor'
  BY <1>37 DEF Reconcile, Loop, Files
<1>38. ASSUME Unresolved PROVE Cursor'
  BY <1>38 DEF Unresolved, Return, CompleteOperation
<1>39. ASSUME DecideFinish PROVE Cursor'
  BY <1>39 DEF DecideFinish, Loop, Inspected, FinishMerge, ProvenApplied, Files
<1>40. ASSUME DecideUnknown PROVE Cursor'
  BY <1>40 DEF DecideUnknown, Return, Inspected, ProvenApplied, Files
<1>41. ASSUME DecideBinding PROVE Cursor'
  BY <1>41 DEF DecideBinding, Loop, Inspected, ProvenApplied, Files
<1>42. ASSUME DecideRestore PROVE Cursor'
  BY <1>42 DEF DecideRestore, Loop, Inspected, FinishMerge, ProvenApplied, Files
<1>43. ASSUME DecideAbort PROVE Cursor'
  BY <1>43 DEF DecideAbort, Return, CompleteOperation, Inspected, ProvenApplied, Files
<1>44. ASSUME UndoIntent PROVE Cursor'
  BY <1>44 DEF UndoIntent, Loop, CompleteOperation
<1>45. ASSUME UndoRequested PROVE Cursor'
  BY <1>45 DEF UndoRequested, Loop, Return, CompleteOperation, With
<1>46. ASSUME UndoDisk PROVE Cursor'
  BY <1>46 DEF UndoDisk, Loop
<1>47. ASSUME Abandon PROVE Cursor'
  BY <1>47 DEF Abandon, Return
<1>48. ASSUME TurnSettles PROVE Cursor'
  BY <1>48 DEF TurnSettles, job
<1>49. ASSUME NEW f \in Disk, EditDisk(f) PROVE Cursor'
  BY <1>49 DEF EditDisk, Gated, job
<1>50. ASSUME NEW f \in Surface, EditBuffer(f) PROVE Cursor'
  BY <1>50 DEF EditBuffer, job
<1>51. CASE UNCHANGED vars
  BY <1>51 DEF vars, durable, job
<1> HIDE DEF TypeOK, Contents, Paths, Cursor, InBody, Compensating, world
<1>52. ASSUME NEW f \in Disk, DiskStep(f) PROVE Cursor'
  BY <1>52, <1>6, <1>7, <1>8, <1>9, <1>10, Zenon DEF DiskStep
<1>53. ASSUME NEW f \in Surface, SurfaceStep(f) PROVE Cursor'
  BY <1>53, <1>11, <1>12, <1>13, <1>14, <1>15, <1>16, <1>17, <1>18, Zenon DEF
     SurfaceStep
<1>54. ASSUME HostStep PROVE Cursor'
  BY <1>52, <1>53, <1>54, <1>4, <1>5, <1>19, <1>20, <1>21, <1>22, <1>23, <1>24, <1>25,
     <1>26, <1>27, <1>28, <1>29, <1>30, <1>31, <1>32, <1>33, <1>34, <1>35, <1>36, <1>37,
     <1>38, <1>39, <1>40, <1>41, <1>42, <1>43, <1>44, <1>45, <1>46, Zenon DEF HostStep
<1>55. QED
  BY <1>51, <1>54, <1>1, <1>2, <1>3, <1>47, <1>48, <1>49, <1>50, Zenon DEF Next

(***************************************************************************)
(* Every step keeps the row and the goal in step with the call.            *)
(***************************************************************************)
LEMMA ControlStep ==
  ASSUME TypeOK, Control, [Next]_vars
  PROVE  Control'
<1> USE PathsAssumption
<1> USE DEF Control, Row, RowOfFailed, Goal, TypeOK, Specs, Paths, Applying,
            Compensating, Asking, Binding, Restoring, Undoing, InBody, Terminal,
            Unfinished, RolledBackStates, CompleteStates, world
<1>1. ASSUME Begin PROVE Control'
  BY <1>1 DEF Begin, Loop, Files
<1>2. ASSUME UndoBegin PROVE Control'
  BY <1>2 DEF UndoBegin, Loop
<1>3. ASSUME UndoUnresolved PROVE Control'
  BY <1>3 DEF UndoUnresolved, job
<1>4. ASSUME NEW f \in Files, RecordIntent(f) PROVE Control'
  BY <1>4 DEF RecordIntent, Loop, Transition, Files
<1>5. ASSUME NEW f \in Files, BindRecord(f) PROVE Control'
  BY <1>5 DEF BindRecord, Files
<1>6. ASSUME NEW f \in Disk, ApplyCheck(f) PROVE Control'
  BY <1>6 DEF ApplyCheck, Loop
<1>7. ASSUME NEW f \in Disk, CompensateCheck(f) PROVE Control'
  BY <1>7 DEF CompensateCheck, LoopOn, Transition
<1>8. ASSUME NEW f \in Disk, CompensateFails(f) PROVE Control'
  BY <1>8 DEF CompensateFails, LoopOn, Transition
<1>9. ASSUME NEW f \in Disk, RestoreCheck(f) PROVE Control'
  BY <1>9 DEF RestoreCheck, LoopOn, Transition
<1>10. ASSUME NEW f \in Disk, InspectDisk(f) PROVE Control'
  BY <1>10 DEF InspectDisk, Transition
<1>11. ASSUME NEW f \in Surface, Dispatch(f) PROVE Control'
  BY <1>11 DEF Dispatch, Loop, Transition
<1>12. ASSUME NEW f \in Surface, RequestApply(f) PROVE Control'
  BY <1>12 DEF RequestApply, Edited
<1>13. ASSUME NEW f \in Surface, RequestRevert(f) PROVE Control'
  BY <1>13 DEF RequestRevert, Edited
<1>14. ASSUME NEW f \in Surface, FinalizePath(f) PROVE Control'
  BY <1>14 DEF FinalizePath, Transition
<1>15. ASSUME NEW f \in Surface, InspectSurface(f) PROVE Control'
  BY <1>15 DEF InspectSurface, Transition
<1>16. ASSUME NEW f \in Surface, UndoMark(f) PROVE Control'
  BY <1>16 DEF UndoMark, Transition
<1>17. ASSUME NEW f \in Surface, RequestUndo(f) PROVE Control'
  BY <1>17 DEF RequestUndo, Edited
<1>18. ASSUME NEW f \in Surface, UndoSurface(f) PROVE Control'
  BY <1>18 DEF UndoSurface, Transition
<1>19. ASSUME ApplyWrite PROVE Control'
  BY <1>19 DEF ApplyWrite
<1>20. ASSUME ApplyFails PROVE Control'
  BY <1>20 DEF ApplyFails, Loop
<1>21. ASSUME ApplyObserve PROVE Control'
  BY <1>21 DEF ApplyObserve, LoopOn, Transition
<1>22. ASSUME CommitApplied PROVE Control'
  BY <1>22 DEF CommitApplied, Loop, Return, CompleteOperation, CompleteMerge
<1>23. ASSUME CommitFails PROVE Control'
  BY <1>23 DEF CommitFails, Loop, CompleteOperation, CompleteMerge
<1>24. ASSUME CompensateWrite PROVE Control'
  BY <1>24 DEF CompensateWrite
<1>25. ASSUME CompensateObserve PROVE Control'
  BY <1>25 DEF CompensateObserve, LoopOn, Transition
<1>26. ASSUME CompensateEnds PROVE Control'
  BY <1>26 DEF CompensateEnds, Return, CompleteOperation, Settled
<1>27. ASSUME Requested PROVE Control'
  BY <1>27 DEF Requested, Loop, With
<1>28. ASSUME Reverted PROVE Control'
  BY <1>28 DEF Reverted, Loop
<1>29. ASSUME FinalizeEnds PROVE Control'
  BY <1>29 DEF FinalizeEnds, Loop, Return, CompleteOperation, CompleteMerge, With
<1>30. ASSUME BindPending PROVE Control'
  BY <1>30 DEF BindPending, Loop, Changes
<1>31. ASSUME BindEnds PROVE Control'
  BY <1>31 DEF BindEnds, Return, CompleteOperation, CompleteMerge
<1>32. ASSUME BindConfirmed PROVE Control'
  BY <1>32 DEF BindConfirmed, Return, CompleteOperation, CompleteMerge, Confirmed,
     Changes
<1>33. ASSUME BindRefused PROVE Control'
  BY <1>33 DEF BindRefused, Return, CompleteOperation, Confirmed
<1>34. ASSUME RestoreWrite PROVE Control'
  BY <1>34 DEF RestoreWrite
<1>35. ASSUME RestoreObserve PROVE Control'
  BY <1>35 DEF RestoreObserve, LoopOn, Transition
<1>36. ASSUME RestoreEnds PROVE Control'
  BY <1>36 DEF RestoreEnds, Return, CompleteOperation, Settled
<1>37. ASSUME Reconcile PROVE Control'
  BY <1>37 DEF Reconcile, Loop, Files
<1>38. ASSUME Unresolved PROVE Control'
  BY <1>38 DEF Unresolved, Return, CompleteOperation
<1>39. ASSUME DecideFinish PROVE Control'
  BY <1>39 DEF DecideFinish, Loop, Inspected, FinishMerge, ProvenApplied, Files
<1>40. ASSUME DecideUnknown PROVE Control'
  BY <1>40 DEF DecideUnknown, Return, Inspected, ProvenApplied, Files
<1>41. ASSUME DecideBinding PROVE Control'
  BY <1>41 DEF DecideBinding, Loop, Inspected, ProvenApplied, Files
<1>42. ASSUME DecideRestore PROVE Control'
  BY <1>42 DEF DecideRestore, Loop, Inspected, FinishMerge, ProvenApplied, Files
<1>43. ASSUME DecideAbort PROVE Control'
  BY <1>43 DEF DecideAbort, Return, CompleteOperation, Inspected, ProvenApplied, Files
<1>44. ASSUME UndoIntent PROVE Control'
  BY <1>44 DEF UndoIntent, Loop, CompleteOperation
<1>45. ASSUME UndoRequested PROVE Control'
  BY <1>45 DEF UndoRequested, Loop, Return, CompleteOperation, With
<1>46. ASSUME UndoDisk PROVE Control'
  BY <1>46 DEF UndoDisk, Loop
<1>47. ASSUME Abandon PROVE Control'
  BY <1>47 DEF Abandon, Return
<1>48. ASSUME TurnSettles PROVE Control'
  BY <1>48 DEF TurnSettles, job
<1>49. ASSUME NEW f \in Disk, EditDisk(f) PROVE Control'
  BY <1>49 DEF EditDisk, Gated, job
<1>50. ASSUME NEW f \in Surface, EditBuffer(f) PROVE Control'
  BY <1>50 DEF EditBuffer, job
<1>51. CASE UNCHANGED vars
  BY <1>51 DEF vars, durable, job
<1> HIDE DEF Control, Row, RowOfFailed, Goal, TypeOK, Specs, Paths, Applying,
            Compensating, Asking, Binding, Restoring, Undoing, InBody, Terminal,
            Unfinished, RolledBackStates, CompleteStates, world
<1>52. ASSUME NEW f \in Disk, DiskStep(f) PROVE Control'
  BY <1>52, <1>6, <1>7, <1>8, <1>9, <1>10, Zenon DEF DiskStep
<1>53. ASSUME NEW f \in Surface, SurfaceStep(f) PROVE Control'
  BY <1>53, <1>11, <1>12, <1>13, <1>14, <1>15, <1>16, <1>17, <1>18, Zenon DEF
     SurfaceStep
<1>54. ASSUME HostStep PROVE Control'
  BY <1>52, <1>53, <1>54, <1>4, <1>5, <1>19, <1>20, <1>21, <1>22, <1>23, <1>24, <1>25,
     <1>26, <1>27, <1>28, <1>29, <1>30, <1>31, <1>32, <1>33, <1>34, <1>35, <1>36, <1>37,
     <1>38, <1>39, <1>40, <1>41, <1>42, <1>43, <1>44, <1>45, <1>46, Zenon DEF HostStep
<1>55. QED
  BY <1>51, <1>54, <1>1, <1>2, <1>3, <1>47, <1>48, <1>49, <1>50, Zenon DEF Next

(***************************************************************************)
(* Every step preserves what data.appliedPaths contains.                   *)
(***************************************************************************)
LEMMA ProgressStep ==
  ASSUME TypeOK, Cursor, Control, Progress, [Next]_vars
  PROVE  Progress'
<1> USE PathsAssumption
<1> USE DEF Cursor, Control, Row, RowOfFailed, Goal, Progress, AppliedPaths,
            LoopsInside, TypeOK, Specs, Answers, Files, Paths, Applying, Compensating,
            Asking, Binding, Restoring, Undoing, InBody, Terminal, Unfinished,
            RolledBackStates, CompleteStates, world
<1>1. ASSUME Begin PROVE Progress'
  BY <1>1 DEF Begin, Loop, Files
<1>2. ASSUME UndoBegin PROVE Progress'
  BY <1>2 DEF UndoBegin, Loop
<1>3. ASSUME UndoUnresolved PROVE Progress'
  BY <1>3 DEF UndoUnresolved, job
<1>4. ASSUME NEW f \in Files, RecordIntent(f) PROVE Progress'
  BY <1>4 DEF RecordIntent, Loop, Transition, Files
<1>5. ASSUME NEW f \in Files, BindRecord(f) PROVE Progress'
  BY <1>5 DEF BindRecord, Files
<1>6. ASSUME NEW f \in Disk, ApplyCheck(f) PROVE Progress'
  BY <1>6 DEF ApplyCheck, Loop
<1>7. ASSUME NEW f \in Disk, CompensateCheck(f) PROVE Progress'
  BY <1>7 DEF CompensateCheck, LoopOn, Transition
<1>8. ASSUME NEW f \in Disk, CompensateFails(f) PROVE Progress'
  BY <1>8 DEF CompensateFails, LoopOn, Transition
<1>9. ASSUME NEW f \in Disk, RestoreCheck(f) PROVE Progress'
  BY <1>9 DEF RestoreCheck, LoopOn, Transition
<1>10. ASSUME NEW f \in Disk, InspectDisk(f) PROVE Progress'
  BY <1>10 DEF InspectDisk, Transition
<1>11. ASSUME NEW f \in Surface, Dispatch(f) PROVE Progress'
  BY <1>11 DEF Dispatch, Loop, Transition
<1>12. ASSUME NEW f \in Surface, RequestApply(f) PROVE Progress'
  BY <1>12 DEF RequestApply, Edited
<1>13. ASSUME NEW f \in Surface, RequestRevert(f) PROVE Progress'
  BY <1>13 DEF RequestRevert, Edited
<1>14. ASSUME NEW f \in Surface, FinalizePath(f) PROVE Progress'
  BY <1>14 DEF FinalizePath, Transition
<1>15. ASSUME NEW f \in Surface, InspectSurface(f) PROVE Progress'
  BY <1>15 DEF InspectSurface, Transition
<1>16. ASSUME NEW f \in Surface, UndoMark(f) PROVE Progress'
  BY <1>16 DEF UndoMark, Transition
<1>17. ASSUME NEW f \in Surface, RequestUndo(f) PROVE Progress'
  BY <1>17 DEF RequestUndo, Edited
<1>18. ASSUME NEW f \in Surface, UndoSurface(f) PROVE Progress'
  BY <1>18 DEF UndoSurface, Transition
<1>19. ASSUME ApplyWrite PROVE Progress'
  BY <1>19 DEF ApplyWrite
<1>20. ASSUME ApplyFails PROVE Progress'
  BY <1>20 DEF ApplyFails, Loop
<1>21. ASSUME ApplyObserve PROVE Progress'
  BY <1>21 DEF ApplyObserve, LoopOn, Transition
<1>22. ASSUME CommitApplied PROVE Progress'
  BY <1>22 DEF CommitApplied, Loop, Return, CompleteOperation, CompleteMerge
<1>23. ASSUME CommitFails PROVE Progress'
  BY <1>23 DEF CommitFails, Loop, CompleteOperation, CompleteMerge
<1>24. ASSUME CompensateWrite PROVE Progress'
  BY <1>24 DEF CompensateWrite
<1>25. ASSUME CompensateObserve PROVE Progress'
  BY <1>25 DEF CompensateObserve, LoopOn, Transition
<1>26. ASSUME CompensateEnds PROVE Progress'
  BY <1>26 DEF CompensateEnds, Return, CompleteOperation, Settled
<1>27. ASSUME Requested PROVE Progress'
  BY <1>27 DEF Requested, Loop, With
<1>28. ASSUME Reverted PROVE Progress'
  BY <1>28 DEF Reverted, Loop
<1>29. ASSUME FinalizeEnds PROVE Progress'
  BY <1>29 DEF FinalizeEnds, Loop, Return, CompleteOperation, CompleteMerge, With
<1>30. ASSUME BindPending PROVE Progress'
  BY <1>30 DEF BindPending, Loop, Changes
<1>31. ASSUME BindEnds PROVE Progress'
  BY <1>31 DEF BindEnds, Return, CompleteOperation, CompleteMerge
<1>32. ASSUME BindConfirmed PROVE Progress'
  BY <1>32 DEF BindConfirmed, Return, CompleteOperation, CompleteMerge, Confirmed,
     Changes
<1>33. ASSUME BindRefused PROVE Progress'
  BY <1>33 DEF BindRefused, Return, CompleteOperation, Confirmed
<1>34. ASSUME RestoreWrite PROVE Progress'
  BY <1>34 DEF RestoreWrite
<1>35. ASSUME RestoreObserve PROVE Progress'
  BY <1>35 DEF RestoreObserve, LoopOn, Transition
<1>36. ASSUME RestoreEnds PROVE Progress'
  BY <1>36 DEF RestoreEnds, Return, CompleteOperation, Settled
<1>37. ASSUME Reconcile PROVE Progress'
  BY <1>37 DEF Reconcile, Loop, Files
<1>38. ASSUME Unresolved PROVE Progress'
  BY <1>38 DEF Unresolved, Return, CompleteOperation
<1>39. ASSUME DecideFinish PROVE Progress'
  BY <1>39 DEF DecideFinish, Loop, Inspected, FinishMerge, ProvenApplied, Files
<1>40. ASSUME DecideUnknown PROVE Progress'
  BY <1>40 DEF DecideUnknown, Return, Inspected, ProvenApplied, Files
<1>41. ASSUME DecideBinding PROVE Progress'
  BY <1>41 DEF DecideBinding, Loop, Inspected, ProvenApplied, Files
<1>42. ASSUME DecideRestore PROVE Progress'
  BY <1>42 DEF DecideRestore, Loop, Inspected, FinishMerge, ProvenApplied, Files
<1>43. ASSUME DecideAbort PROVE Progress'
  BY <1>43 DEF DecideAbort, Return, CompleteOperation, Inspected, ProvenApplied, Files
<1>44. ASSUME UndoIntent PROVE Progress'
  BY <1>44 DEF UndoIntent, Loop, CompleteOperation
<1>45. ASSUME UndoRequested PROVE Progress'
  BY <1>45 DEF UndoRequested, Loop, Return, CompleteOperation, With
<1>46. ASSUME UndoDisk PROVE Progress'
  BY <1>46 DEF UndoDisk, Loop
<1>47. ASSUME Abandon PROVE Progress'
  BY <1>47 DEF Abandon, Return
<1>48. ASSUME TurnSettles PROVE Progress'
  BY <1>48 DEF TurnSettles, job
<1>49. ASSUME NEW f \in Disk, EditDisk(f) PROVE Progress'
  BY <1>49 DEF EditDisk, Gated, job
<1>50. ASSUME NEW f \in Surface, EditBuffer(f) PROVE Progress'
  BY <1>50 DEF EditBuffer, job
<1>51. CASE UNCHANGED vars
  BY <1>51 DEF vars, durable, job
<1> HIDE DEF Cursor, Control, Row, RowOfFailed, Goal, Progress, AppliedPaths,
            LoopsInside, TypeOK, Specs, Answers, Files, Paths, Applying, Compensating,
            Asking, Binding, Restoring, Undoing, InBody, Terminal, Unfinished,
            RolledBackStates, CompleteStates, world
<1>52. ASSUME NEW f \in Disk, DiskStep(f) PROVE Progress'
  BY <1>52, <1>6, <1>7, <1>8, <1>9, <1>10, Zenon DEF DiskStep
<1>53. ASSUME NEW f \in Surface, SurfaceStep(f) PROVE Progress'
  BY <1>53, <1>11, <1>12, <1>13, <1>14, <1>15, <1>16, <1>17, <1>18, Zenon DEF
     SurfaceStep
<1>54. ASSUME HostStep PROVE Progress'
  BY <1>52, <1>53, <1>54, <1>4, <1>5, <1>19, <1>20, <1>21, <1>22, <1>23, <1>24, <1>25,
     <1>26, <1>27, <1>28, <1>29, <1>30, <1>31, <1>32, <1>33, <1>34, <1>35, <1>36, <1>37,
     <1>38, <1>39, <1>40, <1>41, <1>42, <1>43, <1>44, <1>45, <1>46, Zenon DEF HostStep
<1>55. QED
  BY <1>51, <1>54, <1>1, <1>2, <1>3, <1>47, <1>48, <1>49, <1>50, Zenon DEF Next

(***************************************************************************)
(* Every step preserves DiskPhase: target content is written after its     *)
(* intent and no phase says safety-observed of it.                         *)
(***************************************************************************)
LEMMA DiskPhaseStep ==
  ASSUME TypeOK, Cursor, Control, Progress, DiskPhase, [Next]_vars
  PROVE  DiskPhase'
<1> USE PathsAssumption
<1> USE DEF Cursor, Control, Row, RowOfFailed, Goal, Progress, AppliedPaths,
            LoopsInside, DiskPhase, TypeOK, Specs, Contents, Paths, Files, DiskPhases,
            SurfacePhases, Applying, Compensating, Asking, Binding, Restoring,
            Undoing, InBody, Terminal, Unfinished, RolledBackStates, CompleteStates,
            world
<1>1. ASSUME Begin PROVE DiskPhase'
  BY <1>1 DEF Begin, Loop, Files
<1>2. ASSUME UndoBegin PROVE DiskPhase'
  BY <1>2 DEF UndoBegin, Loop
<1>3. ASSUME UndoUnresolved PROVE DiskPhase'
  BY <1>3 DEF UndoUnresolved, job
<1>4. ASSUME NEW f \in Files, RecordIntent(f) PROVE DiskPhase'
  BY <1>4 DEF RecordIntent, Loop, Transition, Files
<1>5. ASSUME NEW f \in Files, BindRecord(f) PROVE DiskPhase'
  BY <1>5 DEF BindRecord, Files
<1>6. ASSUME NEW f \in Disk, ApplyCheck(f) PROVE DiskPhase'
  BY <1>6 DEF ApplyCheck, Loop
<1>7. ASSUME NEW f \in Disk, CompensateCheck(f) PROVE DiskPhase'
  BY <1>7 DEF CompensateCheck, LoopOn, Transition
<1>8. ASSUME NEW f \in Disk, CompensateFails(f) PROVE DiskPhase'
  BY <1>8 DEF CompensateFails, LoopOn, Transition
<1>9. ASSUME NEW f \in Disk, RestoreCheck(f) PROVE DiskPhase'
  BY <1>9 DEF RestoreCheck, LoopOn, Transition
<1>10. ASSUME NEW f \in Disk, InspectDisk(f) PROVE DiskPhase'
  BY <1>10 DEF InspectDisk, Transition
<1>11. ASSUME NEW f \in Surface, Dispatch(f) PROVE DiskPhase'
  BY <1>11 DEF Dispatch, Loop, Transition
<1>12. ASSUME NEW f \in Surface, RequestApply(f) PROVE DiskPhase'
  BY <1>12 DEF RequestApply, Edited
<1>13. ASSUME NEW f \in Surface, RequestRevert(f) PROVE DiskPhase'
  BY <1>13 DEF RequestRevert, Edited
<1>14. ASSUME NEW f \in Surface, FinalizePath(f) PROVE DiskPhase'
  BY <1>14 DEF FinalizePath, Transition
<1>15. ASSUME NEW f \in Surface, InspectSurface(f) PROVE DiskPhase'
  BY <1>15 DEF InspectSurface, Transition
<1>16. ASSUME NEW f \in Surface, UndoMark(f) PROVE DiskPhase'
  BY <1>16 DEF UndoMark, Transition
<1>17. ASSUME NEW f \in Surface, RequestUndo(f) PROVE DiskPhase'
  BY <1>17 DEF RequestUndo, Edited
<1>18. ASSUME NEW f \in Surface, UndoSurface(f) PROVE DiskPhase'
  BY <1>18 DEF UndoSurface, Transition
<1>19. ASSUME ApplyWrite PROVE DiskPhase'
  BY <1>19 DEF ApplyWrite
<1>20. ASSUME ApplyFails PROVE DiskPhase'
  BY <1>20 DEF ApplyFails, Loop
<1>21. ASSUME ApplyObserve PROVE DiskPhase'
  BY <1>21 DEF ApplyObserve, LoopOn, Transition
<1>22. ASSUME CommitApplied PROVE DiskPhase'
  BY <1>22 DEF CommitApplied, Loop, Return, CompleteOperation, CompleteMerge
<1>23. ASSUME CommitFails PROVE DiskPhase'
  BY <1>23 DEF CommitFails, Loop, CompleteOperation, CompleteMerge
<1>24. ASSUME CompensateWrite PROVE DiskPhase'
  BY <1>24 DEF CompensateWrite
<1>25. ASSUME CompensateObserve PROVE DiskPhase'
  BY <1>25 DEF CompensateObserve, LoopOn, Transition
<1>26. ASSUME CompensateEnds PROVE DiskPhase'
  BY <1>26 DEF CompensateEnds, Return, CompleteOperation, Settled
<1>27. ASSUME Requested PROVE DiskPhase'
  BY <1>27 DEF Requested, Loop, With
<1>28. ASSUME Reverted PROVE DiskPhase'
  BY <1>28 DEF Reverted, Loop
<1>29. ASSUME FinalizeEnds PROVE DiskPhase'
  BY <1>29 DEF FinalizeEnds, Loop, Return, CompleteOperation, CompleteMerge, With
<1>30. ASSUME BindPending PROVE DiskPhase'
  BY <1>30 DEF BindPending, Loop, Changes
<1>31. ASSUME BindEnds PROVE DiskPhase'
  BY <1>31 DEF BindEnds, Return, CompleteOperation, CompleteMerge
<1>32. ASSUME BindConfirmed PROVE DiskPhase'
  BY <1>32 DEF BindConfirmed, Return, CompleteOperation, CompleteMerge, Confirmed,
     Changes
<1>33. ASSUME BindRefused PROVE DiskPhase'
  BY <1>33 DEF BindRefused, Return, CompleteOperation, Confirmed
<1>34. ASSUME RestoreWrite PROVE DiskPhase'
  BY <1>34 DEF RestoreWrite
<1>35. ASSUME RestoreObserve PROVE DiskPhase'
  BY <1>35 DEF RestoreObserve, LoopOn, Transition
<1>36. ASSUME RestoreEnds PROVE DiskPhase'
  BY <1>36 DEF RestoreEnds, Return, CompleteOperation, Settled
<1>37. ASSUME Reconcile PROVE DiskPhase'
  BY <1>37 DEF Reconcile, Loop, Files
<1>38. ASSUME Unresolved PROVE DiskPhase'
  BY <1>38 DEF Unresolved, Return, CompleteOperation
<1>39. ASSUME DecideFinish PROVE DiskPhase'
  BY <1>39 DEF DecideFinish, Loop, Inspected, FinishMerge, ProvenApplied, Files
<1>40. ASSUME DecideUnknown PROVE DiskPhase'
  BY <1>40 DEF DecideUnknown, Return, Inspected, ProvenApplied, Files
<1>41. ASSUME DecideBinding PROVE DiskPhase'
  BY <1>41 DEF DecideBinding, Loop, Inspected, ProvenApplied, Files
<1>42. ASSUME DecideRestore PROVE DiskPhase'
  BY <1>42 DEF DecideRestore, Loop, Inspected, FinishMerge, ProvenApplied, Files
<1>43. ASSUME DecideAbort PROVE DiskPhase'
  BY <1>43 DEF DecideAbort, Return, CompleteOperation, Inspected, ProvenApplied, Files
<1>44. ASSUME UndoIntent PROVE DiskPhase'
  BY <1>44 DEF UndoIntent, Loop, CompleteOperation
<1>45. ASSUME UndoRequested PROVE DiskPhase'
  BY <1>45 DEF UndoRequested, Loop, Return, CompleteOperation, With
<1>46. ASSUME UndoDisk PROVE DiskPhase'
  BY <1>46 DEF UndoDisk, Loop
<1>47. ASSUME Abandon PROVE DiskPhase'
  BY <1>47 DEF Abandon, Return
<1>48. ASSUME TurnSettles PROVE DiskPhase'
  BY <1>48 DEF TurnSettles, job
<1>49. ASSUME NEW f \in Disk, EditDisk(f) PROVE DiskPhase'
  BY <1>49 DEF EditDisk, Gated, job
<1>50. ASSUME NEW f \in Surface, EditBuffer(f) PROVE DiskPhase'
  BY <1>50 DEF EditBuffer, job
<1>51. CASE UNCHANGED vars
  BY <1>51 DEF vars, durable, job
<1> HIDE DEF Cursor, Control, Row, RowOfFailed, Goal, Progress, AppliedPaths,
            LoopsInside, DiskPhase, TypeOK, Specs, Contents, Paths, Files, DiskPhases,
            SurfacePhases, Applying, Compensating, Asking, Binding, Restoring,
            Undoing, InBody, Terminal, Unfinished, RolledBackStates, CompleteStates,
            world
<1>52. ASSUME NEW f \in Disk, DiskStep(f) PROVE DiskPhase'
  BY <1>52, <1>6, <1>7, <1>8, <1>9, <1>10, Zenon DEF DiskStep
<1>53. ASSUME NEW f \in Surface, SurfaceStep(f) PROVE DiskPhase'
  BY <1>53, <1>11, <1>12, <1>13, <1>14, <1>15, <1>16, <1>17, <1>18, Zenon DEF
     SurfaceStep
<1>54. ASSUME HostStep PROVE DiskPhase'
  BY <1>52, <1>53, <1>54, <1>4, <1>5, <1>19, <1>20, <1>21, <1>22, <1>23, <1>24, <1>25,
     <1>26, <1>27, <1>28, <1>29, <1>30, <1>31, <1>32, <1>33, <1>34, <1>35, <1>36, <1>37,
     <1>38, <1>39, <1>40, <1>41, <1>42, <1>43, <1>44, <1>45, <1>46, Zenon DEF HostStep
<1>55. QED
  BY <1>51, <1>54, <1>1, <1>2, <1>3, <1>47, <1>48, <1>49, <1>50, Zenon DEF Next

(***************************************************************************)
(* Every step preserves SurfacePhase.                                      *)
(***************************************************************************)
LEMMA SurfacePhaseStep ==
  ASSUME TypeOK, Cursor, Control, Progress, SurfacePhase, [Next]_vars
  PROVE  SurfacePhase'
<1> USE PathsAssumption
<1> USE DEF Cursor, Control, Row, RowOfFailed, Goal, Progress, AppliedPaths,
            LoopsInside, SurfacePhase, TypeOK, Specs, Contents, Answers, Paths, Files,
            DiskPhases, SurfacePhases, Applying, Compensating, Asking, Binding,
            Restoring, Undoing, InBody, Terminal, Unfinished, RolledBackStates,
            CompleteStates, world
<1>1. ASSUME Begin PROVE SurfacePhase'
  BY <1>1 DEF Begin, Loop, Files
<1>2. ASSUME UndoBegin PROVE SurfacePhase'
  BY <1>2 DEF UndoBegin, Loop
<1>3. ASSUME UndoUnresolved PROVE SurfacePhase'
  BY <1>3 DEF UndoUnresolved, job
<1>4. ASSUME NEW f \in Files, RecordIntent(f) PROVE SurfacePhase'
  BY <1>4 DEF RecordIntent, Loop, Transition, Files
<1>5. ASSUME NEW f \in Files, BindRecord(f) PROVE SurfacePhase'
  BY <1>5 DEF BindRecord, Files
<1>6. ASSUME NEW f \in Disk, ApplyCheck(f) PROVE SurfacePhase'
  BY <1>6 DEF ApplyCheck, Loop
<1>7. ASSUME NEW f \in Disk, CompensateCheck(f) PROVE SurfacePhase'
  BY <1>7 DEF CompensateCheck, LoopOn, Transition
<1>8. ASSUME NEW f \in Disk, CompensateFails(f) PROVE SurfacePhase'
  BY <1>8 DEF CompensateFails, LoopOn, Transition
<1>9. ASSUME NEW f \in Disk, RestoreCheck(f) PROVE SurfacePhase'
  BY <1>9 DEF RestoreCheck, LoopOn, Transition
<1>10. ASSUME NEW f \in Disk, InspectDisk(f) PROVE SurfacePhase'
  BY <1>10 DEF InspectDisk, Transition
<1>11. ASSUME NEW f \in Surface, Dispatch(f) PROVE SurfacePhase'
  BY <1>11 DEF Dispatch, Loop, Transition
<1>12. ASSUME NEW f \in Surface, RequestApply(f) PROVE SurfacePhase'
  BY <1>12 DEF RequestApply, Edited
<1>13. ASSUME NEW f \in Surface, RequestRevert(f) PROVE SurfacePhase'
  BY <1>13 DEF RequestRevert, Edited
<1>14. ASSUME NEW f \in Surface, FinalizePath(f) PROVE SurfacePhase'
  BY <1>14 DEF FinalizePath, Transition
<1>15. ASSUME NEW f \in Surface, InspectSurface(f) PROVE SurfacePhase'
  BY <1>15 DEF InspectSurface, Transition
<1>16. ASSUME NEW f \in Surface, UndoMark(f) PROVE SurfacePhase'
  BY <1>16 DEF UndoMark, Transition
<1>17. ASSUME NEW f \in Surface, RequestUndo(f) PROVE SurfacePhase'
  BY <1>17 DEF RequestUndo, Edited
<1>18. ASSUME NEW f \in Surface, UndoSurface(f) PROVE SurfacePhase'
  BY <1>18 DEF UndoSurface, Transition
<1>19. ASSUME ApplyWrite PROVE SurfacePhase'
  BY <1>19 DEF ApplyWrite
<1>20. ASSUME ApplyFails PROVE SurfacePhase'
  BY <1>20 DEF ApplyFails, Loop
<1>21. ASSUME ApplyObserve PROVE SurfacePhase'
  BY <1>21 DEF ApplyObserve, LoopOn, Transition
<1>22. ASSUME CommitApplied PROVE SurfacePhase'
  BY <1>22 DEF CommitApplied, Loop, Return, CompleteOperation, CompleteMerge
<1>23. ASSUME CommitFails PROVE SurfacePhase'
  BY <1>23 DEF CommitFails, Loop, CompleteOperation, CompleteMerge
<1>24. ASSUME CompensateWrite PROVE SurfacePhase'
  BY <1>24 DEF CompensateWrite
<1>25. ASSUME CompensateObserve PROVE SurfacePhase'
  BY <1>25 DEF CompensateObserve, LoopOn, Transition
<1>26. ASSUME CompensateEnds PROVE SurfacePhase'
  BY <1>26 DEF CompensateEnds, Return, CompleteOperation, Settled
<1>27. ASSUME Requested PROVE SurfacePhase'
  BY <1>27 DEF Requested, Loop, With
<1>28. ASSUME Reverted PROVE SurfacePhase'
  BY <1>28 DEF Reverted, Loop
<1>29. ASSUME FinalizeEnds PROVE SurfacePhase'
  BY <1>29 DEF FinalizeEnds, Loop, Return, CompleteOperation, CompleteMerge, With
<1>30. ASSUME BindPending PROVE SurfacePhase'
  BY <1>30 DEF BindPending, Loop, Changes
<1>31. ASSUME BindEnds PROVE SurfacePhase'
  BY <1>31 DEF BindEnds, Return, CompleteOperation, CompleteMerge
<1>32. ASSUME BindConfirmed PROVE SurfacePhase'
  BY <1>32 DEF BindConfirmed, Return, CompleteOperation, CompleteMerge, Confirmed,
     Changes
<1>33. ASSUME BindRefused PROVE SurfacePhase'
  BY <1>33 DEF BindRefused, Return, CompleteOperation, Confirmed
<1>34. ASSUME RestoreWrite PROVE SurfacePhase'
  BY <1>34 DEF RestoreWrite
<1>35. ASSUME RestoreObserve PROVE SurfacePhase'
  BY <1>35 DEF RestoreObserve, LoopOn, Transition
<1>36. ASSUME RestoreEnds PROVE SurfacePhase'
  BY <1>36 DEF RestoreEnds, Return, CompleteOperation, Settled
<1>37. ASSUME Reconcile PROVE SurfacePhase'
  BY <1>37 DEF Reconcile, Loop, Files
<1>38. ASSUME Unresolved PROVE SurfacePhase'
  BY <1>38 DEF Unresolved, Return, CompleteOperation
<1>39. ASSUME DecideFinish PROVE SurfacePhase'
  BY <1>39 DEF DecideFinish, Loop, Inspected, FinishMerge, ProvenApplied, Files
<1>40. ASSUME DecideUnknown PROVE SurfacePhase'
  BY <1>40 DEF DecideUnknown, Return, Inspected, ProvenApplied, Files
<1>41. ASSUME DecideBinding PROVE SurfacePhase'
  BY <1>41 DEF DecideBinding, Loop, Inspected, ProvenApplied, Files
<1>42. ASSUME DecideRestore PROVE SurfacePhase'
  BY <1>42 DEF DecideRestore, Loop, Inspected, FinishMerge, ProvenApplied, Files
<1>43. ASSUME DecideAbort PROVE SurfacePhase'
  BY <1>43 DEF DecideAbort, Return, CompleteOperation, Inspected, ProvenApplied, Files
<1>44. ASSUME UndoIntent PROVE SurfacePhase'
  BY <1>44 DEF UndoIntent, Loop, CompleteOperation
<1>45. ASSUME UndoRequested PROVE SurfacePhase'
  BY <1>45 DEF UndoRequested, Loop, Return, CompleteOperation, With
<1>46. ASSUME UndoDisk PROVE SurfacePhase'
  BY <1>46 DEF UndoDisk, Loop
<1>47. ASSUME Abandon PROVE SurfacePhase'
  BY <1>47 DEF Abandon, Return
<1>48. ASSUME TurnSettles PROVE SurfacePhase'
  BY <1>48 DEF TurnSettles, job
<1>49. ASSUME NEW f \in Disk, EditDisk(f) PROVE SurfacePhase'
  BY <1>49 DEF EditDisk, Gated, job
<1>50. ASSUME NEW f \in Surface, EditBuffer(f) PROVE SurfacePhase'
  BY <1>50 DEF EditBuffer, job
<1>51. CASE UNCHANGED vars
  BY <1>51 DEF vars, durable, job
<1> HIDE DEF Cursor, Control, Row, RowOfFailed, Goal, Progress, AppliedPaths,
            LoopsInside, SurfacePhase, TypeOK, Specs, Contents, Answers, Paths, Files,
            DiskPhases, SurfacePhases, Applying, Compensating, Asking, Binding,
            Restoring, Undoing, InBody, Terminal, Unfinished, RolledBackStates,
            CompleteStates, world
<1>52. ASSUME NEW f \in Disk, DiskStep(f) PROVE SurfacePhase'
  BY <1>52, <1>6, <1>7, <1>8, <1>9, <1>10, Zenon DEF DiskStep
<1>53. ASSUME NEW f \in Surface, SurfaceStep(f) PROVE SurfacePhase'
  BY <1>53, <1>11, <1>12, <1>13, <1>14, <1>15, <1>16, <1>17, <1>18, Zenon DEF
     SurfaceStep
<1>54. ASSUME HostStep PROVE SurfacePhase'
  BY <1>52, <1>53, <1>54, <1>4, <1>5, <1>19, <1>20, <1>21, <1>22, <1>23, <1>24, <1>25,
     <1>26, <1>27, <1>28, <1>29, <1>30, <1>31, <1>32, <1>33, <1>34, <1>35, <1>36, <1>37,
     <1>38, <1>39, <1>40, <1>41, <1>42, <1>43, <1>44, <1>45, <1>46, Zenon DEF HostStep
<1>55. QED
  BY <1>51, <1>54, <1>1, <1>2, <1>3, <1>47, <1>48, <1>49, <1>50, Zenon DEF Next

(***************************************************************************)
(* Every step preserves what the visited paths of a loop satisfy.          *)
(***************************************************************************)
LEMMA VisitedStep ==
  ASSUME TypeOK, Cursor, Progress, DiskPhase, Visited, [Next]_vars
  PROVE  Visited'
<1> USE PathsAssumption
<1> USE DEF Cursor, Progress, AppliedPaths, LoopsInside, DiskPhase, Visited,
            Inspecting, Compensated, Restored, TypeOK, Contents, Paths, Files,
            Applying, Compensating, Asking, Binding, Restoring, Undoing, InBody,
            SurfacePhases, world
<1>1. ASSUME Begin PROVE Visited'
  BY <1>1 DEF Begin, Loop, Files
<1>2. ASSUME UndoBegin PROVE Visited'
  BY <1>2 DEF UndoBegin, Loop
<1>3. ASSUME UndoUnresolved PROVE Visited'
  BY <1>3 DEF UndoUnresolved, job
<1>4. ASSUME NEW f \in Files, RecordIntent(f) PROVE Visited'
  BY <1>4 DEF RecordIntent, Loop, Transition, Files
<1>5. ASSUME NEW f \in Files, BindRecord(f) PROVE Visited'
  BY <1>5 DEF BindRecord, Files
<1>6. ASSUME NEW f \in Disk, ApplyCheck(f) PROVE Visited'
  BY <1>6 DEF ApplyCheck, Loop
<1>7. ASSUME NEW f \in Disk, CompensateCheck(f) PROVE Visited'
  BY <1>7 DEF CompensateCheck, LoopOn, Transition
<1>8. ASSUME NEW f \in Disk, CompensateFails(f) PROVE Visited'
  BY <1>8 DEF CompensateFails, LoopOn, Transition
<1>9. ASSUME NEW f \in Disk, RestoreCheck(f) PROVE Visited'
  BY <1>9 DEF RestoreCheck, LoopOn, Transition
<1>10. ASSUME NEW f \in Disk, InspectDisk(f) PROVE Visited'
  BY <1>10 DEF InspectDisk, Transition
<1>11. ASSUME NEW f \in Surface, Dispatch(f) PROVE Visited'
  BY <1>11 DEF Dispatch, Loop, Transition
<1>12. ASSUME NEW f \in Surface, RequestApply(f) PROVE Visited'
  BY <1>12 DEF RequestApply, Edited
<1>13. ASSUME NEW f \in Surface, RequestRevert(f) PROVE Visited'
  BY <1>13 DEF RequestRevert, Edited
<1>14. ASSUME NEW f \in Surface, FinalizePath(f) PROVE Visited'
  BY <1>14 DEF FinalizePath, Transition
<1>15. ASSUME NEW f \in Surface, InspectSurface(f) PROVE Visited'
  BY <1>15 DEF InspectSurface, Transition
<1>16. ASSUME NEW f \in Surface, UndoMark(f) PROVE Visited'
  BY <1>16 DEF UndoMark, Transition
<1>17. ASSUME NEW f \in Surface, RequestUndo(f) PROVE Visited'
  BY <1>17 DEF RequestUndo, Edited
<1>18. ASSUME NEW f \in Surface, UndoSurface(f) PROVE Visited'
  BY <1>18 DEF UndoSurface, Transition
<1>19. ASSUME ApplyWrite PROVE Visited'
  BY <1>19 DEF ApplyWrite
<1>20. ASSUME ApplyFails PROVE Visited'
  BY <1>20 DEF ApplyFails, Loop
<1>21. ASSUME ApplyObserve PROVE Visited'
  BY <1>21 DEF ApplyObserve, LoopOn, Transition
<1>22. ASSUME CommitApplied PROVE Visited'
  BY <1>22 DEF CommitApplied, Loop, Return, CompleteOperation, CompleteMerge
<1>23. ASSUME CommitFails PROVE Visited'
  BY <1>23 DEF CommitFails, Loop, CompleteOperation, CompleteMerge
<1>24. ASSUME CompensateWrite PROVE Visited'
  BY <1>24 DEF CompensateWrite
<1>25. ASSUME CompensateObserve PROVE Visited'
  BY <1>25 DEF CompensateObserve, LoopOn, Transition
<1>26. ASSUME CompensateEnds PROVE Visited'
  BY <1>26 DEF CompensateEnds, Return, CompleteOperation, Settled
<1>27. ASSUME Requested PROVE Visited'
  BY <1>27 DEF Requested, Loop, With
<1>28. ASSUME Reverted PROVE Visited'
  BY <1>28 DEF Reverted, Loop
<1>29. ASSUME FinalizeEnds PROVE Visited'
  BY <1>29 DEF FinalizeEnds, Loop, Return, CompleteOperation, CompleteMerge, With
<1>30. ASSUME BindPending PROVE Visited'
  BY <1>30 DEF BindPending, Loop, Changes
<1>31. ASSUME BindEnds PROVE Visited'
  BY <1>31 DEF BindEnds, Return, CompleteOperation, CompleteMerge
<1>32. ASSUME BindConfirmed PROVE Visited'
  BY <1>32 DEF BindConfirmed, Return, CompleteOperation, CompleteMerge, Confirmed,
     Changes
<1>33. ASSUME BindRefused PROVE Visited'
  BY <1>33 DEF BindRefused, Return, CompleteOperation, Confirmed
<1>34. ASSUME RestoreWrite PROVE Visited'
  BY <1>34 DEF RestoreWrite
<1>35. ASSUME RestoreObserve PROVE Visited'
  BY <1>35 DEF RestoreObserve, LoopOn, Transition
<1>36. ASSUME RestoreEnds PROVE Visited'
  BY <1>36 DEF RestoreEnds, Return, CompleteOperation, Settled
<1>37. ASSUME Reconcile PROVE Visited'
  BY <1>37 DEF Reconcile, Loop, Files
<1>38. ASSUME Unresolved PROVE Visited'
  BY <1>38 DEF Unresolved, Return, CompleteOperation
<1>39. ASSUME DecideFinish PROVE Visited'
  BY <1>39 DEF DecideFinish, Loop, Inspected, FinishMerge, ProvenApplied, Files
<1>40. ASSUME DecideUnknown PROVE Visited'
  BY <1>40 DEF DecideUnknown, Return, Inspected, ProvenApplied, Files
<1>41. ASSUME DecideBinding PROVE Visited'
  BY <1>41 DEF DecideBinding, Loop, Inspected, ProvenApplied, Files
<1>42. ASSUME DecideRestore PROVE Visited'
  BY <1>42 DEF DecideRestore, Loop, Inspected, FinishMerge, ProvenApplied, Files
<1>43. ASSUME DecideAbort PROVE Visited'
  BY <1>43 DEF DecideAbort, Return, CompleteOperation, Inspected, ProvenApplied, Files
<1>44. ASSUME UndoIntent PROVE Visited'
  BY <1>44 DEF UndoIntent, Loop, CompleteOperation
<1>45. ASSUME UndoRequested PROVE Visited'
  BY <1>45 DEF UndoRequested, Loop, Return, CompleteOperation, With
<1>46. ASSUME UndoDisk PROVE Visited'
  BY <1>46 DEF UndoDisk, Loop
<1>47. ASSUME Abandon PROVE Visited'
  BY <1>47 DEF Abandon, Return
<1>48. ASSUME TurnSettles PROVE Visited'
  BY <1>48 DEF TurnSettles, job
<1>49. ASSUME NEW f \in Disk, EditDisk(f) PROVE Visited'
  BY <1>49 DEF EditDisk, Gated, job
<1>50. ASSUME NEW f \in Surface, EditBuffer(f) PROVE Visited'
  BY <1>50 DEF EditBuffer, job
<1>51. CASE UNCHANGED vars
  BY <1>51 DEF vars, durable, job
<1> HIDE DEF Cursor, Progress, AppliedPaths, LoopsInside, DiskPhase, Visited,
            Inspecting, Compensated, Restored, TypeOK, Contents, Paths, Files,
            Applying, Compensating, Asking, Binding, Restoring, Undoing, InBody,
            SurfacePhases, world
<1>52. ASSUME NEW f \in Disk, DiskStep(f) PROVE Visited'
  BY <1>52, <1>6, <1>7, <1>8, <1>9, <1>10, Zenon DEF DiskStep
<1>53. ASSUME NEW f \in Surface, SurfaceStep(f) PROVE Visited'
  BY <1>53, <1>11, <1>12, <1>13, <1>14, <1>15, <1>16, <1>17, <1>18, Zenon DEF
     SurfaceStep
<1>54. ASSUME HostStep PROVE Visited'
  BY <1>52, <1>53, <1>54, <1>4, <1>5, <1>19, <1>20, <1>21, <1>22, <1>23, <1>24, <1>25,
     <1>26, <1>27, <1>28, <1>29, <1>30, <1>31, <1>32, <1>33, <1>34, <1>35, <1>36, <1>37,
     <1>38, <1>39, <1>40, <1>41, <1>42, <1>43, <1>44, <1>45, <1>46, Zenon DEF HostStep
<1>55. QED
  BY <1>51, <1>54, <1>1, <1>2, <1>3, <1>47, <1>48, <1>49, <1>50, Zenon DEF Next

(***************************************************************************)
(* Every step preserves Recorded.                                          *)
(***************************************************************************)
LEMMA RecordedStep ==
  ASSUME TypeOK, Control, Progress, Recorded, [Next]_vars
  PROVE  Recorded'
<1> USE PathsAssumption
<1> USE DEF Control, Row, RowOfFailed, Goal, Progress, AppliedPaths, LoopsInside,
            Recorded, TypeOK, Specs, Paths, Files, Applying, Compensating, Asking,
            Binding, Restoring, Undoing, InBody, Terminal, Unfinished,
            RolledBackStates, CompleteStates, world
<1>1. ASSUME Begin PROVE Recorded'
  BY <1>1 DEF Begin, Loop, Files
<1>2. ASSUME UndoBegin PROVE Recorded'
  BY <1>2 DEF UndoBegin, Loop
<1>3. ASSUME UndoUnresolved PROVE Recorded'
  BY <1>3 DEF UndoUnresolved, job
<1>4. ASSUME NEW f \in Files, RecordIntent(f) PROVE Recorded'
  BY <1>4 DEF RecordIntent, Loop, Transition, Files
<1>5. ASSUME NEW f \in Files, BindRecord(f) PROVE Recorded'
  BY <1>5 DEF BindRecord, Files
<1>6. ASSUME NEW f \in Disk, ApplyCheck(f) PROVE Recorded'
  BY <1>6 DEF ApplyCheck, Loop
<1>7. ASSUME NEW f \in Disk, CompensateCheck(f) PROVE Recorded'
  BY <1>7 DEF CompensateCheck, LoopOn, Transition
<1>8. ASSUME NEW f \in Disk, CompensateFails(f) PROVE Recorded'
  BY <1>8 DEF CompensateFails, LoopOn, Transition
<1>9. ASSUME NEW f \in Disk, RestoreCheck(f) PROVE Recorded'
  BY <1>9 DEF RestoreCheck, LoopOn, Transition
<1>10. ASSUME NEW f \in Disk, InspectDisk(f) PROVE Recorded'
  BY <1>10 DEF InspectDisk, Transition
<1>11. ASSUME NEW f \in Surface, Dispatch(f) PROVE Recorded'
  BY <1>11 DEF Dispatch, Loop, Transition
<1>12. ASSUME NEW f \in Surface, RequestApply(f) PROVE Recorded'
  BY <1>12 DEF RequestApply, Edited
<1>13. ASSUME NEW f \in Surface, RequestRevert(f) PROVE Recorded'
  BY <1>13 DEF RequestRevert, Edited
<1>14. ASSUME NEW f \in Surface, FinalizePath(f) PROVE Recorded'
  BY <1>14 DEF FinalizePath, Transition
<1>15. ASSUME NEW f \in Surface, InspectSurface(f) PROVE Recorded'
  BY <1>15 DEF InspectSurface, Transition
<1>16. ASSUME NEW f \in Surface, UndoMark(f) PROVE Recorded'
  BY <1>16 DEF UndoMark, Transition
<1>17. ASSUME NEW f \in Surface, RequestUndo(f) PROVE Recorded'
  BY <1>17 DEF RequestUndo, Edited
<1>18. ASSUME NEW f \in Surface, UndoSurface(f) PROVE Recorded'
  BY <1>18 DEF UndoSurface, Transition
<1>19. ASSUME ApplyWrite PROVE Recorded'
  BY <1>19 DEF ApplyWrite
<1>20. ASSUME ApplyFails PROVE Recorded'
  BY <1>20 DEF ApplyFails, Loop
<1>21. ASSUME ApplyObserve PROVE Recorded'
  BY <1>21 DEF ApplyObserve, LoopOn, Transition
<1>22. ASSUME CommitApplied PROVE Recorded'
  BY <1>22 DEF CommitApplied, Loop, Return, CompleteOperation, CompleteMerge
<1>23. ASSUME CommitFails PROVE Recorded'
  BY <1>23 DEF CommitFails, Loop, CompleteOperation, CompleteMerge
<1>24. ASSUME CompensateWrite PROVE Recorded'
  BY <1>24 DEF CompensateWrite
<1>25. ASSUME CompensateObserve PROVE Recorded'
  BY <1>25 DEF CompensateObserve, LoopOn, Transition
<1>26. ASSUME CompensateEnds PROVE Recorded'
  BY <1>26 DEF CompensateEnds, Return, CompleteOperation, Settled
<1>27. ASSUME Requested PROVE Recorded'
  BY <1>27 DEF Requested, Loop, With
<1>28. ASSUME Reverted PROVE Recorded'
  BY <1>28 DEF Reverted, Loop
<1>29. ASSUME FinalizeEnds PROVE Recorded'
  BY <1>29 DEF FinalizeEnds, Loop, Return, CompleteOperation, CompleteMerge, With
<1>30. ASSUME BindPending PROVE Recorded'
  BY <1>30 DEF BindPending, Loop, Changes
<1>31. ASSUME BindEnds PROVE Recorded'
  BY <1>31 DEF BindEnds, Return, CompleteOperation, CompleteMerge
<1>32. ASSUME BindConfirmed PROVE Recorded'
  BY <1>32 DEF BindConfirmed, Return, CompleteOperation, CompleteMerge, Confirmed,
     Changes
<1>33. ASSUME BindRefused PROVE Recorded'
  BY <1>33 DEF BindRefused, Return, CompleteOperation, Confirmed
<1>34. ASSUME RestoreWrite PROVE Recorded'
  BY <1>34 DEF RestoreWrite
<1>35. ASSUME RestoreObserve PROVE Recorded'
  BY <1>35 DEF RestoreObserve, LoopOn, Transition
<1>36. ASSUME RestoreEnds PROVE Recorded'
  BY <1>36 DEF RestoreEnds, Return, CompleteOperation, Settled
<1>37. ASSUME Reconcile PROVE Recorded'
  BY <1>37 DEF Reconcile, Loop, Files
<1>38. ASSUME Unresolved PROVE Recorded'
  BY <1>38 DEF Unresolved, Return, CompleteOperation
<1>39. ASSUME DecideFinish PROVE Recorded'
  BY <1>39 DEF DecideFinish, Loop, Inspected, FinishMerge, ProvenApplied, Files
<1>40. ASSUME DecideUnknown PROVE Recorded'
  BY <1>40 DEF DecideUnknown, Return, Inspected, ProvenApplied, Files
<1>41. ASSUME DecideBinding PROVE Recorded'
  BY <1>41 DEF DecideBinding, Loop, Inspected, ProvenApplied, Files
<1>42. ASSUME DecideRestore PROVE Recorded'
  BY <1>42 DEF DecideRestore, Loop, Inspected, FinishMerge, ProvenApplied, Files
<1>43. ASSUME DecideAbort PROVE Recorded'
  BY <1>43 DEF DecideAbort, Return, CompleteOperation, Inspected, ProvenApplied, Files
<1>44. ASSUME UndoIntent PROVE Recorded'
  BY <1>44 DEF UndoIntent, Loop, CompleteOperation
<1>45. ASSUME UndoRequested PROVE Recorded'
  BY <1>45 DEF UndoRequested, Loop, Return, CompleteOperation, With
<1>46. ASSUME UndoDisk PROVE Recorded'
  BY <1>46 DEF UndoDisk, Loop
<1>47. ASSUME Abandon PROVE Recorded'
  BY <1>47 DEF Abandon, Return
<1>48. ASSUME TurnSettles PROVE Recorded'
  BY <1>48 DEF TurnSettles, job
<1>49. ASSUME NEW f \in Disk, EditDisk(f) PROVE Recorded'
  BY <1>49 DEF EditDisk, Gated, job
<1>50. ASSUME NEW f \in Surface, EditBuffer(f) PROVE Recorded'
  BY <1>50 DEF EditBuffer, job
<1>51. CASE UNCHANGED vars
  BY <1>51 DEF vars, durable, job
<1> HIDE DEF Control, Row, RowOfFailed, Goal, Progress, AppliedPaths, LoopsInside,
            Recorded, TypeOK, Specs, Paths, Files, Applying, Compensating, Asking,
            Binding, Restoring, Undoing, InBody, Terminal, Unfinished,
            RolledBackStates, CompleteStates, world
<1>52. ASSUME NEW f \in Disk, DiskStep(f) PROVE Recorded'
  BY <1>52, <1>6, <1>7, <1>8, <1>9, <1>10, Zenon DEF DiskStep
<1>53. ASSUME NEW f \in Surface, SurfaceStep(f) PROVE Recorded'
  BY <1>53, <1>11, <1>12, <1>13, <1>14, <1>15, <1>16, <1>17, <1>18, Zenon DEF
     SurfaceStep
<1>54. ASSUME HostStep PROVE Recorded'
  BY <1>52, <1>53, <1>54, <1>4, <1>5, <1>19, <1>20, <1>21, <1>22, <1>23, <1>24, <1>25,
     <1>26, <1>27, <1>28, <1>29, <1>30, <1>31, <1>32, <1>33, <1>34, <1>35, <1>36, <1>37,
     <1>38, <1>39, <1>40, <1>41, <1>42, <1>43, <1>44, <1>45, <1>46, Zenon DEF HostStep
<1>55. QED
  BY <1>51, <1>54, <1>1, <1>2, <1>3, <1>47, <1>48, <1>49, <1>50, Zenon DEF Next

(***************************************************************************)
(* Every step preserves Whole.                                             *)
(***************************************************************************)
LEMMA WholeStep ==
  ASSUME TypeOK, Cursor, Control, Progress, DiskPhase, SurfacePhase, Visited, Whole,
         [Next]_vars
  PROVE  Whole'
<1> USE PathsAssumption
<1> USE DEF Cursor, Control, Row, RowOfFailed, Goal, Progress, AppliedPaths,
            LoopsInside, DiskPhase, SurfacePhase, Visited, Inspecting, Compensated,
            Restored, Whole, TypeOK, Specs, Paths, Files, DiskPhases, SurfacePhases,
            Applying, Compensating, Asking, Binding, Restoring, Undoing, InBody,
            Terminal, Unfinished, RolledBackStates, CompleteStates, world
<1>1. ASSUME Begin PROVE Whole'
  BY <1>1 DEF Begin, Loop, Files
<1>2. ASSUME UndoBegin PROVE Whole'
  BY <1>2 DEF UndoBegin, Loop
<1>3. ASSUME UndoUnresolved PROVE Whole'
  BY <1>3 DEF UndoUnresolved, job
<1>4. ASSUME NEW f \in Files, RecordIntent(f) PROVE Whole'
  BY <1>4 DEF RecordIntent, Loop, Transition, Files
<1>5. ASSUME NEW f \in Files, BindRecord(f) PROVE Whole'
  BY <1>5 DEF BindRecord, Files
<1>6. ASSUME NEW f \in Disk, ApplyCheck(f) PROVE Whole'
  BY <1>6 DEF ApplyCheck, Loop
<1>7. ASSUME NEW f \in Disk, CompensateCheck(f) PROVE Whole'
  BY <1>7 DEF CompensateCheck, LoopOn, Transition
<1>8. ASSUME NEW f \in Disk, CompensateFails(f) PROVE Whole'
  BY <1>8 DEF CompensateFails, LoopOn, Transition
<1>9. ASSUME NEW f \in Disk, RestoreCheck(f) PROVE Whole'
  BY <1>9 DEF RestoreCheck, LoopOn, Transition
<1>10. ASSUME NEW f \in Disk, InspectDisk(f) PROVE Whole'
  BY <1>10 DEF InspectDisk, Transition
<1>11. ASSUME NEW f \in Surface, Dispatch(f) PROVE Whole'
  BY <1>11 DEF Dispatch, Loop, Transition
<1>12. ASSUME NEW f \in Surface, RequestApply(f) PROVE Whole'
  BY <1>12 DEF RequestApply, Edited
<1>13. ASSUME NEW f \in Surface, RequestRevert(f) PROVE Whole'
  BY <1>13 DEF RequestRevert, Edited
<1>14. ASSUME NEW f \in Surface, FinalizePath(f) PROVE Whole'
  BY <1>14 DEF FinalizePath, Transition
<1>15. ASSUME NEW f \in Surface, InspectSurface(f) PROVE Whole'
  BY <1>15 DEF InspectSurface, Transition
<1>16. ASSUME NEW f \in Surface, UndoMark(f) PROVE Whole'
  BY <1>16 DEF UndoMark, Transition
<1>17. ASSUME NEW f \in Surface, RequestUndo(f) PROVE Whole'
  BY <1>17 DEF RequestUndo, Edited
<1>18. ASSUME NEW f \in Surface, UndoSurface(f) PROVE Whole'
  BY <1>18 DEF UndoSurface, Transition
<1>19. ASSUME ApplyWrite PROVE Whole'
  BY <1>19 DEF ApplyWrite
<1>20. ASSUME ApplyFails PROVE Whole'
  BY <1>20 DEF ApplyFails, Loop
<1>21. ASSUME ApplyObserve PROVE Whole'
  BY <1>21 DEF ApplyObserve, LoopOn, Transition
<1>22. ASSUME CommitApplied PROVE Whole'
  BY <1>22 DEF CommitApplied, Loop, Return, CompleteOperation, CompleteMerge
<1>23. ASSUME CommitFails PROVE Whole'
  BY <1>23 DEF CommitFails, Loop, CompleteOperation, CompleteMerge
<1>24. ASSUME CompensateWrite PROVE Whole'
  BY <1>24 DEF CompensateWrite
<1>25. ASSUME CompensateObserve PROVE Whole'
  BY <1>25 DEF CompensateObserve, LoopOn, Transition
<1>26. ASSUME CompensateEnds PROVE Whole'
  BY <1>26 DEF CompensateEnds, Return, CompleteOperation, Settled
<1>27. ASSUME Requested PROVE Whole'
  BY <1>27 DEF Requested, Loop, With
<1>28. ASSUME Reverted PROVE Whole'
  BY <1>28 DEF Reverted, Loop
<1>29. ASSUME FinalizeEnds PROVE Whole'
  BY <1>29 DEF FinalizeEnds, Loop, Return, CompleteOperation, CompleteMerge, With
<1>30. ASSUME BindPending PROVE Whole'
  BY <1>30 DEF BindPending, Loop, Changes
<1>31. ASSUME BindEnds PROVE Whole'
  BY <1>31 DEF BindEnds, Return, CompleteOperation, CompleteMerge
<1>32. ASSUME BindConfirmed PROVE Whole'
  BY <1>32 DEF BindConfirmed, Return, CompleteOperation, CompleteMerge, Confirmed,
     Changes
<1>33. ASSUME BindRefused PROVE Whole'
  BY <1>33 DEF BindRefused, Return, CompleteOperation, Confirmed
<1>34. ASSUME RestoreWrite PROVE Whole'
  BY <1>34 DEF RestoreWrite
<1>35. ASSUME RestoreObserve PROVE Whole'
  BY <1>35 DEF RestoreObserve, LoopOn, Transition
<1>36. ASSUME RestoreEnds PROVE Whole'
  BY <1>36 DEF RestoreEnds, Return, CompleteOperation, Settled
<1>37. ASSUME Reconcile PROVE Whole'
  BY <1>37 DEF Reconcile, Loop, Files
<1>38. ASSUME Unresolved PROVE Whole'
  BY <1>38 DEF Unresolved, Return, CompleteOperation
<1>39. ASSUME DecideFinish PROVE Whole'
  BY <1>39 DEF DecideFinish, Loop, Inspected, FinishMerge, ProvenApplied, Files
<1>40. ASSUME DecideUnknown PROVE Whole'
  BY <1>40 DEF DecideUnknown, Return, Inspected, ProvenApplied, Files
<1>41. ASSUME DecideBinding PROVE Whole'
  BY <1>41 DEF DecideBinding, Loop, Inspected, ProvenApplied, Files
<1>42. ASSUME DecideRestore PROVE Whole'
  BY <1>42 DEF DecideRestore, Loop, Inspected, FinishMerge, ProvenApplied, Files
<1>43. ASSUME DecideAbort PROVE Whole'
  BY <1>43 DEF DecideAbort, Return, CompleteOperation, Inspected, ProvenApplied, Files
<1>44. ASSUME UndoIntent PROVE Whole'
  BY <1>44 DEF UndoIntent, Loop, CompleteOperation
<1>45. ASSUME UndoRequested PROVE Whole'
  BY <1>45 DEF UndoRequested, Loop, Return, CompleteOperation, With
<1>46. ASSUME UndoDisk PROVE Whole'
  BY <1>46 DEF UndoDisk, Loop
<1>47. ASSUME Abandon PROVE Whole'
  BY <1>47 DEF Abandon, Return
<1>48. ASSUME TurnSettles PROVE Whole'
  BY <1>48 DEF TurnSettles, job
<1>49. ASSUME NEW f \in Disk, EditDisk(f) PROVE Whole'
  BY <1>49 DEF EditDisk, Gated, job
<1>50. ASSUME NEW f \in Surface, EditBuffer(f) PROVE Whole'
  BY <1>50 DEF EditBuffer, job
<1>51. CASE UNCHANGED vars
  BY <1>51 DEF vars, durable, job
<1> HIDE DEF Cursor, Control, Row, RowOfFailed, Goal, Progress, AppliedPaths,
            LoopsInside, DiskPhase, SurfacePhase, Visited, Inspecting, Compensated,
            Restored, Whole, TypeOK, Specs, Paths, Files, DiskPhases, SurfacePhases,
            Applying, Compensating, Asking, Binding, Restoring, Undoing, InBody,
            Terminal, Unfinished, RolledBackStates, CompleteStates, world
<1>52. ASSUME NEW f \in Disk, DiskStep(f) PROVE Whole'
  BY <1>52, <1>6, <1>7, <1>8, <1>9, <1>10, Zenon DEF DiskStep
<1>53. ASSUME NEW f \in Surface, SurfaceStep(f) PROVE Whole'
  BY <1>53, <1>11, <1>12, <1>13, <1>14, <1>15, <1>16, <1>17, <1>18, Zenon DEF
     SurfaceStep
<1>54. ASSUME HostStep PROVE Whole'
  BY <1>52, <1>53, <1>54, <1>4, <1>5, <1>19, <1>20, <1>21, <1>22, <1>23, <1>24, <1>25,
     <1>26, <1>27, <1>28, <1>29, <1>30, <1>31, <1>32, <1>33, <1>34, <1>35, <1>36, <1>37,
     <1>38, <1>39, <1>40, <1>41, <1>42, <1>43, <1>44, <1>45, <1>46, Zenon DEF HostStep
<1>55. QED
  BY <1>51, <1>54, <1>1, <1>2, <1>3, <1>47, <1>48, <1>49, <1>50, Zenon DEF Next

(***************************************************************************)
(* Every step preserves RolledBack: both compensations and the abort of a  *)
(* reconciliation leave no target content without a mark.                  *)
(***************************************************************************)
LEMMA RolledBackStep ==
  ASSUME TypeOK, Cursor, Control, DiskPhase, Visited, RolledBack, [Next]_vars
  PROVE  RolledBack'
<1> USE PathsAssumption
<1> USE DEF Cursor, Control, Row, DiskPhase, Visited, Inspecting, Compensated,
            Restored, RolledBack, TypeOK, Paths, Applying, Compensating, Asking,
            Binding, Restoring, Undoing, InBody, Terminal, Unfinished,
            RolledBackStates, CompleteStates, SurfacePhases, world
<1>1. ASSUME Begin PROVE RolledBack'
  BY <1>1 DEF Begin, Loop, Files
<1>2. ASSUME UndoBegin PROVE RolledBack'
  BY <1>2 DEF UndoBegin, Loop
<1>3. ASSUME UndoUnresolved PROVE RolledBack'
  BY <1>3 DEF UndoUnresolved, job
<1>4. ASSUME NEW f \in Files, RecordIntent(f) PROVE RolledBack'
  BY <1>4 DEF RecordIntent, Loop, Transition, Files
<1>5. ASSUME NEW f \in Files, BindRecord(f) PROVE RolledBack'
  BY <1>5 DEF BindRecord, Files
<1>6. ASSUME NEW f \in Disk, ApplyCheck(f) PROVE RolledBack'
  BY <1>6 DEF ApplyCheck, Loop
<1>7. ASSUME NEW f \in Disk, CompensateCheck(f) PROVE RolledBack'
  BY <1>7 DEF CompensateCheck, LoopOn, Transition
<1>8. ASSUME NEW f \in Disk, CompensateFails(f) PROVE RolledBack'
  BY <1>8 DEF CompensateFails, LoopOn, Transition
<1>9. ASSUME NEW f \in Disk, RestoreCheck(f) PROVE RolledBack'
  BY <1>9 DEF RestoreCheck, LoopOn, Transition
<1>10. ASSUME NEW f \in Disk, InspectDisk(f) PROVE RolledBack'
  BY <1>10 DEF InspectDisk, Transition
<1>11. ASSUME NEW f \in Surface, Dispatch(f) PROVE RolledBack'
  BY <1>11 DEF Dispatch, Loop, Transition
<1>12. ASSUME NEW f \in Surface, RequestApply(f) PROVE RolledBack'
  BY <1>12 DEF RequestApply, Edited
<1>13. ASSUME NEW f \in Surface, RequestRevert(f) PROVE RolledBack'
  BY <1>13 DEF RequestRevert, Edited
<1>14. ASSUME NEW f \in Surface, FinalizePath(f) PROVE RolledBack'
  BY <1>14 DEF FinalizePath, Transition
<1>15. ASSUME NEW f \in Surface, InspectSurface(f) PROVE RolledBack'
  BY <1>15 DEF InspectSurface, Transition
<1>16. ASSUME NEW f \in Surface, UndoMark(f) PROVE RolledBack'
  BY <1>16 DEF UndoMark, Transition
<1>17. ASSUME NEW f \in Surface, RequestUndo(f) PROVE RolledBack'
  BY <1>17 DEF RequestUndo, Edited
<1>18. ASSUME NEW f \in Surface, UndoSurface(f) PROVE RolledBack'
  BY <1>18 DEF UndoSurface, Transition
<1>19. ASSUME ApplyWrite PROVE RolledBack'
  BY <1>19 DEF ApplyWrite
<1>20. ASSUME ApplyFails PROVE RolledBack'
  BY <1>20 DEF ApplyFails, Loop
<1>21. ASSUME ApplyObserve PROVE RolledBack'
  BY <1>21 DEF ApplyObserve, LoopOn, Transition
<1>22. ASSUME CommitApplied PROVE RolledBack'
  BY <1>22 DEF CommitApplied, Loop, Return, CompleteOperation, CompleteMerge
<1>23. ASSUME CommitFails PROVE RolledBack'
  BY <1>23 DEF CommitFails, Loop, CompleteOperation, CompleteMerge
<1>24. ASSUME CompensateWrite PROVE RolledBack'
  BY <1>24 DEF CompensateWrite
<1>25. ASSUME CompensateObserve PROVE RolledBack'
  BY <1>25 DEF CompensateObserve, LoopOn, Transition
<1>26. ASSUME CompensateEnds PROVE RolledBack'
  BY <1>26 DEF CompensateEnds, Return, CompleteOperation, Settled
<1>27. ASSUME Requested PROVE RolledBack'
  BY <1>27 DEF Requested, Loop, With
<1>28. ASSUME Reverted PROVE RolledBack'
  BY <1>28 DEF Reverted, Loop
<1>29. ASSUME FinalizeEnds PROVE RolledBack'
  BY <1>29 DEF FinalizeEnds, Loop, Return, CompleteOperation, CompleteMerge, With
<1>30. ASSUME BindPending PROVE RolledBack'
  BY <1>30 DEF BindPending, Loop, Changes
<1>31. ASSUME BindEnds PROVE RolledBack'
  BY <1>31 DEF BindEnds, Return, CompleteOperation, CompleteMerge
<1>32. ASSUME BindConfirmed PROVE RolledBack'
  BY <1>32 DEF BindConfirmed, Return, CompleteOperation, CompleteMerge, Confirmed,
     Changes
<1>33. ASSUME BindRefused PROVE RolledBack'
  BY <1>33 DEF BindRefused, Return, CompleteOperation, Confirmed
<1>34. ASSUME RestoreWrite PROVE RolledBack'
  BY <1>34 DEF RestoreWrite
<1>35. ASSUME RestoreObserve PROVE RolledBack'
  BY <1>35 DEF RestoreObserve, LoopOn, Transition
<1>36. ASSUME RestoreEnds PROVE RolledBack'
  BY <1>36 DEF RestoreEnds, Return, CompleteOperation, Settled
<1>37. ASSUME Reconcile PROVE RolledBack'
  BY <1>37 DEF Reconcile, Loop, Files
<1>38. ASSUME Unresolved PROVE RolledBack'
  BY <1>38 DEF Unresolved, Return, CompleteOperation
<1>39. ASSUME DecideFinish PROVE RolledBack'
  BY <1>39 DEF DecideFinish, Loop, Inspected, FinishMerge, ProvenApplied, Files
<1>40. ASSUME DecideUnknown PROVE RolledBack'
  BY <1>40 DEF DecideUnknown, Return, Inspected, ProvenApplied, Files
<1>41. ASSUME DecideBinding PROVE RolledBack'
  BY <1>41 DEF DecideBinding, Loop, Inspected, ProvenApplied, Files
<1>42. ASSUME DecideRestore PROVE RolledBack'
  BY <1>42 DEF DecideRestore, Loop, Inspected, FinishMerge, ProvenApplied, Files
<1>43. ASSUME DecideAbort PROVE RolledBack'
  BY <1>43 DEF DecideAbort, Return, CompleteOperation, Inspected, ProvenApplied, Files
<1>44. ASSUME UndoIntent PROVE RolledBack'
  BY <1>44 DEF UndoIntent, Loop, CompleteOperation
<1>45. ASSUME UndoRequested PROVE RolledBack'
  BY <1>45 DEF UndoRequested, Loop, Return, CompleteOperation, With
<1>46. ASSUME UndoDisk PROVE RolledBack'
  BY <1>46 DEF UndoDisk, Loop
<1>47. ASSUME Abandon PROVE RolledBack'
  BY <1>47 DEF Abandon, Return
<1>48. ASSUME TurnSettles PROVE RolledBack'
  BY <1>48 DEF TurnSettles, job
<1>49. ASSUME NEW f \in Disk, EditDisk(f) PROVE RolledBack'
  BY <1>49 DEF EditDisk, Gated, job
<1>50. ASSUME NEW f \in Surface, EditBuffer(f) PROVE RolledBack'
  BY <1>50 DEF EditBuffer, job
<1>51. CASE UNCHANGED vars
  BY <1>51 DEF vars, durable, job
<1> HIDE DEF Cursor, Control, Row, DiskPhase, Visited, Inspecting, Compensated,
            Restored, RolledBack, TypeOK, Paths, Applying, Compensating, Asking,
            Binding, Restoring, Undoing, InBody, Terminal, Unfinished,
            RolledBackStates, CompleteStates, SurfacePhases, world
<1>52. ASSUME NEW f \in Disk, DiskStep(f) PROVE RolledBack'
  BY <1>52, <1>6, <1>7, <1>8, <1>9, <1>10, Zenon DEF DiskStep
<1>53. ASSUME NEW f \in Surface, SurfaceStep(f) PROVE RolledBack'
  BY <1>53, <1>11, <1>12, <1>13, <1>14, <1>15, <1>16, <1>17, <1>18, Zenon DEF
     SurfaceStep
<1>54. ASSUME HostStep PROVE RolledBack'
  BY <1>52, <1>53, <1>54, <1>4, <1>5, <1>19, <1>20, <1>21, <1>22, <1>23, <1>24, <1>25,
     <1>26, <1>27, <1>28, <1>29, <1>30, <1>31, <1>32, <1>33, <1>34, <1>35, <1>36, <1>37,
     <1>38, <1>39, <1>40, <1>41, <1>42, <1>43, <1>44, <1>45, <1>46, Zenon DEF HostStep
<1>55. QED
  BY <1>51, <1>54, <1>1, <1>2, <1>3, <1>47, <1>48, <1>49, <1>50, Zenon DEF Next

(***************************************************************************)
(* Every step preserves CompleteIsWhole.                                   *)
(***************************************************************************)
LEMMA WholeStaysStep ==
  ASSUME TypeOK, Cursor, Control, Progress, SurfacePhase, Whole, CompleteIsWhole,
         [Next]_vars
  PROVE  CompleteIsWhole'
<1> USE PathsAssumption
<1> USE DEF Cursor, Control, Row, RowOfFailed, Goal, Progress, AppliedPaths,
            LoopsInside, SurfacePhase, Whole, CompleteIsWhole, TypeOK, Specs, Paths,
            Applying, Compensating, Asking, Binding, Restoring, Undoing, InBody,
            Terminal, Unfinished, RolledBackStates, CompleteStates, world
<1>1. ASSUME Begin PROVE CompleteIsWhole'
  BY <1>1 DEF Begin, Loop, Files
<1>2. ASSUME UndoBegin PROVE CompleteIsWhole'
  BY <1>2 DEF UndoBegin, Loop
<1>3. ASSUME UndoUnresolved PROVE CompleteIsWhole'
  BY <1>3 DEF UndoUnresolved, job
<1>4. ASSUME NEW f \in Files, RecordIntent(f) PROVE CompleteIsWhole'
  BY <1>4 DEF RecordIntent, Loop, Transition, Files
<1>5. ASSUME NEW f \in Files, BindRecord(f) PROVE CompleteIsWhole'
  BY <1>5 DEF BindRecord, Files
<1>6. ASSUME NEW f \in Disk, ApplyCheck(f) PROVE CompleteIsWhole'
  BY <1>6 DEF ApplyCheck, Loop
<1>7. ASSUME NEW f \in Disk, CompensateCheck(f) PROVE CompleteIsWhole'
  BY <1>7 DEF CompensateCheck, LoopOn, Transition
<1>8. ASSUME NEW f \in Disk, CompensateFails(f) PROVE CompleteIsWhole'
  BY <1>8 DEF CompensateFails, LoopOn, Transition
<1>9. ASSUME NEW f \in Disk, RestoreCheck(f) PROVE CompleteIsWhole'
  BY <1>9 DEF RestoreCheck, LoopOn, Transition
<1>10. ASSUME NEW f \in Disk, InspectDisk(f) PROVE CompleteIsWhole'
  BY <1>10 DEF InspectDisk, Transition
<1>11. ASSUME NEW f \in Surface, Dispatch(f) PROVE CompleteIsWhole'
  BY <1>11 DEF Dispatch, Loop, Transition
<1>12. ASSUME NEW f \in Surface, RequestApply(f) PROVE CompleteIsWhole'
  BY <1>12 DEF RequestApply, Edited
<1>13. ASSUME NEW f \in Surface, RequestRevert(f) PROVE CompleteIsWhole'
  BY <1>13 DEF RequestRevert, Edited
<1>14. ASSUME NEW f \in Surface, FinalizePath(f) PROVE CompleteIsWhole'
  BY <1>14 DEF FinalizePath, Transition
<1>15. ASSUME NEW f \in Surface, InspectSurface(f) PROVE CompleteIsWhole'
  BY <1>15 DEF InspectSurface, Transition
<1>16. ASSUME NEW f \in Surface, UndoMark(f) PROVE CompleteIsWhole'
  BY <1>16 DEF UndoMark, Transition
<1>17. ASSUME NEW f \in Surface, RequestUndo(f) PROVE CompleteIsWhole'
  BY <1>17 DEF RequestUndo, Edited
<1>18. ASSUME NEW f \in Surface, UndoSurface(f) PROVE CompleteIsWhole'
  BY <1>18 DEF UndoSurface, Transition
<1>19. ASSUME ApplyWrite PROVE CompleteIsWhole'
  BY <1>19 DEF ApplyWrite
<1>20. ASSUME ApplyFails PROVE CompleteIsWhole'
  BY <1>20 DEF ApplyFails, Loop
<1>21. ASSUME ApplyObserve PROVE CompleteIsWhole'
  BY <1>21 DEF ApplyObserve, LoopOn, Transition
<1>22. ASSUME CommitApplied PROVE CompleteIsWhole'
  BY <1>22 DEF CommitApplied, Loop, Return, CompleteOperation, CompleteMerge
<1>23. ASSUME CommitFails PROVE CompleteIsWhole'
  BY <1>23 DEF CommitFails, Loop, CompleteOperation, CompleteMerge
<1>24. ASSUME CompensateWrite PROVE CompleteIsWhole'
  BY <1>24 DEF CompensateWrite
<1>25. ASSUME CompensateObserve PROVE CompleteIsWhole'
  BY <1>25 DEF CompensateObserve, LoopOn, Transition
<1>26. ASSUME CompensateEnds PROVE CompleteIsWhole'
  BY <1>26 DEF CompensateEnds, Return, CompleteOperation, Settled
<1>27. ASSUME Requested PROVE CompleteIsWhole'
  BY <1>27 DEF Requested, Loop, With
<1>28. ASSUME Reverted PROVE CompleteIsWhole'
  BY <1>28 DEF Reverted, Loop
<1>29. ASSUME FinalizeEnds PROVE CompleteIsWhole'
  BY <1>29 DEF FinalizeEnds, Loop, Return, CompleteOperation, CompleteMerge, With
<1>30. ASSUME BindPending PROVE CompleteIsWhole'
  BY <1>30 DEF BindPending, Loop, Changes
<1>31. ASSUME BindEnds PROVE CompleteIsWhole'
  BY <1>31 DEF BindEnds, Return, CompleteOperation, CompleteMerge
<1>32. ASSUME BindConfirmed PROVE CompleteIsWhole'
  BY <1>32 DEF BindConfirmed, Return, CompleteOperation, CompleteMerge, Confirmed,
     Changes
<1>33. ASSUME BindRefused PROVE CompleteIsWhole'
  BY <1>33 DEF BindRefused, Return, CompleteOperation, Confirmed
<1>34. ASSUME RestoreWrite PROVE CompleteIsWhole'
  BY <1>34 DEF RestoreWrite
<1>35. ASSUME RestoreObserve PROVE CompleteIsWhole'
  BY <1>35 DEF RestoreObserve, LoopOn, Transition
<1>36. ASSUME RestoreEnds PROVE CompleteIsWhole'
  BY <1>36 DEF RestoreEnds, Return, CompleteOperation, Settled
<1>37. ASSUME Reconcile PROVE CompleteIsWhole'
  BY <1>37 DEF Reconcile, Loop, Files
<1>38. ASSUME Unresolved PROVE CompleteIsWhole'
  BY <1>38 DEF Unresolved, Return, CompleteOperation
<1>39. ASSUME DecideFinish PROVE CompleteIsWhole'
  BY <1>39 DEF DecideFinish, Loop, Inspected, FinishMerge, ProvenApplied, Files
<1>40. ASSUME DecideUnknown PROVE CompleteIsWhole'
  BY <1>40 DEF DecideUnknown, Return, Inspected, ProvenApplied, Files
<1>41. ASSUME DecideBinding PROVE CompleteIsWhole'
  BY <1>41 DEF DecideBinding, Loop, Inspected, ProvenApplied, Files
<1>42. ASSUME DecideRestore PROVE CompleteIsWhole'
  BY <1>42 DEF DecideRestore, Loop, Inspected, FinishMerge, ProvenApplied, Files
<1>43. ASSUME DecideAbort PROVE CompleteIsWhole'
  BY <1>43 DEF DecideAbort, Return, CompleteOperation, Inspected, ProvenApplied, Files
<1>44. ASSUME UndoIntent PROVE CompleteIsWhole'
  BY <1>44 DEF UndoIntent, Loop, CompleteOperation
<1>45. ASSUME UndoRequested PROVE CompleteIsWhole'
  BY <1>45 DEF UndoRequested, Loop, Return, CompleteOperation, With
<1>46. ASSUME UndoDisk PROVE CompleteIsWhole'
  BY <1>46 DEF UndoDisk, Loop
<1>47. ASSUME Abandon PROVE CompleteIsWhole'
  BY <1>47 DEF Abandon, Return
<1>48. ASSUME TurnSettles PROVE CompleteIsWhole'
  BY <1>48 DEF TurnSettles, job
<1>49. ASSUME NEW f \in Disk, EditDisk(f) PROVE CompleteIsWhole'
  BY <1>49 DEF EditDisk, Gated, job
<1>50. ASSUME NEW f \in Surface, EditBuffer(f) PROVE CompleteIsWhole'
  BY <1>50 DEF EditBuffer, job
<1>51. CASE UNCHANGED vars
  BY <1>51 DEF vars, durable, job
<1> HIDE DEF Cursor, Control, Row, RowOfFailed, Goal, Progress, AppliedPaths,
            LoopsInside, SurfacePhase, Whole, CompleteIsWhole, TypeOK, Specs, Paths,
            Applying, Compensating, Asking, Binding, Restoring, Undoing, InBody,
            Terminal, Unfinished, RolledBackStates, CompleteStates, world
<1>52. ASSUME NEW f \in Disk, DiskStep(f) PROVE CompleteIsWhole'
  BY <1>52, <1>6, <1>7, <1>8, <1>9, <1>10, Zenon DEF DiskStep
<1>53. ASSUME NEW f \in Surface, SurfaceStep(f) PROVE CompleteIsWhole'
  BY <1>53, <1>11, <1>12, <1>13, <1>14, <1>15, <1>16, <1>17, <1>18, Zenon DEF
     SurfaceStep
<1>54. ASSUME HostStep PROVE CompleteIsWhole'
  BY <1>52, <1>53, <1>54, <1>4, <1>5, <1>19, <1>20, <1>21, <1>22, <1>23, <1>24, <1>25,
     <1>26, <1>27, <1>28, <1>29, <1>30, <1>31, <1>32, <1>33, <1>34, <1>35, <1>36, <1>37,
     <1>38, <1>39, <1>40, <1>41, <1>42, <1>43, <1>44, <1>45, <1>46, Zenon DEF HostStep
<1>55. QED
  BY <1>51, <1>54, <1>1, <1>2, <1>3, <1>47, <1>48, <1>49, <1>50, Zenon DEF Next

(***************************************************************************)
(* Every step preserves CheckpointAgrees.                                  *)
(***************************************************************************)
LEMMA CheckpointStep ==
  ASSUME TypeOK, Control, Progress, Recorded, CheckpointAgrees, [Next]_vars
  PROVE  CheckpointAgrees'
<1> USE PathsAssumption
<1> USE DEF Control, Row, RowOfFailed, Goal, Progress, AppliedPaths, LoopsInside,
            Recorded, CheckpointAgrees, TypeOK, Specs, Paths, Files, Applying,
            Compensating, Asking, Binding, Restoring, Undoing, InBody, Terminal,
            Unfinished, RolledBackStates, CompleteStates, world
<1>1. ASSUME Begin PROVE CheckpointAgrees'
  BY <1>1 DEF Begin, Loop, Files
<1>2. ASSUME UndoBegin PROVE CheckpointAgrees'
  BY <1>2 DEF UndoBegin, Loop
<1>3. ASSUME UndoUnresolved PROVE CheckpointAgrees'
  BY <1>3 DEF UndoUnresolved, job
<1>4. ASSUME NEW f \in Files, RecordIntent(f) PROVE CheckpointAgrees'
  BY <1>4 DEF RecordIntent, Loop, Transition, Files
<1>5. ASSUME NEW f \in Files, BindRecord(f) PROVE CheckpointAgrees'
  BY <1>5 DEF BindRecord, Files
<1>6. ASSUME NEW f \in Disk, ApplyCheck(f) PROVE CheckpointAgrees'
  BY <1>6 DEF ApplyCheck, Loop
<1>7. ASSUME NEW f \in Disk, CompensateCheck(f) PROVE CheckpointAgrees'
  BY <1>7 DEF CompensateCheck, LoopOn, Transition
<1>8. ASSUME NEW f \in Disk, CompensateFails(f) PROVE CheckpointAgrees'
  BY <1>8 DEF CompensateFails, LoopOn, Transition
<1>9. ASSUME NEW f \in Disk, RestoreCheck(f) PROVE CheckpointAgrees'
  BY <1>9 DEF RestoreCheck, LoopOn, Transition
<1>10. ASSUME NEW f \in Disk, InspectDisk(f) PROVE CheckpointAgrees'
  BY <1>10 DEF InspectDisk, Transition
<1>11. ASSUME NEW f \in Surface, Dispatch(f) PROVE CheckpointAgrees'
  BY <1>11 DEF Dispatch, Loop, Transition
<1>12. ASSUME NEW f \in Surface, RequestApply(f) PROVE CheckpointAgrees'
  BY <1>12 DEF RequestApply, Edited
<1>13. ASSUME NEW f \in Surface, RequestRevert(f) PROVE CheckpointAgrees'
  BY <1>13 DEF RequestRevert, Edited
<1>14. ASSUME NEW f \in Surface, FinalizePath(f) PROVE CheckpointAgrees'
  BY <1>14 DEF FinalizePath, Transition
<1>15. ASSUME NEW f \in Surface, InspectSurface(f) PROVE CheckpointAgrees'
  BY <1>15 DEF InspectSurface, Transition
<1>16. ASSUME NEW f \in Surface, UndoMark(f) PROVE CheckpointAgrees'
  BY <1>16 DEF UndoMark, Transition
<1>17. ASSUME NEW f \in Surface, RequestUndo(f) PROVE CheckpointAgrees'
  BY <1>17 DEF RequestUndo, Edited
<1>18. ASSUME NEW f \in Surface, UndoSurface(f) PROVE CheckpointAgrees'
  BY <1>18 DEF UndoSurface, Transition
<1>19. ASSUME ApplyWrite PROVE CheckpointAgrees'
  BY <1>19 DEF ApplyWrite
<1>20. ASSUME ApplyFails PROVE CheckpointAgrees'
  BY <1>20 DEF ApplyFails, Loop
<1>21. ASSUME ApplyObserve PROVE CheckpointAgrees'
  BY <1>21 DEF ApplyObserve, LoopOn, Transition
<1>22. ASSUME CommitApplied PROVE CheckpointAgrees'
  BY <1>22 DEF CommitApplied, Loop, Return, CompleteOperation, CompleteMerge
<1>23. ASSUME CommitFails PROVE CheckpointAgrees'
  BY <1>23 DEF CommitFails, Loop, CompleteOperation, CompleteMerge
<1>24. ASSUME CompensateWrite PROVE CheckpointAgrees'
  BY <1>24 DEF CompensateWrite
<1>25. ASSUME CompensateObserve PROVE CheckpointAgrees'
  BY <1>25 DEF CompensateObserve, LoopOn, Transition
<1>26. ASSUME CompensateEnds PROVE CheckpointAgrees'
  BY <1>26 DEF CompensateEnds, Return, CompleteOperation, Settled
<1>27. ASSUME Requested PROVE CheckpointAgrees'
  BY <1>27 DEF Requested, Loop, With
<1>28. ASSUME Reverted PROVE CheckpointAgrees'
  BY <1>28 DEF Reverted, Loop
<1>29. ASSUME FinalizeEnds PROVE CheckpointAgrees'
  BY <1>29 DEF FinalizeEnds, Loop, Return, CompleteOperation, CompleteMerge, With
<1>30. ASSUME BindPending PROVE CheckpointAgrees'
  BY <1>30 DEF BindPending, Loop, Changes
<1>31. ASSUME BindEnds PROVE CheckpointAgrees'
  <2>1. /\ \A f \in Disk : f \in recorded
        /\ recorded \subseteq Disk /\ recorded' = recorded
    BY <1>31 DEF BindEnds
  <2>2. recorded' = Disk
    BY <2>1, SameSet, Zenon
  <2>3. op'.state \in CompleteStates
    BY <1>31 DEF BindEnds, Return, CompleteOperation, CompleteMerge
  <2>4. QED
    BY <2>2, <2>3
<1>32. ASSUME BindConfirmed PROVE CheckpointAgrees'
  <2>1. /\ \A f \in Disk : f \in recorded
        /\ recorded \subseteq Disk /\ recorded' = recorded
    BY <1>32 DEF BindConfirmed, Confirmed, Changes
  <2>2. recorded' = Disk
    BY <2>1, SameSet, Zenon
  <2>3. op'.state \in CompleteStates
    BY <1>32 DEF BindConfirmed, Return, CompleteOperation, CompleteMerge, Confirmed, Changes
  <2>4. QED
    BY <2>2, <2>3
<1>33. ASSUME BindRefused PROVE CheckpointAgrees'
  BY <1>33 DEF BindRefused, Return, CompleteOperation, Confirmed
<1>34. ASSUME RestoreWrite PROVE CheckpointAgrees'
  BY <1>34 DEF RestoreWrite
<1>35. ASSUME RestoreObserve PROVE CheckpointAgrees'
  BY <1>35 DEF RestoreObserve, LoopOn, Transition
<1>36. ASSUME RestoreEnds PROVE CheckpointAgrees'
  BY <1>36 DEF RestoreEnds, Return, CompleteOperation, Settled
<1>37. ASSUME Reconcile PROVE CheckpointAgrees'
  BY <1>37 DEF Reconcile, Loop, Files
<1>38. ASSUME Unresolved PROVE CheckpointAgrees'
  BY <1>38 DEF Unresolved, Return, CompleteOperation
<1>39. ASSUME DecideFinish PROVE CheckpointAgrees'
  BY <1>39 DEF DecideFinish, Loop, Inspected, FinishMerge, ProvenApplied, Files
<1>40. ASSUME DecideUnknown PROVE CheckpointAgrees'
  BY <1>40 DEF DecideUnknown, Return, Inspected, ProvenApplied, Files
<1>41. ASSUME DecideBinding PROVE CheckpointAgrees'
  BY <1>41 DEF DecideBinding, Loop, Inspected, ProvenApplied, Files
<1>42. ASSUME DecideRestore PROVE CheckpointAgrees'
  BY <1>42 DEF DecideRestore, Loop, Inspected, FinishMerge, ProvenApplied, Files
<1>43. ASSUME DecideAbort PROVE CheckpointAgrees'
  BY <1>43 DEF DecideAbort, Return, CompleteOperation, Inspected, ProvenApplied, Files
<1>44. ASSUME UndoIntent PROVE CheckpointAgrees'
  BY <1>44 DEF UndoIntent, Loop, CompleteOperation
<1>45. ASSUME UndoRequested PROVE CheckpointAgrees'
  BY <1>45 DEF UndoRequested, Loop, Return, CompleteOperation, With
<1>46. ASSUME UndoDisk PROVE CheckpointAgrees'
  BY <1>46 DEF UndoDisk, Loop
<1>47. ASSUME Abandon PROVE CheckpointAgrees'
  BY <1>47 DEF Abandon, Return
<1>48. ASSUME TurnSettles PROVE CheckpointAgrees'
  BY <1>48 DEF TurnSettles, job
<1>49. ASSUME NEW f \in Disk, EditDisk(f) PROVE CheckpointAgrees'
  BY <1>49 DEF EditDisk, Gated, job
<1>50. ASSUME NEW f \in Surface, EditBuffer(f) PROVE CheckpointAgrees'
  BY <1>50 DEF EditBuffer, job
<1>51. CASE UNCHANGED vars
  BY <1>51 DEF vars, durable, job
<1> HIDE DEF Control, Row, RowOfFailed, Goal, Progress, AppliedPaths, LoopsInside,
            Recorded, CheckpointAgrees, TypeOK, Specs, Paths, Files, Applying,
            Compensating, Asking, Binding, Restoring, Undoing, InBody, Terminal,
            Unfinished, RolledBackStates, CompleteStates, world
<1>52. ASSUME NEW f \in Disk, DiskStep(f) PROVE CheckpointAgrees'
  BY <1>52, <1>6, <1>7, <1>8, <1>9, <1>10, Zenon DEF DiskStep
<1>53. ASSUME NEW f \in Surface, SurfaceStep(f) PROVE CheckpointAgrees'
  BY <1>53, <1>11, <1>12, <1>13, <1>14, <1>15, <1>16, <1>17, <1>18, Zenon DEF
     SurfaceStep
<1>54. ASSUME HostStep PROVE CheckpointAgrees'
  BY <1>52, <1>53, <1>54, <1>4, <1>5, <1>19, <1>20, <1>21, <1>22, <1>23, <1>24, <1>25,
     <1>26, <1>27, <1>28, <1>29, <1>30, <1>31, <1>32, <1>33, <1>34, <1>35, <1>36, <1>37,
     <1>38, <1>39, <1>40, <1>41, <1>42, <1>43, <1>44, <1>45, <1>46, Zenon DEF HostStep
<1>55. QED
  BY <1>51, <1>54, <1>1, <1>2, <1>3, <1>47, <1>48, <1>49, <1>50, Zenon DEF Next

\* What a step does to somebody else's edit (the action of EditsKept).
EditKept == \A f \in Disk : disk[f] = "other" /\ disk'[f] # "other" => pc = "compWrite"

(***************************************************************************)
(* No step but the compensation of a failed merge writes over an edit.     *)
(***************************************************************************)
LEMMA EditKeptStep ==
  ASSUME TypeOK, Cursor, [Next]_vars
  PROVE  EditKept
<1> USE PathsAssumption
<1> USE DEF TypeOK, Contents, Paths, Cursor, InBody, EditKept, world
<1>1. ASSUME Begin PROVE EditKept
  BY <1>1 DEF Begin, Loop, Files
<1>2. ASSUME UndoBegin PROVE EditKept
  BY <1>2 DEF UndoBegin, Loop
<1>3. ASSUME UndoUnresolved PROVE EditKept
  BY <1>3 DEF UndoUnresolved, job
<1>4. ASSUME NEW f \in Files, RecordIntent(f) PROVE EditKept
  BY <1>4 DEF RecordIntent, Loop, Transition, Files
<1>5. ASSUME NEW f \in Files, BindRecord(f) PROVE EditKept
  BY <1>5 DEF BindRecord, Files
<1>6. ASSUME NEW f \in Disk, ApplyCheck(f) PROVE EditKept
  BY <1>6 DEF ApplyCheck, Loop
<1>7. ASSUME NEW f \in Disk, CompensateCheck(f) PROVE EditKept
  BY <1>7 DEF CompensateCheck, LoopOn, Transition
<1>8. ASSUME NEW f \in Disk, CompensateFails(f) PROVE EditKept
  BY <1>8 DEF CompensateFails, LoopOn, Transition
<1>9. ASSUME NEW f \in Disk, RestoreCheck(f) PROVE EditKept
  BY <1>9 DEF RestoreCheck, LoopOn, Transition
<1>10. ASSUME NEW f \in Disk, InspectDisk(f) PROVE EditKept
  BY <1>10 DEF InspectDisk, Transition
<1>11. ASSUME NEW f \in Surface, Dispatch(f) PROVE EditKept
  BY <1>11 DEF Dispatch, Loop, Transition
<1>12. ASSUME NEW f \in Surface, RequestApply(f) PROVE EditKept
  BY <1>12 DEF RequestApply, Edited
<1>13. ASSUME NEW f \in Surface, RequestRevert(f) PROVE EditKept
  BY <1>13 DEF RequestRevert, Edited
<1>14. ASSUME NEW f \in Surface, FinalizePath(f) PROVE EditKept
  BY <1>14 DEF FinalizePath, Transition
<1>15. ASSUME NEW f \in Surface, InspectSurface(f) PROVE EditKept
  BY <1>15 DEF InspectSurface, Transition
<1>16. ASSUME NEW f \in Surface, UndoMark(f) PROVE EditKept
  BY <1>16 DEF UndoMark, Transition
<1>17. ASSUME NEW f \in Surface, RequestUndo(f) PROVE EditKept
  BY <1>17 DEF RequestUndo, Edited
<1>18. ASSUME NEW f \in Surface, UndoSurface(f) PROVE EditKept
  BY <1>18 DEF UndoSurface, Transition
<1>19. ASSUME ApplyWrite PROVE EditKept
  BY <1>19 DEF ApplyWrite
<1>20. ASSUME ApplyFails PROVE EditKept
  BY <1>20 DEF ApplyFails, Loop
<1>21. ASSUME ApplyObserve PROVE EditKept
  BY <1>21 DEF ApplyObserve, LoopOn, Transition
<1>22. ASSUME CommitApplied PROVE EditKept
  BY <1>22 DEF CommitApplied, Loop, Return, CompleteOperation, CompleteMerge
<1>23. ASSUME CommitFails PROVE EditKept
  BY <1>23 DEF CommitFails, Loop, CompleteOperation, CompleteMerge
<1>24. ASSUME CompensateWrite PROVE EditKept
  BY <1>24 DEF CompensateWrite
<1>25. ASSUME CompensateObserve PROVE EditKept
  BY <1>25 DEF CompensateObserve, LoopOn, Transition
<1>26. ASSUME CompensateEnds PROVE EditKept
  BY <1>26 DEF CompensateEnds, Return, CompleteOperation, Settled
<1>27. ASSUME Requested PROVE EditKept
  BY <1>27 DEF Requested, Loop, With
<1>28. ASSUME Reverted PROVE EditKept
  BY <1>28 DEF Reverted, Loop
<1>29. ASSUME FinalizeEnds PROVE EditKept
  BY <1>29 DEF FinalizeEnds, Loop, Return, CompleteOperation, CompleteMerge, With
<1>30. ASSUME BindPending PROVE EditKept
  BY <1>30 DEF BindPending, Loop, Changes
<1>31. ASSUME BindEnds PROVE EditKept
  BY <1>31 DEF BindEnds, Return, CompleteOperation, CompleteMerge
<1>32. ASSUME BindConfirmed PROVE EditKept
  BY <1>32 DEF BindConfirmed, Return, CompleteOperation, CompleteMerge, Confirmed,
     Changes
<1>33. ASSUME BindRefused PROVE EditKept
  BY <1>33 DEF BindRefused, Return, CompleteOperation, Confirmed
<1>34. ASSUME RestoreWrite PROVE EditKept
  BY <1>34 DEF RestoreWrite
<1>35. ASSUME RestoreObserve PROVE EditKept
  BY <1>35 DEF RestoreObserve, LoopOn, Transition
<1>36. ASSUME RestoreEnds PROVE EditKept
  BY <1>36 DEF RestoreEnds, Return, CompleteOperation, Settled
<1>37. ASSUME Reconcile PROVE EditKept
  BY <1>37 DEF Reconcile, Loop, Files
<1>38. ASSUME Unresolved PROVE EditKept
  BY <1>38 DEF Unresolved, Return, CompleteOperation
<1>39. ASSUME DecideFinish PROVE EditKept
  BY <1>39 DEF DecideFinish, Loop, Inspected, FinishMerge, ProvenApplied, Files
<1>40. ASSUME DecideUnknown PROVE EditKept
  BY <1>40 DEF DecideUnknown, Return, Inspected, ProvenApplied, Files
<1>41. ASSUME DecideBinding PROVE EditKept
  BY <1>41 DEF DecideBinding, Loop, Inspected, ProvenApplied, Files
<1>42. ASSUME DecideRestore PROVE EditKept
  BY <1>42 DEF DecideRestore, Loop, Inspected, FinishMerge, ProvenApplied, Files
<1>43. ASSUME DecideAbort PROVE EditKept
  BY <1>43 DEF DecideAbort, Return, CompleteOperation, Inspected, ProvenApplied, Files
<1>44. ASSUME UndoIntent PROVE EditKept
  BY <1>44 DEF UndoIntent, Loop, CompleteOperation
<1>45. ASSUME UndoRequested PROVE EditKept
  BY <1>45 DEF UndoRequested, Loop, Return, CompleteOperation, With
<1>46. ASSUME UndoDisk PROVE EditKept
  BY <1>46 DEF UndoDisk, Loop
<1>47. ASSUME Abandon PROVE EditKept
  BY <1>47 DEF Abandon, Return
<1>48. ASSUME TurnSettles PROVE EditKept
  BY <1>48 DEF TurnSettles, job
<1>49. ASSUME NEW f \in Disk, EditDisk(f) PROVE EditKept
  BY <1>49 DEF EditDisk, Gated, job
<1>50. ASSUME NEW f \in Surface, EditBuffer(f) PROVE EditKept
  BY <1>50 DEF EditBuffer, job
<1>51. CASE UNCHANGED vars
  BY <1>51 DEF vars, durable, job
<1> HIDE DEF TypeOK, Contents, Paths, Cursor, InBody, EditKept, world
<1>52. ASSUME NEW f \in Disk, DiskStep(f) PROVE EditKept
  BY <1>52, <1>6, <1>7, <1>8, <1>9, <1>10, Zenon DEF DiskStep
<1>53. ASSUME NEW f \in Surface, SurfaceStep(f) PROVE EditKept
  BY <1>53, <1>11, <1>12, <1>13, <1>14, <1>15, <1>16, <1>17, <1>18, Zenon DEF
     SurfaceStep
<1>54. ASSUME HostStep PROVE EditKept
  BY <1>52, <1>53, <1>54, <1>4, <1>5, <1>19, <1>20, <1>21, <1>22, <1>23, <1>24, <1>25,
     <1>26, <1>27, <1>28, <1>29, <1>30, <1>31, <1>32, <1>33, <1>34, <1>35, <1>36, <1>37,
     <1>38, <1>39, <1>40, <1>41, <1>42, <1>43, <1>44, <1>45, <1>46, Zenon DEF HostStep
<1>55. QED
  BY <1>51, <1>54, <1>1, <1>2, <1>3, <1>47, <1>48, <1>49, <1>50, Zenon DEF Next

-----------------------------------------------------------------------------
(***************************************************************************)
(* The inductive invariant holds initially, ...                            *)
(***************************************************************************)
LEMMA InitIInv == Init => IInv
<1> SUFFICES ASSUME Init PROVE IInv
  OBVIOUS
<1> USE PathsAssumption, BoundAssumption DEF Init, Specs
<1>1. TypeOK
  <2>1. abandons \in 0..Abandons
    OBVIOUS
  <2>2. stale \in BOOLEAN
    OBVIOUS
  <2>3. QED
    BY <2>1, <2>2 DEF TypeOK, Paths, Contents, Answers, Stages, Unfinished, DiskPhases,
                      SurfacePhases
<1>2. Cursor /\ Control
  BY DEF Cursor, InBody, Control, Row, RowOfFailed, Goal, Applying, Compensating, Asking, Binding,
         Restoring, Undoing, RolledBackStates, CompleteStates, Unfinished, Paths
<1>3. Progress /\ DiskPhase /\ SurfacePhase
  BY DEF Progress, AppliedPaths, LoopsInside, DiskPhase, SurfacePhase, Applying, Asking, Binding, Undoing,
         CompleteStates, DiskPhases, SurfacePhases, Paths
<1>4. Visited /\ Recorded /\ Whole
  BY DEF Visited, Inspecting, Compensated, Restored, Recorded, Whole, Applying, Compensating, Restoring,
         Asking, Binding, Files
<1>5. RolledBack /\ CompleteIsWhole /\ CheckpointAgrees
  BY DEF RolledBack, CompleteIsWhole, CheckpointAgrees, RolledBackStates, CompleteStates
<1>6. QED
  BY <1>1, <1>2, <1>3, <1>4, <1>5 DEF IInv

(***************************************************************************)
(* ... and every step preserves it.                                        *)
(***************************************************************************)
LEMMA NextIInv == IInv /\ [Next]_vars => IInv'
<1> SUFFICES ASSUME IInv, [Next]_vars PROVE IInv'
  OBVIOUS
<1> USE DEF IInv
<1>1. TypeOK' /\ Cursor' BY TypeStep, CursorStep
<1>2. Control' /\ Progress' BY ControlStep, ProgressStep
<1>3. DiskPhase' /\ SurfacePhase' BY DiskPhaseStep, SurfacePhaseStep
<1>4. Visited' BY VisitedStep
<1>5. Recorded' /\ Whole' BY RecordedStep, WholeStep
<1>6. RolledBack' /\ CompleteIsWhole' /\ CheckpointAgrees'
  BY RolledBackStep, WholeStaysStep, CheckpointStep
<1>7. QED BY <1>1, <1>2, <1>3, <1>4, <1>5, <1>6

THEOREM Invariance == Spec => []IInv
BY InitIInv, NextIInv, PTL DEF Spec

(***************************************************************************)
(* Every reachable state of the operation is well typed.                   *)
(***************************************************************************)
THEOREM TypeCorrect == Spec => []TypeOK
<1>1. IInv => TypeOK BY DEF IInv
<1>2. QED BY <1>1, Invariance, PTL

(***************************************************************************)
(* For any paths and however often the Host dies, an operation that ended  *)
(* aborted, compensated or undone leaves target content on disk only where *)
(* the phase says that a compensation was cut off or needs attention.      *)
(***************************************************************************)
THEOREM RollbackCorrect == Spec => []RolledBack
<1>1. IInv => RolledBack BY DEF IInv
<1>2. QED BY <1>1, Invariance, PTL

(***************************************************************************)
(* A merge whose row says complete is whole on disk and in the editor,     *)
(* apart from paths somebody else edited.                                  *)
(***************************************************************************)
THEOREM CompleteCorrect == Spec => []CompleteIsWhole
<1>1. IInv => CompleteIsWhole BY DEF IInv
<1>2. QED BY <1>1, Invariance, PTL

(***************************************************************************)
(* The row of the operation never contradicts the checkpoint of the parent *)
(* turn: a bound merge is complete only with every file it wrote recorded, *)
(* and what is recorded is not compensated, wherever the turn settles or   *)
(* the Host dies between the records.                                      *)
(***************************************************************************)
THEOREM CheckpointCorrect == Spec => []CheckpointAgrees
<1>1. IInv => CheckpointAgrees BY DEF IInv
<1>2. QED BY <1>1, Invariance, PTL

(***************************************************************************)
(* Applying, undoing and reconciling never write over somebody else's edit *)
(* of a disk path.                                                         *)
(***************************************************************************)
THEOREM EditsKeptCorrect == Spec => EditsKept
<1>1. IInv /\ [Next]_vars => [EditKept]_vars
  BY EditKeptStep DEF IInv
<1>2. QED
  BY <1>1, Invariance, PTL DEF Spec, EditsKept, EditKept

===============================================================================
