------------------------- MODULE DurableIntegration -------------------------
(***************************************************************************)
(* One integration operation of the recovery service: the result of an     *)
(* agent thread is merged into the parent workspace.  Disk paths are       *)
(* written by the Host, paths open in an editor by the editor's surface.   *)
(* The operation row and one phase per path are kept by the Rust kernel    *)
(* and survive the Host; everything else is lost when the Host dies or a   *)
(* call is abandoned by an exception, and reconciliation decides from the  *)
(* row, the phases and the files what became of the operation.             *)
(*                                                                         *)
(* A content is "safety" (captured before the first write), "target" (what *)
(* the integration writes) or "other" (somebody else's edit).  All calls   *)
(* run one after the other under the exclusive lease of the workspace.     *)
(***************************************************************************)
EXTENDS FiniteSets, Naturals

CONSTANTS
    Disk,      \* paths of spec.targets, written by the Host
    Surface,   \* paths that may be open in an editor
    Abandons,  \* bound on crashes and propagated exceptions
    Edits,     \* bound on paths that somebody else edits
    None       \* no path

Paths == Disk \cup Surface

ASSUME PathsAssumption == Disk \cap Surface = {} /\ None \notin Paths
ASSUME BoundAssumption == Abandons \in Nat /\ Edits \in Nat

VARIABLES
    spec,       \* external: paths of externalTargets; bound: requireTurnBinding
    disk,       \* content of each disk path
    buffer,     \* content of each editor buffer
    op,         \* the operation row: state and appliedPaths of its result
    phase,      \* phase of each path in recovery_operation_files
    turn,       \* status of the parent turn
    recorded,   \* paths whose change the turn's checkpoint contains
    touched,    \* paths edited by somebody else since the operation began
    abandons,   \* crashes and propagated exceptions so far
    pc,         \* where the running call is; "idle": no call
    todo,       \* paths the current loop has still to visit
    cur,        \* path inside the loop body, or None
    applied,    \* data.appliedPaths of the running call
    attention,  \* data.needsAttentionPaths; unknown paths while inspecting
    goal,       \* state the compensation of recorded paths ends in
    results,    \* what the editor answered for each surface path
    stale       \* the revision the call holds of the row is out of date

durable == <<spec, disk, buffer, op, phase, turn, recorded, touched, abandons>>
job == <<pc, todo, cur, applied, attention, goal, results, stale>>
vars == <<durable, job>>
world == <<turn, touched, abandons, spec>>

Files == Disk \cup spec.external

Contents == {"safety", "target", "other"}
DiskPhases == {"apply-intent", "target-observed", "compensate-intent", "safety-observed"}
SurfacePhases == {"external-intent", "external-dispatched", "external-target-observed",
                  "external-compensate-intent", "external-safety-observed"}
RolledBackStates == {"aborted", "compensated", "undone"}
CompleteStates == {"complete", "conflict"}
Terminal == RolledBackStates \cup CompleteStates \cup {"needs-attention"}
Unfinished == {"applying", "awaiting-surface", "awaiting-turn-binding", "undoing"}
Answers == {"none", "applied", "unchanged", "needs-attention"}
Stages == {"idle", "intent", "apply", "write", "observe", "compensate", "compWrite",
           "compObserve", "dispatch", "request", "revert", "finalize", "bind",
           "rebind", "record", "restore", "restoreWrite", "restoreObserve", "inspect",
           "undoMark", "undoRequest", "undoFinish"}

Specs == [external: SUBSET Surface, bound: BOOLEAN]

TypeOK ==
    /\ spec \in Specs
    /\ disk \in [Disk -> Contents]
    /\ buffer \in [Surface -> Contents]
    /\ op \in [state: {"none"} \cup Unfinished \cup Terminal, applied: SUBSET Paths]
    /\ phase \in [Paths -> {"pending", "needs-attention"} \cup DiskPhases \cup SurfacePhases]
    /\ turn \in {"pending", "ready", "incomplete"}
    /\ recorded \subseteq Paths
    /\ touched \subseteq Paths
    /\ abandons \in 0..Abandons
    /\ pc \in Stages
    /\ todo \subseteq Paths
    /\ cur \in Disk \cup {None}
    /\ applied \subseteq Paths
    /\ attention \subseteq Paths
    /\ goal \in {"compensated", "undone"}
    /\ results \in [Surface -> Answers]
    /\ stale \in BOOLEAN

Init ==
    /\ spec \in Specs
    /\ disk = [f \in Disk |-> "safety"]
    /\ buffer = [f \in Surface |-> "safety"]
    /\ op = [state |-> "none", applied |-> {}]
    /\ phase = [f \in Paths |-> "pending"]
    /\ turn = "pending"
    /\ recorded = {}
    /\ touched = {}
    /\ abandons = 0
    /\ pc = "idle"
    /\ todo = {}
    /\ cur = None
    /\ applied = {}
    /\ attention = {}
    /\ goal = "compensated"
    /\ results = [f \in Surface |-> "none"]
    /\ stale = FALSE

-----------------------------------------------------------------------------
(* The kernel port.                                                        *)

\* completeOperation: the new state and the data of the call in one write.
CompleteOperation(state) == op' = [state |-> state, applied |-> applied]

\* updateOperationFile.
Transition(f, p) == phase' = [phase EXCEPT ![f] = p]

\* The call returns, or throws to its caller.
Return ==
    /\ pc' = "idle"
    /\ todo' = {}
    /\ cur' = None
    /\ applied' = {}
    /\ attention' = {}
    /\ goal' = "compensated"
    /\ results' = [f \in Surface |-> "none"]
    /\ stale' = FALSE

\* The loop over S begins.
Loop(stage, S) == pc' = stage /\ todo' = S /\ cur' = None

\* The loop goes on after f.
LoopOn(stage, f) == pc' = stage /\ todo' = todo \ {f} /\ cur' = None

\* completeOperation with the final state: "conflict" when other paths of the
\* result were in conflict and not merged.
CompleteMerge == CompleteOperation("complete") \/ CompleteOperation("conflict")

-----------------------------------------------------------------------------
(* applyDurableFileOperation.                                              *)

\* The current contents are captured; on drift, or without a pending parent
\* turn, the call returns before anything is written.
Begin ==
    /\ pc = "idle"
    /\ op.state = "none" /\ Files # {}
    /\ \A f \in Disk : disk[f] = "safety"
    /\ spec.bound => turn = "pending"
    /\ op' = [state |-> "applying", applied |-> {}]
    /\ Loop("intent", Files)
    /\ UNCHANGED <<disk, buffer, phase, recorded, applied, attention, goal, results, stale, world>>

RecordIntent(f) ==
    /\ pc = "intent"
    /\ f \in todo
    /\ Transition(f, IF f \in Surface THEN "external-intent" ELSE "apply-intent")
    /\ IF todo = {f} THEN Loop("apply", Disk)
                     ELSE todo' = todo \ {f} /\ UNCHANGED <<pc, cur>>
    /\ UNCHANGED <<disk, buffer, op, recorded, applied, attention, goal, results, stale, world>>

\* Under the resource gate of f: only a path that still holds its safety
\* content is written.  Any failure turns to compensateKernel.
ApplyCheck_Blind(f) ==
    /\ pc = "apply"
    /\ f \in todo
    /\ pc' = "write" /\ cur' = f /\ UNCHANGED todo
    /\ UNCHANGED <<disk, buffer, op, phase, recorded, applied, attention, goal, results, stale, world>>

ApplyCheck(f) ==
    /\ pc = "apply"
    /\ f \in todo
    /\ IF disk[f] = "safety"
       THEN pc' = "write" /\ cur' = f /\ UNCHANGED todo
       ELSE Loop("compensate", Disk)
    /\ UNCHANGED <<disk, buffer, op, phase, recorded, applied, attention, goal, results, stale, world>>

ApplyWrite ==
    /\ pc = "write"
    /\ disk' = [disk EXCEPT ![cur] = "target"]
    /\ pc' = "observe"
    /\ UNCHANGED <<buffer, op, phase, recorded, todo, cur, applied, attention, goal, results, stale, world>>

\* The capture, applyState, the check of its result or the transition throws.
ApplyFails ==
    /\ \/ pc = "apply" /\ todo # {}
       \/ pc \in {"write", "observe"}
    /\ Loop("compensate", Disk)
    /\ UNCHANGED <<disk, buffer, op, phase, recorded, applied, attention, goal, results, stale, world>>

ApplyObserve ==
    /\ pc = "observe"
    /\ Transition(cur, "target-observed")
    /\ applied' = applied \cup {cur}
    /\ LoopOn("apply", cur)
    /\ UNCHANGED <<disk, buffer, op, recorded, attention, goal, results, stale, world>>

\* persistTerminalOrCompensate.
CommitApplied ==
    /\ pc = "apply" /\ todo = {}
    /\ \/ /\ spec.external # {}
          /\ CompleteOperation("awaiting-surface")
          /\ Loop("dispatch", spec.external)
          /\ UNCHANGED <<applied, attention, goal, results, stale>>
       \/ /\ spec.external = {} /\ spec.bound
          /\ CompleteOperation("awaiting-turn-binding")
          /\ Loop("bind", {})
          /\ UNCHANGED <<applied, attention, goal, results, stale>>
       \/ /\ spec.external = {} /\ ~spec.bound
          /\ CompleteMerge
          /\ Return
    /\ UNCHANGED <<disk, buffer, phase, recorded, world>>

\* completeOperation throws: it was refused, or it took effect and only its
\* answer was lost.
CommitFails ==
    /\ pc = "apply" /\ todo = {}
    /\ \/ spec.external # {}
       \/ ~spec.bound
    /\ Loop("compensate", Disk)
    /\ \/ UNCHANGED <<op, stale>>
       \/ /\ IF spec.external # {} THEN CompleteOperation("awaiting-surface") ELSE CompleteMerge
          /\ stale' = TRUE
    /\ UNCHANGED <<disk, buffer, phase, recorded, applied, attention, goal, results, world>>

-----------------------------------------------------------------------------
(* compensateKernel: the compensation by the call itself.  It does not take *)
(* the resource gate, and a failure on one path does not stop the others.   *)

CompensateCheck(f) ==
    /\ pc = "compensate"
    /\ f \in todo
    /\ \/ /\ disk[f] = "safety"
          /\ LoopOn("compensate", f)
          /\ UNCHANGED <<phase, attention>>
       \/ /\ disk[f] = "other"
          /\ Transition(f, "needs-attention")
          /\ attention' = attention \cup {f}
          /\ LoopOn("compensate", f)
       \/ /\ disk[f] = "target"
          /\ Transition(f, "compensate-intent")
          /\ pc' = "compWrite" /\ cur' = f
          /\ UNCHANGED <<todo, attention>>
    /\ UNCHANGED <<disk, buffer, op, recorded, applied, goal, results, stale, world>>

CompensateWrite ==
    /\ pc = "compWrite"
    /\ disk' = [disk EXCEPT ![cur] = "safety"]
    /\ pc' = "compObserve"
    /\ UNCHANGED <<buffer, op, phase, recorded, todo, cur, applied, attention, goal, results, stale, world>>

\* The capture, a transition or the write throws, or the file does not hold
\* what was written; the transition to needs-attention may fail as well.
CompensateFails(f) ==
    /\ \/ pc = "compensate" /\ f \in todo
       \/ pc \in {"compWrite", "compObserve"} /\ f = cur
    /\ Transition(f, "needs-attention") \/ UNCHANGED phase
    /\ attention' = attention \cup {f}
    /\ LoopOn("compensate", f)
    /\ UNCHANGED <<disk, buffer, op, recorded, applied, goal, results, stale, world>>

CompensateObserve ==
    /\ pc = "compObserve"
    /\ disk[cur] = "safety"
    /\ Transition(cur, "safety-observed")
    /\ LoopOn("compensate", cur)
    /\ UNCHANGED <<disk, buffer, op, recorded, applied, attention, goal, results, stale, world>>

\* The state a compensation ends in.
Settled(state) == IF attention # {} THEN "needs-attention" ELSE state

\* A stale revision is refused; the call throws and leaves the row.
CompensateEnds ==
    /\ pc = "compensate"
    /\ todo = {}
    /\ IF stale THEN UNCHANGED op ELSE CompleteOperation(Settled("compensated"))
    /\ Return
    /\ UNCHANGED <<disk, buffer, phase, recorded, world>>

-----------------------------------------------------------------------------
(* The editor's part: markDurableExternalDispatched, the requests of       *)
(* mergeResult and finalizeDurableExternalOperation.                       *)

Dispatch_Misnamed(f) ==
    /\ pc = "dispatch"
    /\ f \in todo
    /\ Transition(f, "dispatched")
    /\ IF todo = {f} THEN Loop("request", spec.external)
                     ELSE todo' = todo \ {f} /\ UNCHANGED <<pc, cur>>
    /\ UNCHANGED <<disk, buffer, op, recorded, applied, attention, goal, results, stale, world>>

Dispatch(f) ==
    /\ pc = "dispatch"
    /\ f \in todo
    /\ Transition(f, "external-dispatched")
    /\ IF todo = {f} THEN Loop("request", spec.external)
                     ELSE todo' = todo \ {f} /\ UNCHANGED <<pc, cur>>
    /\ UNCHANGED <<disk, buffer, op, recorded, applied, attention, goal, results, stale, world>>

\* What the editor may do with a request that moves f from one content to
\* another, and what the Host learns of it: success, a proved refusal, or
\* nothing certain (no answer, or an answer that does not match).
Edited(f, from, to, success, refusal) ==
    \/ /\ buffer[f] = from
       /\ buffer' = [buffer EXCEPT ![f] = to]
       /\ results' = [results EXCEPT ![f] = success]
    \/ /\ buffer[f] = from
       /\ UNCHANGED buffer
       /\ results' = [results EXCEPT ![f] = refusal]
    \/ /\ buffer' \in {buffer, [buffer EXCEPT ![f] = IF @ = from THEN to ELSE @]}
       /\ results' = [results EXCEPT ![f] = "needs-attention"]

RequestApply(f) ==
    /\ pc = "request"
    /\ f \in todo
    /\ Edited(f, "safety", "target", "applied", "unchanged")
    /\ todo' = todo \ {f}
    /\ UNCHANGED <<disk, op, phase, recorded, pc, cur, applied, attention, goal, stale, world>>

With(answer) == {f \in spec.external : results[f] = answer}

\* A group that was not applied as a whole is undone in the editor.
Requested ==
    /\ pc = "request"
    /\ todo = {}
    /\ IF With("applied") \in {{}, spec.external} THEN Loop("finalize", spec.external)
                                                  ELSE Loop("revert", With("applied"))
    /\ UNCHANGED <<disk, buffer, op, phase, recorded, applied, attention, goal, results, stale, world>>

RequestRevert(f) ==
    /\ pc = "revert"
    /\ f \in todo
    /\ Edited(f, "target", "safety", "unchanged", "needs-attention")
    /\ todo' = todo \ {f}
    /\ UNCHANGED <<disk, op, phase, recorded, pc, cur, applied, attention, goal, stale, world>>

Reverted ==
    /\ pc = "revert"
    /\ todo = {}
    /\ Loop("finalize", spec.external)
    /\ UNCHANGED <<disk, buffer, op, phase, recorded, applied, attention, goal, results, stale, world>>

FinalizePath(f) ==
    /\ pc = "finalize"
    /\ f \in todo
    /\ Transition(f, IF results[f] = "applied" THEN "external-target-observed"
                     ELSE IF results[f] = "unchanged" THEN "external-safety-observed"
                     ELSE "needs-attention")
    /\ applied' = IF results[f] = "applied" THEN applied \cup {f} ELSE applied
    /\ attention' = IF results[f] = "needs-attention" THEN attention \cup {f} ELSE attention
    /\ todo' = todo \ {f}
    /\ UNCHANGED <<disk, buffer, op, recorded, pc, cur, goal, results, stale, world>>

FinalizeEnds ==
    /\ pc = "finalize"
    /\ todo = {}
    /\ \/ /\ With("applied") = spec.external /\ spec.bound
          /\ CompleteOperation("awaiting-turn-binding")
          /\ Loop("bind", {})
          /\ UNCHANGED <<applied, attention, goal, results, stale>>
       \/ /\ With("applied") = spec.external /\ ~spec.bound
          /\ CompleteMerge
          /\ Return
       \/ /\ With("unchanged") = spec.external
          /\ Loop("restore", applied \cap Disk)
          /\ UNCHANGED <<op, applied, attention, goal, results, stale>>
       \/ /\ spec.external \notin {With("applied"), With("unchanged")}
          /\ CompleteOperation("needs-attention")
          /\ Return
    /\ UNCHANGED <<disk, buffer, phase, recorded, world>>

-----------------------------------------------------------------------------
(* bindIntegrationTurn and recordIntegrationChanges: a turn that is pending *)
(* takes the changes path by path; one that is ready only confirms what it  *)
(* has.  The status is read once, before the first path.  "rebind": called  *)
(* while reconciling.                                                       *)

\* integrationTurnChanges.  The parent state of a path in an editor is that of
\* its file, which the merge does not change: only disk paths are recorded.
Changes(S) == S \cap Disk

BindPending ==
    /\ pc \in {"bind", "rebind"}
    /\ turn = "pending"
    /\ Loop("record", Changes(applied))
    /\ UNCHANGED <<disk, buffer, op, phase, recorded, applied, attention, goal, results, stale, world>>

BindRecord(f) ==
    /\ pc = "record"
    /\ f \in todo
    /\ recorded' = recorded \cup {f}
    /\ todo' = todo \ {f}
    /\ UNCHANGED <<disk, buffer, op, phase, pc, cur, applied, attention, goal, results, stale, world>>

BindEnds_Early ==
    /\ pc = "record"
    /\ CompleteMerge
    /\ Return
    /\ UNCHANGED <<disk, buffer, phase, recorded, world>>

BindEnds ==
    /\ pc = "record"
    /\ todo = {}
    /\ CompleteMerge
    /\ Return
    /\ UNCHANGED <<disk, buffer, phase, recorded, world>>

Confirmed == turn = "ready" /\ Changes(applied) \subseteq recorded

BindConfirmed ==
    /\ pc \in {"bind", "rebind"}
    /\ Confirmed
    /\ CompleteMerge
    /\ Return
    /\ UNCHANGED <<disk, buffer, phase, recorded, world>>

\* The turn settled without the changes.  The merge throws and leaves the
\* row; reconciliation asks for attention.
BindRefused ==
    /\ pc \in {"bind", "rebind"}
    /\ turn # "pending" /\ ~Confirmed
    /\ IF pc = "rebind" THEN CompleteOperation("needs-attention") ELSE UNCHANGED op
    /\ Return
    /\ UNCHANGED <<disk, buffer, phase, recorded, world>>

-----------------------------------------------------------------------------
(* kernelCompensateDisk: the compensation from the operation row, each path *)
(* under its resource gate.                                                 *)

RestoreCheck(f) ==
    /\ pc = "restore"
    /\ f \in todo
    /\ \/ /\ disk[f] = "safety"
          /\ Transition(f, "safety-observed")
          /\ LoopOn("restore", f)
          /\ UNCHANGED attention
       \/ /\ disk[f] = "other"
          /\ Transition(f, "needs-attention")
          /\ attention' = attention \cup {f}
          /\ LoopOn("restore", f)
       \/ /\ disk[f] = "target"
          /\ Transition(f, "compensate-intent")
          /\ pc' = "restoreWrite" /\ cur' = f
          /\ UNCHANGED <<todo, attention>>
    /\ UNCHANGED <<disk, buffer, op, recorded, applied, goal, results, stale, world>>

RestoreWrite ==
    /\ pc = "restoreWrite"
    /\ disk' = [disk EXCEPT ![cur] = "safety"]
    /\ pc' = "restoreObserve"
    /\ UNCHANGED <<buffer, op, phase, recorded, todo, cur, applied, attention, goal, results, stale, world>>

RestoreObserve ==
    /\ pc = "restoreObserve"
    /\ Transition(cur, "safety-observed")
    /\ LoopOn("restore", cur)
    /\ UNCHANGED <<disk, buffer, op, recorded, applied, attention, goal, results, stale, world>>

RestoreEnds ==
    /\ pc = "restore"
    /\ todo = {}
    /\ CompleteOperation(Settled(goal))
    /\ Return
    /\ UNCHANGED <<disk, buffer, phase, recorded, world>>

-----------------------------------------------------------------------------
(* reconcileInterruptedIntegrationOperations: at start, and before every    *)
(* later merge or undo.                                                     *)

Reconcile_NoUndo ==
    /\ pc = "idle"
    /\ op.state \in Unfinished \ {"undoing"}
    /\ Loop("inspect", Files)
    /\ applied' = op.applied
    /\ goal' = "compensated"
    /\ UNCHANGED <<disk, buffer, op, phase, recorded, attention, results, stale, world>>

Reconcile ==
    /\ pc = "idle"
    /\ op.state \in Unfinished
    /\ Loop("inspect", Files)
    /\ applied' = op.applied
    /\ goal' = IF op.state = "undoing" THEN "undone" ELSE "compensated"
    /\ UNCHANGED <<disk, buffer, op, phase, recorded, attention, results, stale, world>>

\* The parent is a materialized directory and resolvePersistedApplyContext
\* finds no context for it.
Unresolved ==
    /\ pc = "inspect" /\ todo = Files
    /\ CompleteOperation("needs-attention")
    /\ Return
    /\ UNCHANGED <<disk, buffer, phase, recorded, world>>

\* An editor's path is proved by its phase only.
InspectSurface(f) ==
    /\ pc = "inspect"
    /\ f \in todo \cap Surface
    /\ IF phase[f] = (IF op.state = "awaiting-turn-binding" THEN "external-target-observed"
                                                           ELSE "external-safety-observed")
       THEN UNCHANGED <<phase, attention>>
       ELSE Transition(f, "needs-attention") /\ attention' = attention \cup {f}
    /\ todo' = todo \ {f}
    /\ UNCHANGED <<disk, buffer, op, recorded, pc, cur, applied, goal, results, stale, world>>

\* A disk path is proved by its content.
InspectDisk_Trusting(f) ==
    /\ pc = "inspect"
    /\ f \in todo \cap Disk
    /\ IF phase[f] = "apply-intent" THEN Transition(f, "safety-observed") ELSE UNCHANGED phase
    /\ todo' = todo \ {f}
    /\ UNCHANGED <<disk, buffer, op, recorded, pc, cur, applied, attention, goal, results, stale, world>>

InspectDisk(f) ==
    /\ pc = "inspect"
    /\ f \in todo \cap Disk
    /\ \/ /\ disk[f] = "target" /\ phase[f] = "apply-intent"
          /\ Transition(f, "target-observed")
          /\ UNCHANGED attention
       \/ /\ disk[f] = "safety"
          /\ phase[f] \in {"apply-intent", "target-observed", "compensate-intent"}
          /\ Transition(f, "safety-observed")
          /\ UNCHANGED attention
       \/ /\ disk[f] = "other"
          /\ Transition(f, "needs-attention")
          /\ attention' = attention \cup {f}
       \/ /\ \/ disk[f] = "target" /\ phase[f] # "apply-intent"
             \/ disk[f] = "safety" /\ phase[f] \notin
                  {"apply-intent", "target-observed", "compensate-intent"}
          /\ UNCHANGED <<phase, attention>>
    /\ todo' = todo \ {f}
    /\ UNCHANGED <<disk, buffer, op, recorded, pc, cur, applied, goal, results, stale, world>>

ProvenApplied == {f \in Files : phase[f] \in {"target-observed", "external-target-observed"}}

\* Every path is proved and the parent turn is still open: finish the merge.
\* (A bound merge began with a turn, and nothing deletes turns: the branch for
\* a turn that is not found is never taken.)
Inspected == pc = "inspect" /\ todo = {}
FinishMerge_Some ==
    /\ attention = {} /\ spec.bound /\ op.state # "awaiting-turn-binding"
    /\ ProvenApplied # {} /\ turn = "pending"

FinishMerge ==
    /\ attention = {} /\ spec.bound /\ op.state # "awaiting-turn-binding"
    /\ ProvenApplied = Files /\ turn = "pending"

DecideFinish ==
    /\ Inspected
    /\ FinishMerge
    /\ op' = [state |-> "awaiting-turn-binding", applied |-> Files]
    /\ applied' = Files
    /\ Loop("rebind", {})
    /\ UNCHANGED <<disk, buffer, phase, recorded, attention, goal, results, stale, world>>

DecideUnknown ==
    /\ Inspected
    /\ attention # {}
    /\ op' = [state |-> "needs-attention", applied |-> applied \cup ProvenApplied]
    /\ Return
    /\ UNCHANGED <<disk, buffer, phase, recorded, world>>

DecideBinding ==
    /\ Inspected
    /\ attention = {} /\ op.state = "awaiting-turn-binding"
    /\ applied' = applied \cup ProvenApplied
    /\ Loop("rebind", {})
    /\ UNCHANGED <<disk, buffer, op, phase, recorded, attention, goal, results, stale, world>>

DecideRestore ==
    /\ Inspected
    /\ attention = {} /\ op.state # "awaiting-turn-binding" /\ ~FinishMerge
    /\ op.state = "undoing" \/ ProvenApplied # {}
    /\ applied' = applied \cup ProvenApplied
    /\ Loop("restore", (applied \cup ProvenApplied) \cap Disk)
    /\ UNCHANGED <<disk, buffer, op, phase, recorded, attention, goal, results, stale, world>>

DecideAbort ==
    /\ Inspected
    /\ attention = {} /\ op.state \in {"applying", "awaiting-surface"}
    /\ ProvenApplied = {}
    /\ CompleteOperation("aborted")
    /\ Return
    /\ UNCHANGED <<disk, buffer, phase, recorded, world>>

-----------------------------------------------------------------------------
(* undoIntegration of an operation on disk and editor paths.               *)

UndoBegin ==
    /\ pc = "idle"
    /\ op.state \in CompleteStates
    /\ applied' = op.applied
    /\ goal' = "undone"
    /\ Loop("undoMark", spec.external)
    /\ UNCHANGED <<disk, buffer, op, phase, recorded, attention, results, stale, world>>

\* The directory the operation was applied to cannot be resolved any more.
UndoUnresolved ==
    /\ pc = "idle"
    /\ op.state \in CompleteStates
    /\ phase' = [f \in Paths |-> IF f \in op.applied THEN "needs-attention" ELSE phase[f]]
    /\ op' = [op EXCEPT !.state = "needs-attention"]
    /\ UNCHANGED <<disk, buffer, recorded, world, job>>

UndoMark(f) ==
    /\ pc = "undoMark"
    /\ f \in todo
    /\ Transition(f, "external-compensate-intent")
    /\ todo' = todo \ {f}
    /\ UNCHANGED <<disk, buffer, op, recorded, pc, cur, applied, attention, goal, results, stale, world>>

\* The undo intent is in the row before a buffer or a file is touched.
UndoIntent ==
    /\ pc = "undoMark"
    /\ todo = {}
    /\ CompleteOperation("undoing")
    /\ Loop("undoRequest", spec.external)
    /\ UNCHANGED <<disk, buffer, phase, recorded, applied, attention, goal, results, stale, world>>

RequestUndo(f) ==
    /\ pc = "undoRequest"
    /\ f \in todo
    /\ Edited(f, "target", "safety", "unchanged", "needs-attention")
    /\ todo' = todo \ {f}
    /\ UNCHANGED <<disk, op, phase, recorded, pc, cur, applied, attention, goal, stale, world>>

UndoRequested ==
    /\ pc = "undoRequest"
    /\ todo = {}
    /\ \/ /\ With("unchanged") = spec.external
          /\ Loop("undoFinish", spec.external)
          /\ UNCHANGED <<op, phase, applied, attention, goal, results, stale>>
       \/ /\ With("unchanged") # spec.external
          /\ phase' = [f \in Paths |-> IF f \in spec.external \ With("unchanged")
                                       THEN "needs-attention" ELSE phase[f]]
          /\ CompleteOperation("needs-attention")
          /\ Return
    /\ UNCHANGED <<disk, buffer, recorded, world>>

UndoSurface(f) ==
    /\ pc = "undoFinish"
    /\ f \in todo
    /\ Transition(f, "external-safety-observed")
    /\ todo' = todo \ {f}
    /\ UNCHANGED <<disk, buffer, op, recorded, pc, cur, applied, attention, goal, results, stale, world>>

UndoDisk ==
    /\ pc = "undoFinish"
    /\ todo = {}
    /\ Loop("restore", applied \cap Disk)
    /\ UNCHANGED <<disk, buffer, op, phase, recorded, applied, attention, goal, results, stale, world>>

-----------------------------------------------------------------------------
(* Around the Host.                                                        *)

\* The Host dies, or an exception leaves the call.
Abandon ==
    /\ pc # "idle"
    /\ abandons < Abandons
    /\ abandons' = abandons + 1
    /\ Return
    /\ UNCHANGED <<spec, disk, buffer, op, phase, turn, recorded, touched>>

\* Another writer of the Host; it waits for the resource gate of the path.
\* Processes outside the Host take no gate and are not modelled.
Gated(f) == cur = f /\ pc \in {"write", "observe", "restoreWrite", "restoreObserve"}

EditDisk(f) ==
    /\ op.state # "none" /\ f \notin touched /\ ~Gated(f) /\ Cardinality(touched) < Edits
    /\ disk' = [disk EXCEPT ![f] = "other"]
    /\ touched' = touched \cup {f}
    /\ UNCHANGED <<spec, buffer, op, phase, turn, recorded, abandons, job>>

EditBuffer(f) ==
    /\ op.state # "none" /\ f \in spec.external \ touched /\ Cardinality(touched) < Edits
    /\ buffer' = [buffer EXCEPT ![f] = "other"]
    /\ touched' = touched \cup {f}
    /\ UNCHANGED <<spec, disk, op, phase, turn, recorded, abandons, job>>

\* The parent turn, if there is one, ends.
TurnSettles ==
    /\ spec.bound /\ turn = "pending"
    /\ turn' \in {"ready", "incomplete"}
    /\ UNCHANGED <<spec, disk, buffer, op, phase, recorded, touched, abandons, job>>

DiskStep(f) ==
    ApplyCheck(f) \/ CompensateCheck(f) \/ CompensateFails(f) \/ RestoreCheck(f) \/ InspectDisk(f)

SurfaceStep(f) ==
    \/ Dispatch(f) \/ RequestApply(f) \/ RequestRevert(f) \/ FinalizePath(f)
    \/ InspectSurface(f) \/ UndoMark(f) \/ RequestUndo(f) \/ UndoSurface(f)

\* A step of the running call, or the next reconciliation.
HostStep ==
    \/ \E f \in Files : RecordIntent(f) \/ BindRecord(f)
    \/ \E f \in Disk : DiskStep(f)
    \/ \E f \in Surface : SurfaceStep(f)
    \/ ApplyWrite \/ ApplyFails \/ ApplyObserve \/ CommitApplied \/ CommitFails
    \/ CompensateWrite \/ CompensateObserve \/ CompensateEnds
    \/ Requested \/ Reverted \/ FinalizeEnds
    \/ BindPending \/ BindEnds \/ BindConfirmed \/ BindRefused
    \/ RestoreWrite \/ RestoreObserve \/ RestoreEnds
    \/ Reconcile \/ Unresolved
    \/ DecideFinish \/ DecideUnknown \/ DecideBinding \/ DecideRestore \/ DecideAbort
    \/ UndoIntent \/ UndoRequested \/ UndoDisk

Next ==
    \/ Begin \/ UndoBegin \/ UndoUnresolved \/ HostStep \/ Abandon \/ TurnSettles
    \/ \E f \in Disk : EditDisk(f)
    \/ \E f \in Surface : EditBuffer(f)

Spec == Init /\ [][Next]_vars
FairSpec == Spec /\ WF_vars(HostStep)

-----------------------------------------------------------------------------
(* Properties.                                                             *)

\* An operation that ended rolled back leaves none of its content on disk,
\* whatever was interrupted and however often: "conditional apply/compensation
\* phases".  The exception is a path whose compensation had begun and was cut
\* off before the row was settled; its phase says so (see RolledBackClean).
RolledBack ==
    op.state \in RolledBackStates =>
        \A f \in Disk : disk[f] = "target" => phase[f] \in {"compensate-intent", "needs-attention"}

\* Startup "compares on-disk state against target/safety before deciding to
\* abort or compensate": a rolled back operation has left no target content.
RolledBackClean ==
    op.state \in RolledBackStates => \A f \in Disk : disk[f] # "target"

\* A merge reported complete is whole: every path holds its target unless
\* somebody changed it, across failures, compensation and reconciliation.  The
\* exception is a merge that only touches the disk and needs no parent turn:
\* when the answer of its terminal commit is lost, it is compensated.
CompleteIsWhole ==
    op.state \in CompleteStates /\ (spec.bound \/ spec.external # {}) =>
        /\ \A f \in Disk \ touched : disk[f] = "target"
        /\ \A f \in spec.external \ touched : buffer[f] = "target"

\* The checkpoint of the parent turn and the operation agree: a bound merge
\* completes only with every file it wrote recorded, though the turn may settle
\* or the Host die between two records, and a recorded change is never
\* compensated ("would contradict the already durable checkpoint change").
CheckpointAgrees ==
    /\ spec.bound /\ op.state \in CompleteStates => recorded = Disk
    /\ recorded # {} => op.state \notin {"compensated", "aborted", "applying"}

\* Applying, undoing and reconciling never write over somebody else's edit of
\* a disk path; only the ungated compensation inside a failed merge may.
EditsKept ==
    [][\A f \in Disk : disk[f] = "other" /\ disk'[f] # "other" => pc = "compWrite"]_vars

\* No operation stays unfinished for ever, however often it is interrupted.
EveryOperationSettles == op.state \in Unfinished ~> op.state \in Terminal
=============================================================================
