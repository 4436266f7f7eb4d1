------------------------- MODULE ExecutionAdmission -------------------------
(***************************************************************************)
(* The execution-admission protocol of PiRuntimeBroker                     *)
(* (packages/runtime-broker/src/runtime-broker.ts), for one worker client. *)
(*                                                                         *)
(* Every request that may write the workspace runs inside an admission:    *)
(* an object in the map #sessionExecutionAdmissions, keyed by the worker,  *)
(* that holds a lease obtained from the Application Host.  Requests of the *)
(* same phase share the admission and are counted in `holders'; requests   *)
(* of another phase wait until it is done.  The lease is closed when the   *)
(* last holder has finished and no agent run is in progress, or by force   *)
(* when the worker goes away or the broker is disposed.                    *)
(*                                                                         *)
(* The map is keyed by the worker and no operation relates the entries of  *)
(* two workers, so one worker is modelled.  Each `await' of the code is a  *)
(* control point in pc; between two of them a request runs atomically.     *)
(***************************************************************************)
EXTENDS Naturals, FiniteSets

CONSTANTS
    Prompts,     \* calls of agent.prompt
    Steers,      \* calls of agent.steer and agent.followUp
    Commands,    \* calls of command.execute, agent.compact, fleet.action
    Mutations,   \* calls of recovery.*, project-scoped config and resources
    start,       \* the createSession or openSession that spawned the worker
    Admissions,  \* identities of admission objects; bounds how many are made
    None         \* "no admission"

AgentRuns == Prompts \cup Steers \cup Commands
Requests  == AgentRuns \cup Mutations \cup {start}

ASSUME RequestsAssumption ==
    /\ IsFiniteSet(Requests)
    /\ Prompts \cap (Steers \cup Commands) = {}
    /\ Steers \cap Commands = {}
    /\ AgentRuns \cap Mutations = {}
    /\ start \notin AgentRuns \cup Mutations
ASSUME NoneAssumption == None \notin Admissions

VARIABLES
    adm,       \* the admission objects
    current,   \* the worker's entry in #sessionExecutionAdmissions
    pc,        \* where each request is
    on,        \* the admission a request is waiting for or holds
    worker,    \* the worker process
    agent,     \* whether Pi runs an agent loop in the worker
    agentOn,   \* the admission of the request that began the run, if any
    undercut,  \* history: a request of the run's admission failed or was
               \* refused since the run began, which reset `running'
    started,   \* requests whose agent run has begun
    broker     \* progress of dispose()

vars == <<adm, current, pc, on, worker, agent, agentOn, undercut, started, broker>>

-----------------------------------------------------------------------------
Phase(r) == CASE r = start          -> "worker-start"
              [] r \in AgentRuns    -> "agent-run"
              [] OTHER              -> "workspace-mutation"

\* DEFERRED_AGENT_SETTLEMENT_METHODS
Deferred(r) == r \in Prompts \cup Steers

\* SessionExecutionAdmissionState.  `stage' folds the promises ready and done
\* and the progress of the lease into the life of the object: ready is pending
\* in stage "pending", done is resolved in stages "denied" and "closed".
\* `released' tells that closePromise is set.
AdmissionState ==
    [phase    : {"worker-start", "agent-run", "workspace-mutation"},
     awaits   : BOOLEAN,
     running  : BOOLEAN,
     holders  : Nat,
     stage    : {"unused", "pending", "denied", "open", "closing", "closed"},
     released : BOOLEAN]

Unused == [phase |-> "worker-start", awaits |-> FALSE, running |-> FALSE,
           holders |-> 0, stage |-> "unused", released |-> FALSE]

Done(s) == s.stage \in {"denied", "closed"}

\* state.closing is set by a release and by a denial.
Closing(s) == s.released \/ Done(s)

NewAdmission(r) ==
    [phase |-> Phase(r), awaits |-> Deferred(r), running |-> Deferred(r),
     holders |-> 1, stage |-> "pending", released |-> FALSE]

\* An object whose `done' is resolved has left the map for good.  Nothing reads
\* its phase, counter and flags again, so they are reset.
Retired(stage) == [Unused EXCEPT !.stage = stage, !.released = TRUE]

\* #releaseSessionExecutionAdmission up to its first await
Release_NoClosePromise(s, force) ==
    IF ~force /\ (s.holders > 0 \/ s.running) THEN s
    ELSE [s EXCEPT !.released = TRUE, !.stage = IF @ = "closing" THEN "open" ELSE @]

Release_IgnoresRunning(s, force) ==
    IF s.released \/ (~force /\ s.holders > 0) THEN s
    ELSE [s EXCEPT !.released = TRUE]

Release(s, force) ==
    IF s.released \/ (~force /\ (s.holders > 0 \/ s.running)) THEN s
    ELSE [s EXCEPT !.released = TRUE]

\* #finishSessionExecutionAdmission
FinishAdmission_Unguarded(s) ==
    Release([s EXCEPT !.holders = @ - 1], FALSE)

FinishAdmission(s) ==
    Release([s EXCEPT !.holders = IF @ > 0 THEN @ - 1 ELSE @], FALSE)

Init ==
    /\ adm = [a \in Admissions |-> Unused]
    /\ current = None
    /\ pc = [r \in Requests |-> "idle"]
    /\ on = [r \in Requests |-> None]
    /\ worker = "unstarted"
    /\ agent = "idle"
    /\ agentOn = None
    /\ undercut = FALSE
    /\ started = {}
    /\ broker = "open"

-----------------------------------------------------------------------------
(* Callers.  requestForSession needs a bound session, hence a live worker;   *)
(* #spawnWorker runs once, before the process exists.                        *)

Call(r) ==
    /\ pc[r] = "idle"
    /\ worker = IF r = start THEN "unstarted" ELSE "live"
    /\ pc' = [pc EXCEPT ![r] = "enter"]
    /\ UNCHANGED <<adm, current, on, worker, agent, agentOn, undercut, started, broker>>

\* The head of the loop in #ensureSessionExecutionAdmission.
EnterDisposed(r) ==
    /\ broker # "open"
    /\ pc' = [pc EXCEPT ![r] = "failed"]
    /\ UNCHANGED <<adm, current, on>>

EnterExisting(r) ==
    /\ broker = "open"
    /\ current # None
    /\ pc' = [pc EXCEPT ![r] = "awaitReady"]
    /\ on' = [on EXCEPT ![r] = current]
    /\ UNCHANGED <<adm, current>>

\* Which identity a new object gets does not matter.
Fresh == CHOOSE a \in Admissions : adm[a].stage = "unused"

Create(r) ==
    /\ current = None
    /\ \E a \in Admissions : adm[a].stage = "unused"
    /\ adm' = [adm EXCEPT ![Fresh] = NewAdmission(r)]
    /\ current' = Fresh
    /\ on' = [on EXCEPT ![r] = Fresh]
    /\ pc' = [pc EXCEPT ![r] = "awaitOwn"]

EnterCreate_AfterDispose(r) == Create(r)

EnterCreate(r) == broker = "open" /\ Create(r)

Enter(r) ==
    /\ pc[r] = "enter"
    /\ EnterDisposed(r) \/ EnterExisting(r) \/ EnterCreate(r)
    /\ UNCHANGED <<worker, agent, agentOn, undercut, started, broker>>

\* May a request of phase p share admission a, now that a is ready?
Joinable_Closing(p, a) ==
    adm[a].phase = p \/ (p = "agent-run" /\ adm[a].running)

Joinable(p, a) ==
    /\ ~Closing(adm[a])
    /\ current = a
    /\ adm[a].phase = p \/ (p = "agent-run" /\ adm[a].running)

\* A second request after `await existing.ready'.
Join_Uncounted(r) ==
    /\ pc[r] = "awaitReady"
    /\ adm[on[r]].stage \notin {"pending", "denied"}
    /\ pc' = [pc EXCEPT ![r] = IF Joinable(Phase(r), on[r]) THEN "executing"
                               ELSE "awaitDone"]
    /\ UNCHANGED <<adm, current, on, worker, agent, agentOn, undercut, started, broker>>

Join(r) ==
    /\ pc[r] = "awaitReady"
    /\ adm[on[r]].stage \notin {"pending", "denied"}
    /\ IF Joinable(Phase(r), on[r])
       THEN /\ adm' = [adm EXCEPT ![on[r]].holders = @ + 1]
            /\ pc' = [pc EXCEPT ![r] = "executing"]
       ELSE pc' = [pc EXCEPT ![r] = "awaitDone"] /\ UNCHANGED adm
    /\ UNCHANGED <<current, on, worker, agent, agentOn, undercut, started, broker>>

\* The creator after `await state.ready'.
OwnReady(r) ==
    /\ pc[r] = "awaitOwn"
    /\ adm[on[r]].stage \notin {"pending", "denied"}
    /\ pc' = [pc EXCEPT ![r] = IF Closing(adm[on[r]]) THEN "awaitDone"
                               ELSE "executing"]
    /\ UNCHANGED <<adm, current, on, worker, agent, agentOn, undercut, started, broker>>

\* The request is over and lets go of its admission.
Leave(r, outcome) ==
    /\ pc' = [pc EXCEPT ![r] = outcome]
    /\ on' = [on EXCEPT ![r] = None]

\* A denied admission throws in its creator and in everyone awaiting `ready'.
Denied(r) ==
    /\ pc[r] \in {"awaitReady", "awaitOwn"}
    /\ adm[on[r]].stage = "denied"
    /\ Leave(r, "failed")
    /\ UNCHANGED <<adm, current, worker, agent, agentOn, undercut, started, broker>>

\* `await existing.done; continue'
Retry(r) ==
    /\ pc[r] = "awaitDone"
    /\ Done(adm[on[r]])
    /\ pc' = [pc EXCEPT ![r] = "enter"]
    /\ on' = [on EXCEPT ![r] = None]
    /\ UNCHANGED <<adm, current, worker, agent, agentOn, undercut, started, broker>>

-----------------------------------------------------------------------------
(* The admission callback of the Application Host settles `ready'.           *)

Grant(a) ==
    /\ adm[a].stage = "pending"
    /\ adm' = [adm EXCEPT ![a].stage = "open"]
    /\ UNCHANGED <<current, pc, on, worker, agent, agentOn, undercut, started, broker>>

Deny(a) ==
    /\ adm[a].stage = "pending"
    /\ adm' = [adm EXCEPT ![a] = Retired("denied")]
    /\ current' = IF current = a THEN None ELSE current
    /\ UNCHANGED <<pc, on, worker, agent, agentOn, undercut, started, broker>>

\* closePromise: `await state.ready; await state.lease?.close()', then finally.
\* A close that throws is reported and otherwise treated like one that returns.
CloseLease_EarlyDelete(a) ==
    /\ adm[a].released
    /\ adm[a].stage = "open"
    /\ adm' = [adm EXCEPT ![a].stage = "closing"]
    /\ current' = IF current = a THEN None ELSE current
    /\ UNCHANGED <<pc, on, worker, agent, agentOn, undercut, started, broker>>

CloseLease(a) ==
    /\ adm[a].released
    /\ adm[a].stage = "open"
    /\ adm' = [adm EXCEPT ![a].stage = "closing"]
    /\ UNCHANGED <<current, pc, on, worker, agent, agentOn, undercut, started, broker>>

FinishClose_EntryKept(a) ==
    /\ adm[a].stage = "closing"
    /\ adm' = [adm EXCEPT ![a] = Retired("closed")]
    /\ UNCHANGED <<current, pc, on, worker, agent, agentOn, undercut, started, broker>>

FinishClose(a) ==
    /\ adm[a].stage = "closing"
    /\ adm' = [adm EXCEPT ![a] = Retired("closed")]
    /\ current' = IF current = a THEN None ELSE current
    /\ UNCHANGED <<pc, on, worker, agent, agentOn, undercut, started, broker>>

-----------------------------------------------------------------------------
(* The worker.  Its events and responses share one ordered channel, so an    *)
(* emission is merged with its handling in the broker.                       *)

\* Outcomes of a request, each followed by `finally { await finish }'.
Settle(r, a, s) ==
    LET s2 == FinishAdmission(s) IN
    /\ adm' = [adm EXCEPT ![a] = s2]
    /\ IF s2.released
       THEN /\ pc' = [pc EXCEPT ![r] = "finishing"]
            /\ on' = [on EXCEPT ![r] = a]
       ELSE Leave(r, "settled")
    /\ started' = started \ {r}

\* A prompt is acknowledged after agent_start, or when the worker is through
\* with it and no run has begun (an extension command); agent.steer and
\* agent.followUp acknowledge that the input was queued.  `running' is kept.
RespondAccepted(r) ==
    /\ pc[r] = "executing"
    /\ r # start
    /\ worker = "live"
    /\ Settle(r, on[r], adm[on[r]])
    /\ UNCHANGED <<current, worker, agent, agentOn, undercut, broker>>

\* `admission.running = false' while an agent runs under that admission.
Undercuts(r) == agent = "running" /\ agentOn = on[r]

\* {accepted: false}
RespondRejected(r) ==
    LET s == adm[on[r]] IN
    /\ pc[r] = "executing"
    /\ r \in Prompts \ started
    /\ worker = "live"
    /\ Settle(r, on[r], IF s.awaits THEN [s EXCEPT !.running = FALSE] ELSE s)
    /\ undercut' = (undercut \/ (s.awaits /\ Undercuts(r)))
    /\ UNCHANGED <<current, worker, agent, agentOn, broker>>

\* The request throws: an error response, or the worker is gone.  A prompt
\* whose run has begun is acknowledged whatever happens to the run; a command
\* that began one throws when the run is over.
Fail(r) ==
    /\ pc[r] = "executing"
    /\ r # start
    /\ \/ worker \in {"dead", "removed"}
       \/ r \notin started
       \/ r \in Commands /\ agent = "idle"
    /\ Settle(r, on[r], [adm[on[r]] EXCEPT !.running = FALSE])
    /\ undercut' = (undercut \/ Undercuts(r))
    /\ UNCHANGED <<current, worker, agent, agentOn, broker>>

Return(r) ==
    /\ pc[r] = "finishing"
    /\ Done(adm[on[r]])
    /\ Leave(r, "settled")
    /\ UNCHANGED <<adm, current, worker, agent, agentOn, undercut, started, broker>>

\* worker.start() inside #spawnWorker.  When it fails, #removeWorker takes over.
StartWorker ==
    /\ pc[start] = "executing"
    /\ worker = "unstarted"
    /\ worker' \in {"live", "dead"}
    /\ UNCHANGED <<adm, current, pc, on, agent, agentOn, undercut, started, broker>>

\* The finally of createSession and openSession looks the admission up again.
FinishStart ==
    /\ pc[start] = "executing"
    /\ worker = "live"
    /\ IF current # None /\ adm[current].phase = "worker-start"
       THEN Settle(start, current, adm[current])
       ELSE Leave(start, "settled") /\ UNCHANGED <<adm, started>>
    /\ UNCHANGED <<current, worker, agent, agentOn, undercut, broker>>

\* catch { await this.#removeWorker(worker); throw error }
FailStart ==
    /\ pc[start] = "executing"
    /\ worker = "removed"
    /\ Done(adm[on[start]])
    /\ Leave(start, "failed")
    /\ UNCHANGED <<adm, current, worker, agent, agentOn, undercut, started, broker>>

\* agent_start.  `by' is the request whose input began the run, or None for a
\* run that Pi begins itself (a thread request, a goal continuation).
AgentStart(by) ==
    /\ worker = "live"
    /\ agent = "idle"
    /\ by # None => pc[by] = "executing"
    /\ agent' = "running"
    /\ started' = IF by = None THEN started ELSE started \cup {by}
    /\ agentOn' = IF by = None THEN None ELSE on[by]
    /\ undercut' = FALSE
    /\ adm' = IF current # None /\ ~Closing(adm[current])
              THEN [adm EXCEPT ![current].running = TRUE] ELSE adm
    /\ UNCHANGED <<current, pc, on, worker, broker>>

\* agent_settled
AgentSettled ==
    /\ worker = "live"
    /\ agent = "running"
    /\ agent' = "idle"
    /\ agentOn' = None
    /\ undercut' = FALSE
    /\ adm' = IF current = None THEN adm
              ELSE [adm EXCEPT ![current] =
                        Release([@ EXCEPT !.running = FALSE], FALSE)]
    /\ UNCHANGED <<current, pc, on, worker, started, broker>>

\* The process is gone, by itself or through #removeWorker and dispose:
\* #handleExit forces the release, and #removeWorker forces it again.
ForceRelease ==
    adm' = IF current = None THEN adm
           ELSE [adm EXCEPT ![current] = Release(@, TRUE)]

Exit ==
    /\ worker = "live"
    /\ worker' = "dead"
    /\ agent' = "idle"
    /\ agentOn' = None
    /\ undercut' = FALSE
    /\ ForceRelease
    /\ UNCHANGED <<current, pc, on, started, broker>>

RemoveWorker ==
    /\ worker = "dead"
    /\ worker' = "removed"
    /\ ForceRelease
    /\ UNCHANGED <<current, pc, on, agent, agentOn, undercut, started, broker>>

-----------------------------------------------------------------------------
(* PiRuntimeBroker.dispose                                                   *)

BeginDispose ==
    /\ broker = "open"
    /\ broker' = "stopping"
    /\ worker' = IF worker = "unstarted" THEN "dead" ELSE worker
    /\ UNCHANGED <<adm, current, pc, on, agent, agentOn, undercut, started>>

\* After the clients have stopped, every admission in the map is released.
DisposeAdmissions ==
    /\ broker = "stopping"
    /\ worker \in {"dead", "removed"}
    /\ broker' = "releasing"
    /\ ForceRelease
    /\ UNCHANGED <<current, pc, on, worker, agent, agentOn, undercut, started>>

EndDispose ==
    /\ broker = "releasing"
    /\ current = None
    /\ broker' = "disposed"
    /\ UNCHANGED <<adm, current, pc, on, worker, agent, agentOn, undercut, started>>

-----------------------------------------------------------------------------
RequestStep(r) ==
    \/ Enter(r) \/ Join(r) \/ OwnReady(r) \/ Denied(r) \/ Retry(r) \/ Return(r)

WorkerAnswer(r) == RespondAccepted(r) \/ RespondRejected(r) \/ Fail(r)

AdmissionStep(a) == Grant(a) \/ Deny(a) \/ CloseLease(a) \/ FinishClose(a)

Next ==
    \/ \E r \in Requests : Call(r) \/ RequestStep(r) \/ WorkerAnswer(r)
    \/ \E a \in Admissions : AdmissionStep(a)
    \/ \E by \in Prompts \cup Commands \cup {None} : AgentStart(by)
    \/ StartWorker \/ FinishStart \/ FailStart \/ AgentSettled
    \/ Exit \/ RemoveWorker
    \/ BeginDispose \/ DisposeAdmissions \/ EndDispose

Spec == Init /\ [][Next]_vars

(* Promise continuations run; the admission callback and lease.close() settle; *)
(* the worker answers or dies; a running agent settles; dispose() runs to its  *)
(* end.                                                                        *)
Fairness ==
    /\ \A r \in Requests : WF_vars(RequestStep(r)) /\ WF_vars(WorkerAnswer(r))
    /\ \A a \in Admissions : WF_vars(AdmissionStep(a))
    /\ WF_vars(StartWorker) /\ WF_vars(FinishStart) /\ WF_vars(FailStart)
    /\ WF_vars(AgentSettled)
    /\ WF_vars(pc[start] = "executing" /\ RemoveWorker)
    /\ WF_vars(broker = "stopping" /\ Exit)
    /\ WF_vars(DisposeAdmissions) /\ WF_vars(EndDispose)

FairSpec == Spec /\ Fairness

-----------------------------------------------------------------------------
(* Properties                                                                *)

TypeOK ==
    /\ adm \in [Admissions -> AdmissionState]
    /\ current \in Admissions \cup {None}
    /\ pc \in [Requests -> {"idle", "enter", "awaitReady", "awaitOwn", "awaitDone",
                            "executing", "finishing", "settled", "failed"}]
    /\ on \in [Requests -> Admissions \cup {None}]
    /\ worker \in {"unstarted", "live", "dead", "removed"}
    /\ agent \in {"idle", "running"}
    /\ agentOn \in Admissions \cup {None}
    /\ undercut \in BOOLEAN
    /\ started \subseteq Requests
    /\ broker \in {"open", "stopping", "releasing", "disposed"}

Leased(a) == adm[a].stage \in {"open", "closing"}

\* The Application Host never sees two leases of one worker at a time: a new
\* admission asks for its lease only after the previous one has been closed
\* (the map entry is deleted in the finally of closePromise, not before).
OneLease == \A a, b \in Admissions : Leased(a) /\ Leased(b) => a = b

\* "session execution admission precedes worker and agent execution": while a
\* request runs on a live worker its admission is the registered one and its
\* lease is open, whatever its siblings and the agent events did meanwhile.
ExecutionUnderLease ==
    \A r \in Requests :
        pc[r] = "executing" /\ worker = "live" =>
            current = on[r] /\ adm[on[r]].stage = "open"

\* The requests that an admission counts: its creator and those that joined.
Inside(a) ==
    {r \in Requests : on[r] = a /\ pc[r] \in {"awaitOwn", "executing"}}

\* holders counts the requests that are inside the admission, until a release
\* has begun: neither a lost nor a double decrement.
HoldersExact ==
    \A a \in Admissions :
        adm[a].stage # "unused" /\ ~Closing(adm[a]) =>
            adm[a].holders = Cardinality(Inside(a))

\* A lease is closed exactly once ("pending session admission is released
\* exactly once when the broker is disposed"): a closed lease stays closed.
ClosedOnce ==
    [][\A a \in Admissions :
          /\ adm[a].stage = "closed" => adm'[a].stage = "closed"
          /\ adm[a].stage = "closing" => adm'[a].stage \in {"closing", "closed"}]_vars

\* When dispose() has returned no lease is held or still being asked for.
DisposedHoldsNothing ==
    broker = "disposed" =>
        \A a \in Admissions : ~Leased(a) /\ adm[a].stage # "pending"

\* The lease under which an agent run began stays open until agent_settled:
\* "Their execution identity must remain attached until agent_settled".
AgentUnderLease ==
    agent = "running" /\ agentOn # None => adm[agentOn].stage = "open"

\* Nothing but the failure or the refusal of a request that shares its admission
\* takes the lease from an agent run: not the acknowledgement of the prompt that
\* began it, other requests that come and go, the end of the worker start, the
\* settlement of an earlier run or a dispose() under way.
AgentLeaseKept == ~undercut => AgentUnderLease

\* `running' is set, but no agent runs and no request is left that could reset
\* it: a prompt, steer or follow-up was acknowledged and no run followed.
Stranded ==
    /\ current # None
    /\ adm[current].running /\ ~adm[current].released
    /\ agent = "idle" /\ Inside(current) = {}

\* Every request that entered the admission protocol returns or throws: the
\* waits on `ready' and `done' never form a cycle and no wake-up is lost.  The
\* only thing a request may wait for in vain is the agent_settled of a run that
\* was acknowledged and never begins.
EveryRequestSettles ==
    \A r \in Requests :
        pc[r] = "enter" ~> (pc[r] \in {"settled", "failed"} \/ []Stranded)

=============================================================================
