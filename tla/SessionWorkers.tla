--------------------------- MODULE SessionWorkers ---------------------------
(***************************************************************************)
(* The worker and session registry of the Pi runtime broker                *)
(* (packages/runtime-broker/src/runtime-broker.ts): which child process    *)
(* serves which session while sessions are created, opened, closed,        *)
(* forked, deleted and compacted concurrently, processes die, and the      *)
(* broker is disposed.                                                     *)
(*                                                                         *)
(* Each element of Creates, Opens, ... is one call of the method of that   *)
(* name.  An action is the code of a call from one await to the next.  An  *)
(* answer of a worker and the continuation it resumes are one action:      *)
(* promise continuations run before the event loop takes the next event.   *)
(* Execution admission is the subject of module ExecutionAdmission; here a *)
(* worker start is admitted or refused.                                    *)
(***************************************************************************)
EXTENDS Naturals, FiniteSets

CONSTANTS Sessions, Workers,
          Creates, Opens, Closes, Forks, Deletes, Compactions,
          Stored,      \* the sessions whose files are on disk at start
          None

Calls == Creates \cup Opens \cup Closes \cup Forks \cup Deletes \cup Compactions

ASSUME CallsAssumption ==
  /\ Creates \cap (Opens \cup Closes \cup Forks \cup Deletes \cup Compactions) = {}
  /\ Opens \cap (Closes \cup Forks \cup Deletes \cup Compactions) = {}
  /\ Closes \cap (Forks \cup Deletes \cup Compactions) = {}
  /\ Forks \cap (Deletes \cup Compactions) = {}
  /\ Deletes \cap Compactions = {}

ASSUME SessionsAssumption == Stored \subseteq Sessions

ASSUME NoneAssumption == None \notin Sessions \cup Workers

VARIABLES
  proc,      \* proc[w]: the child process of client w
  role,      \* role[w]: "session" or "compaction"
  retiring,  \* clients on which dispose() was called (disposing or disposed)
  clients,   \* #clients
  sessions,  \* #sessions: session id -> client
  pin,       \* pin[w]: client.sessionId, set by pinSession
  serves,    \* serves[w]: the session active inside the process
  aux,       \* #sessionAuxiliaries: session id -> compaction clients
  files,     \* sessions whose file is on disk
  born,      \* session ids used so far
  known,     \* #knownSummaries
  pc,        \* the await at which a call stands
  arg,       \* the session id a call was given
  wk,        \* the worker a call holds in its variable `worker'
  parent,    \* `parent' in runCompactionTask
  aborted,   \* compaction calls whose AbortSignal has fired
  broker,    \* "open", "disposing" or "disposed"
  stopping,  \* the clients dispose() is waiting for
  displaced  \* history: sessions whose entry a late fork answer has deleted
             \* although it named another worker

registry == <<retiring, clients, sessions>>
process  == <<proc, role, pin, serves>>
disk     == <<files, born, known>>
call     == <<pc, arg, wk, parent, aborted>>
shutdown == <<broker, stopping>>
vars     == <<registry, process, disk, call, shutdown, aux, displaced>>

-----------------------------------------------------------------------------
(***************************************************************************)
(* Labels of pc.                                                           *)
(***************************************************************************)
Owning  == {"admit", "starting", "asked", "applying", "enriching", "enrichRecord",
            "failed", "spawning"}             \* a failure removes the worker
Asking  == {"snapshot", "refreshing", "refreshRecord", "closeSummary",
            "closeRecord", "closing", "forkSummary", "forkRecord", "forking",
            "delSummary", "delRecord", "coordinating", "unlinking"}
                              \* a failure is just thrown
Tasking == {"registering", "compacting", "taskFailed"}
Leaving == {"undoing", "retiring", "dropping", "droppingResult"}
Ended   == {"returned", "deleted", "threw"}
Labels  == Owning \cup Asking \cup Tasking \cup Leaving \cup Ended
             \cup {"call", "locate", "delList"}

Goto(o, l) == pc' = [pc EXCEPT ![o] = l]

(***************************************************************************)
(* request() throws when the client is disposing, disposed or has failed.  *)
(***************************************************************************)
CanAsk(w) == w \notin retiring /\ proc[w] = "up"

Ask(o, w, l, else) == Goto(o, IF CanAsk(w) THEN l ELSE else)

(***************************************************************************)
(* client.dispose() has settled: it was called and the process is gone or  *)
(* was never started.                                                      *)
(***************************************************************************)
Settled(w) == w \in retiring /\ proc[w] # "up"

Unmapped(W) == [s \in Sessions |-> IF sessions[s] \in W THEN None ELSE sessions[s]]

(* Mutant: #bindSession looks for no other worker of the session. *)
BindConflict_Never(w, s) == FALSE

(***************************************************************************)
(* The synchronous part of #removeWorker, for all workers of W.            *)
(***************************************************************************)
RemoveWorker(W) ==
  /\ clients' = clients \ W
  /\ sessions' = Unmapped(W)
  /\ retiring' = retiring \cup W

BindConflict(w, s) == sessions[s] \notin {None, w}

(***************************************************************************)
(* #bindSession: w becomes the worker of s and of no other session.        *)
(***************************************************************************)
Bound(w, s) == [Unmapped({w}) EXCEPT ![s] = w]

FreshSessions == Sessions \ born

-----------------------------------------------------------------------------
Init ==
  /\ proc = [w \in Workers |-> "unused"]
  /\ role = [w \in Workers |-> "session"]
  /\ retiring = {}
  /\ clients = {}
  /\ sessions = [s \in Sessions |-> None]
  /\ pin = [w \in Workers |-> None]
  /\ serves = [w \in Workers |-> None]
  /\ aux = [s \in Sessions |-> {}]
  /\ files = Stored
  /\ born = Stored
  /\ known = {}
  /\ pc = [o \in Calls |-> "call"]
  /\ arg = [o \in Calls |-> None]
  /\ wk = [o \in Calls |-> None]
  /\ parent = [o \in Calls |-> None]
  /\ aborted = {}
  /\ broker = "open"
  /\ stopping = {}
  /\ displaced = {}

(* Mutant: #disposed is not looked at before a worker is spawned. *)
Spawn_AfterDispose(o, r) ==
  /\ \E w \in Workers :
       /\ proc[w] = "unused"
       /\ proc' = [proc EXCEPT ![w] = IF r = "session" THEN "idle" ELSE "up"]
       /\ role' = [role EXCEPT ![w] = r]
       /\ clients' = clients \cup {w}
       /\ wk' = [wk EXCEPT ![o] = w]
  /\ Goto(o, IF r = "session" THEN "admit" ELSE "spawning")

-----------------------------------------------------------------------------
(***************************************************************************)
(* #spawnWorker and #spawnAuxiliaryWorker.  A compaction worker is started *)
(* at once; the start of a session worker awaits its admission.            *)
(***************************************************************************)
Spawn(o, r) ==
  /\ broker = "open"
  /\ \E w \in Workers :
       /\ proc[w] = "unused"
       /\ proc' = [proc EXCEPT ![w] = IF r = "session" THEN "idle" ELSE "up"]
       /\ role' = [role EXCEPT ![w] = r]
       /\ clients' = clients \cup {w}
       /\ wk' = [wk EXCEPT ![o] = w]
  /\ Goto(o, IF r = "session" THEN "admit" ELSE "spawning")

SpawnRefused(o) == broker # "open" /\ Goto(o, "threw")

Admitted(o) ==
  /\ pc[o] = "admit"
  /\ wk[o] \notin retiring
  /\ proc' = [proc EXCEPT ![wk[o]] = "up"]
  /\ Goto(o, "starting")
  /\ UNCHANGED <<registry, role, pin, serves, disk, arg, wk, parent, aborted,
                 shutdown, aux, displaced>>

Started(o) ==
  /\ pc[o] = "starting"
  /\ proc[wk[o]] = "up"
  /\ Ask(o, wk[o], "asked", "failed")
  /\ UNCHANGED <<registry, process, disk, arg, wk, parent, aborted, shutdown, aux, displaced>>

CallCreate(o) ==
  /\ pc[o] = "call"
  /\ \/ Spawn(o, "session")
     \/ SpawnRefused(o) /\ UNCHANGED <<proc, role, clients, wk>>
  /\ UNCHANGED <<retiring, sessions, pin, serves, disk, arg, parent, aborted,
                 shutdown, aux, displaced>>

(***************************************************************************)
(* session.create is answered.  Pi may or may not have written the file.   *)
(***************************************************************************)
Created(o) ==
  /\ o \in Creates
  /\ pc[o] = "asked"
  /\ proc[wk[o]] = "up"
  /\ \E s \in FreshSessions :
       /\ born' = born \cup {s}
       /\ files' \in {files, files \cup {s}}
       /\ arg' = [arg EXCEPT ![o] = s]
       /\ serves' = [serves EXCEPT ![wk[o]] = s]
       /\ sessions' = Bound(wk[o], s)
       /\ pin' = [pin EXCEPT ![wk[o]] = s]
  /\ Ask(o, wk[o], "enriching", "failed")
  /\ UNCHANGED <<retiring, clients, proc, role, known, wk, parent, aborted,
                 shutdown, aux, displaced>>

(***************************************************************************)
(* openSession: an active session is read from its worker; otherwise the   *)
(* session is located through the known summaries and the catalog.         *)
(***************************************************************************)
CallOpen(o) ==
  /\ pc[o] = "call"
  /\ \E s \in born :
       /\ arg' = [arg EXCEPT ![o] = s]
       /\ wk' = [wk EXCEPT ![o] = sessions[s]]
       /\ IF sessions[s] # None
            THEN \/ Ask(o, sessions[s], "snapshot", "threw")
                 \/ Goto(o, "locate")          \* opened by its file
            ELSE Goto(o, "locate")
  /\ UNCHANGED <<registry, process, disk, parent, aborted, shutdown, aux, displaced>>

Snapshotted(o) ==
  /\ pc[o] = "snapshot"
  /\ proc[wk[o]] = "up"
  /\ serves[wk[o]] = arg[o]
  /\ Ask(o, wk[o], "refreshing", "threw")
  /\ UNCHANGED <<registry, process, disk, arg, wk, parent, aborted, shutdown, aux, displaced>>

(***************************************************************************)
(* listSessions refreshes the summaries: it adds the sessions of the       *)
(* catalog and the active ones, and drops persisted ones that have gone.   *)
(***************************************************************************)
Listings ==
  {files \cup {s \in Sessions : sessions[s] # None} \cup K : K \in SUBSET known}

(***************************************************************************)
(* The session is listed, if it is not known yet, and its file resolved.   *)
(***************************************************************************)
Located(o) ==
  /\ pc[o] = "locate"
  /\ known' \in {known} \cup (IF broker = "open" THEN Listings ELSE {})
  /\ \/ Spawn(o, "session")
     \/ /\ SpawnRefused(o) \/ (arg[o] \notin files /\ Goto(o, "threw"))
        /\ UNCHANGED <<proc, role, clients, wk>>
  /\ UNCHANGED <<retiring, sessions, pin, serves, files, born, arg, parent,
                 aborted, shutdown, aux, displaced>>

Opened(o) ==
  /\ o \in Opens
  /\ pc[o] = "asked"
  /\ proc[wk[o]] = "up"
  /\ arg[o] \in files
  /\ serves' = [serves EXCEPT ![wk[o]] = arg[o]]
  /\ Ask(o, wk[o], "applying", "failed")
  /\ UNCHANGED <<registry, proc, role, pin, disk, arg, wk, parent, aborted,
                 shutdown, aux, displaced>>

(***************************************************************************)
(* session.workFocus.apply is answered: bind, or fail on a conflict.       *)
(***************************************************************************)
Applied(o) ==
  /\ pc[o] = "applying"
  /\ proc[wk[o]] = "up"
  /\ IF BindConflict(wk[o], arg[o])
       THEN Goto(o, "failed") /\ UNCHANGED <<sessions, pin>>
       ELSE /\ sessions' = Bound(wk[o], arg[o])
            /\ pin' = [pin EXCEPT ![wk[o]] = arg[o]]
            /\ Ask(o, wk[o], "enriching", "failed")
  /\ UNCHANGED <<retiring, clients, proc, role, serves, disk, arg, wk, parent,
                 aborted, shutdown, aux, displaced>>

(***************************************************************************)
(* #rememberSummary: session.summary is answered; the metadata files are   *)
(* read next, during which the worker may die unnoticed.                   *)
(***************************************************************************)
SummaryAnswered(o) ==
  /\ \/ pc[o] = "enriching" /\ Goto(o, "enrichRecord")
     \/ pc[o] = "refreshing" /\ Goto(o, "refreshRecord")
     \/ pc[o] = "closeSummary" /\ Goto(o, "closeRecord")
     \/ pc[o] = "forkSummary" /\ Goto(o, "forkRecord")
     \/ pc[o] = "delSummary" /\ Goto(o, "delRecord")
  /\ proc[wk[o]] = "up"
  /\ serves[wk[o]] = arg[o]
  /\ UNCHANGED <<registry, process, disk, arg, wk, parent, aborted, shutdown, aux, displaced>>

(***************************************************************************)
(* #enrichSnapshot at the end of createSession, openSession, forkSession.  *)
(***************************************************************************)
Enriched(o) ==
  /\ pc[o] \in {"enrichRecord", "refreshRecord"}
  /\ known' = known \cup {arg[o]}
  /\ Goto(o, "returned")
  /\ UNCHANGED <<registry, process, files, born, arg, wk, parent, aborted,
                 shutdown, aux, displaced>>

(***************************************************************************)
(* closeSession.                                                           *)
(***************************************************************************)
CallForActive(o, l) ==
  /\ pc[o] = "call"
  /\ \E s \in born :
       /\ arg' = [arg EXCEPT ![o] = s]
       /\ wk' = [wk EXCEPT ![o] = sessions[s]]
       /\ IF sessions[s] # None THEN Ask(o, sessions[s], l, "threw")
                                ELSE Goto(o, "threw")
  /\ UNCHANGED <<registry, process, disk, parent, aborted, shutdown, aux, displaced>>

CallClose(o) == CallForActive(o, "closeSummary")

CloseSummarised(o) ==
  /\ pc[o] = "closeRecord"
  /\ known' = known \cup {arg[o]}
  /\ Ask(o, wk[o], "closing", "threw")
  /\ UNCHANGED <<registry, process, files, born, arg, wk, parent, aborted,
                 shutdown, aux, displaced>>

Closed(o) ==
  /\ pc[o] = "closing"
  /\ proc[wk[o]] = "up"
  /\ serves[wk[o]] = arg[o]
  /\ serves' = [serves EXCEPT ![wk[o]] = None]
  /\ RemoveWorker({wk[o]})
  /\ Goto(o, "retiring")
  /\ UNCHANGED <<proc, role, pin, disk, arg, wk, parent, aborted, shutdown, aux, displaced>>

(***************************************************************************)
(* forkSession: the worker goes over to the session it answers with.       *)
(***************************************************************************)
CallFork(o) == CallForActive(o, "forkSummary")

(* Mutant: forkSession does not bind the worker to the new session. *)
Forked_NotBound(o) ==
  /\ pc[o] = "forking"
  /\ proc[wk[o]] = "up"
  /\ serves[wk[o]] = arg[o]
  /\ \E s \in FreshSessions :
       /\ born' = born \cup {s}
       /\ files' \in {files, files \cup {s}}
       /\ serves' = [serves EXCEPT ![wk[o]] = s]
       /\ arg' = [arg EXCEPT ![o] = s]
  /\ Ask(o, wk[o], "refreshing", "threw")
  /\ UNCHANGED <<retiring, clients, sessions, pin, proc, role, known, wk, parent,
                 aborted, shutdown, aux, displaced>>

ForkSummarised(o) ==
  /\ pc[o] = "forkRecord"
  /\ known' = known \cup {arg[o]}
  /\ Ask(o, wk[o], "forking", "threw")
  /\ UNCHANGED <<registry, process, files, born, arg, wk, parent, aborted,
                 shutdown, aux, displaced>>

Forked(o) ==
  /\ pc[o] = "forking"
  /\ proc[wk[o]] = "up"
  /\ serves[wk[o]] = arg[o]
  /\ \E s \in FreshSessions :
       /\ born' = born \cup {s}
       /\ files' \in {files, files \cup {s}}
       /\ serves' = [serves EXCEPT ![wk[o]] = s]
       /\ sessions' = [Bound(wk[o], s) EXCEPT ![arg[o]] = None]
       /\ pin' = [pin EXCEPT ![wk[o]] = s]
       /\ arg' = [arg EXCEPT ![o] = s]
  /\ displaced' = IF BindConflict(wk[o], arg[o]) THEN displaced \cup {arg[o]} ELSE displaced
  /\ Ask(o, wk[o], "refreshing", "threw")
  /\ UNCHANGED <<retiring, clients, proc, role, known, wk, parent, aborted,
                 shutdown, aux>>

(***************************************************************************)
(* A cancelled fork answers with the session itself, which is bound again. *)
(***************************************************************************)
ForkCancelled(o) ==
  /\ pc[o] = "forking"
  /\ proc[wk[o]] = "up"
  /\ serves[wk[o]] = arg[o]
  /\ IF BindConflict(wk[o], arg[o])
       THEN Goto(o, "threw") /\ UNCHANGED <<sessions, pin>>
       ELSE /\ sessions' = Bound(wk[o], arg[o])
            /\ pin' = [pin EXCEPT ![wk[o]] = arg[o]]
            /\ Ask(o, wk[o], "refreshing", "threw")
  /\ UNCHANGED <<retiring, clients, proc, role, serves, disk, arg, wk, parent,
                 aborted, shutdown, aux, displaced>>

(***************************************************************************)
(* deleteSession: `worker' is read before the first await.                 *)
(***************************************************************************)
CallDelete(o) ==
  /\ pc[o] = "call"
  /\ \E s \in born :
       /\ arg' = [arg EXCEPT ![o] = s]
       /\ wk' = [wk EXCEPT ![o] = sessions[s]]
       /\ IF s \in known THEN Goto(o, "coordinating")
          ELSE IF sessions[s] # None THEN Ask(o, sessions[s], "delSummary", "threw")
          ELSE Goto(o, "delList")
  /\ UNCHANGED <<registry, process, disk, parent, aborted, shutdown, aux, displaced>>

DeleteSummarised(o) ==
  /\ pc[o] = "delRecord"
  /\ known' = known \cup {arg[o]}
  /\ Goto(o, "coordinating")
  /\ UNCHANGED <<registry, process, files, born, arg, wk, parent, aborted,
                 shutdown, aux, displaced>>

(***************************************************************************)
(* The catalog lists the sessions on disk; an unknown session leaves only  *)
(* metadata to remove.                                                     *)
(***************************************************************************)
DeleteListed(o) ==
  /\ pc[o] = "delList"
  /\ IF broker # "open"
       THEN Goto(o, "threw") /\ UNCHANGED known
       ELSE IF arg[o] \in files
       THEN Goto(o, "coordinating") /\ known' = known \cup files
       ELSE Goto(o, "returned") /\ known' = (known \cup files) \ {arg[o]}
  /\ UNCHANGED <<registry, process, files, born, arg, wk, parent, aborted,
                 shutdown, aux, displaced>>

(* Mutant: the worker is removed although there was none. *)
Coordinated_Unguarded(o) ==
  /\ pc[o] = "coordinating"
  /\ Goto(o, "retiring") /\ RemoveWorker({wk[o]})
  /\ UNCHANGED <<process, disk, arg, wk, parent, aborted, shutdown, aux, displaced>>

(***************************************************************************)
(* The delete coordinator of the Application Host has agreed.              *)
(***************************************************************************)
Coordinated(o) ==
  /\ pc[o] = "coordinating"
  /\ IF wk[o] = None
       THEN Goto(o, "unlinking") /\ UNCHANGED registry
       ELSE Goto(o, "retiring") /\ RemoveWorker({wk[o]})
  /\ UNCHANGED <<process, disk, arg, wk, parent, aborted, shutdown, aux, displaced>>

(***************************************************************************)
(* #deleteSessionFile, metadata.remove and the caches.                     *)
(***************************************************************************)
Unlinked(o) ==
  /\ pc[o] = "unlinking"
  /\ files' = files \ {arg[o]}
  /\ known' = known \ {arg[o]}
  /\ Goto(o, "deleted")
  /\ UNCHANGED <<registry, process, born, arg, wk, parent, aborted, shutdown, aux, displaced>>

-----------------------------------------------------------------------------
(***************************************************************************)
(* runCompactionTask.                                                      *)
(***************************************************************************)
CallCompact(o) ==
  /\ pc[o] = "call"
  /\ \E s \in born :
       /\ arg' = [arg EXCEPT ![o] = s]
       /\ parent' = [parent EXCEPT ![o] = sessions[s]]
       /\ \/ sessions[s] # None /\ Spawn(o, "compaction")
          \/ /\ SpawnRefused(o) \/ (sessions[s] = None /\ Goto(o, "threw"))
             /\ UNCHANGED <<proc, role, clients, wk>>
  /\ UNCHANGED <<retiring, sessions, pin, serves, disk, aborted, shutdown, aux, displaced>>

(***************************************************************************)
(* assertOwner.                                                            *)
(***************************************************************************)
OwnerAsserted(o) ==
  /\ o \notin aborted
  /\ broker = "open"
  /\ parent[o] \in clients \ retiring
  /\ wk[o] \in clients
  /\ sessions[arg[o]] = parent[o]

TaskStarted(o) ==
  /\ pc[o] = "spawning"
  /\ proc[wk[o]] = "up"
  /\ pin' = [pin EXCEPT ![wk[o]] = arg[o]]
  /\ aux' = [aux EXCEPT ![arg[o]] = @ \cup {wk[o]}]
  /\ Goto(o, IF OwnerAsserted(o) THEN "registering" ELSE "taskFailed")
  /\ UNCHANGED <<registry, proc, role, serves, disk, arg, wk, parent, aborted,
                 shutdown, displaced>>

TaskRegistered(o) ==
  /\ pc[o] = "registering"
  /\ IF OwnerAsserted(o) THEN Ask(o, wk[o], "compacting", "taskFailed")
                         ELSE Goto(o, "taskFailed")
  /\ UNCHANGED <<registry, process, disk, arg, wk, parent, aborted, shutdown, aux, displaced>>

(***************************************************************************)
(* drop(), which the finally block and the abort listener share.  The      *)
(* dropWorker callback between its two parts is synchronous in the         *)
(* Application Host (application-host/index.ts:3146-3149), and awaiting it *)
(* yields for a microtask: no answer, exit or signal comes in between.     *)
(***************************************************************************)
Drop(o) ==
  /\ aux' = [aux EXCEPT ![arg[o]] = @ \ {wk[o]}]
  /\ RemoveWorker({wk[o]})

Compacted(o) ==
  /\ pc[o] = "compacting"
  /\ proc[wk[o]] = "up"
  /\ Drop(o)
  /\ Goto(o, "droppingResult")
  /\ UNCHANGED <<process, disk, arg, wk, parent, aborted, shutdown, displaced>>

TaskFail(o) ==
  /\ pc[o] \in Tasking
  /\ Drop(o)
  /\ Goto(o, "dropping")
  /\ UNCHANGED <<process, disk, arg, wk, parent, aborted, shutdown, displaced>>

(***************************************************************************)
(* The AbortSignal fires.  The listener is there only while the task runs; *)
(* before that assertOwner looks at the signal.                            *)
(***************************************************************************)
Abort(o) ==
  /\ pc[o] \in {"spawning", "registering", "compacting"}
  /\ o \notin aborted
  /\ aborted' = aborted \cup {o}
  /\ IF pc[o] = "compacting" THEN Drop(o) ELSE UNCHANGED <<registry, aux>>
  /\ UNCHANGED <<process, disk, pc, arg, wk, parent, shutdown, displaced>>

(* Mutant: a failed start throws without removing the worker. *)
Fail_WorkerKept(o) ==
  /\ \/ pc[o] \in Owning /\ clients' = clients \ {wk[o]} /\ Goto(o, "threw")
        /\ UNCHANGED <<retiring, sessions>>
     \/ pc[o] \in Asking /\ Goto(o, "threw") /\ UNCHANGED registry
  /\ UNCHANGED <<process, disk, arg, wk, parent, aborted, shutdown, aux, displaced>>

-----------------------------------------------------------------------------
(***************************************************************************)
(* An await of a call is rejected: the worker answers with an error, the   *)
(* process is gone (its exit rejects every pending request), the client is *)
(* shutting down, an admission is denied, or a file operation fails.  Only *)
(* the calls that started a worker of their own remove it.                 *)
(***************************************************************************)
Fail(o) ==
  /\ \/ pc[o] \in Owning /\ RemoveWorker({wk[o]}) /\ Goto(o, "undoing")
     \/ pc[o] \in Asking /\ Goto(o, "threw") /\ UNCHANGED registry
  /\ UNCHANGED <<process, disk, arg, wk, parent, aborted, shutdown, aux, displaced>>

(* Mutant: #removeWorker is awaited by waiting for the process itself to end,
   which a client that was never started does not do. *)
Removed_NeedsExit(o) ==
  /\ pc[o] \in Leaving
  /\ proc[wk[o]] = "exited"
  /\ Goto(o, IF pc[o] \in {"undoing", "dropping"} THEN "threw"
             ELSE IF o \in Deletes THEN "unlinking" ELSE "returned")
  /\ known' = IF o \in Closes /\ arg[o] \notin files THEN known \ {arg[o]} ELSE known
  /\ UNCHANGED <<registry, process, files, born, arg, wk, parent, aborted,
                 shutdown, aux, displaced>>

(***************************************************************************)
(* `await this.#removeWorker(worker)' returns.                             *)
(***************************************************************************)
Removed(o) ==
  /\ pc[o] \in Leaving
  /\ Settled(wk[o])
  /\ Goto(o, IF pc[o] \in {"undoing", "dropping"} THEN "threw"
             ELSE IF o \in Deletes THEN "unlinking" ELSE "returned")
  /\ known' = IF o \in Closes /\ arg[o] \notin files THEN known \ {arg[o]} ELSE known
  /\ UNCHANGED <<registry, process, files, born, arg, wk, parent, aborted,
                 shutdown, aux, displaced>>

(* Mutant: the exit of a session worker leaves its auxiliary workers alone. *)
Auxiliaries_None(w) == {}

(***************************************************************************)
(* The process of w ends, by itself or because its client was disposed     *)
(* (shutdown request, then SIGKILL): #handleExit, which also retires the   *)
(* compaction workers of the session w is pinned to.                       *)
(***************************************************************************)
Auxiliaries(w) ==
  IF role[w] = "session" /\ pin[w] # None THEN aux[pin[w]] ELSE {}

Exit(w) ==
  /\ proc[w] = "up"
  /\ proc' = [proc EXCEPT ![w] = "exited"]
  /\ serves' = [serves EXCEPT ![w] = None]
  /\ clients' = clients \ ({w} \cup Auxiliaries(w))
  /\ sessions' = Unmapped({w} \cup Auxiliaries(w))
  /\ retiring' = retiring \cup Auxiliaries(w)
  /\ aux' = IF Auxiliaries(w) = {} THEN aux ELSE [aux EXCEPT ![pin[w]] = {}]
  /\ UNCHANGED <<role, pin, disk, call, shutdown, displaced>>

(***************************************************************************)
(* dispose().                                                              *)
(***************************************************************************)
BeginDispose ==
  /\ broker = "open"
  /\ broker' = "disposing"
  /\ stopping' = clients
  /\ retiring' = retiring \cup clients
  /\ UNCHANGED <<clients, sessions, process, disk, call, aux, displaced>>

EndDispose ==
  /\ broker = "disposing"
  /\ \A w \in stopping : Settled(w)
  /\ broker' = "disposed"
  /\ clients' = {}
  /\ sessions' = [s \in Sessions |-> None]
  /\ known' = {}
  /\ UNCHANGED <<retiring, process, files, born, call, stopping, aux, displaced>>

-----------------------------------------------------------------------------
(***************************************************************************)
(* Everything that the calls do on their own once they have begun.         *)
(***************************************************************************)
Continue(o) ==
  \/ Admitted(o) \/ Started(o) \/ Created(o)
  \/ Snapshotted(o) \/ Located(o) \/ Opened(o) \/ Applied(o)
  \/ SummaryAnswered(o) \/ Enriched(o)
  \/ CloseSummarised(o) \/ Closed(o)
  \/ ForkSummarised(o) \/ Forked(o) \/ ForkCancelled(o)
  \/ DeleteSummarised(o) \/ DeleteListed(o) \/ Coordinated(o) \/ Unlinked(o)
  \/ TaskStarted(o) \/ TaskRegistered(o) \/ Compacted(o) \/ TaskFail(o)
  \/ Fail(o) \/ Removed(o)

Next ==
  \/ \E o \in Creates : CallCreate(o)
  \/ \E o \in Opens : CallOpen(o)
  \/ \E o \in Closes : CallClose(o)
  \/ \E o \in Forks : CallFork(o)
  \/ \E o \in Deletes : CallDelete(o)
  \/ \E o \in Compactions : CallCompact(o) \/ Abort(o)
  \/ \E o \in Calls : Continue(o)
  \/ \E w \in Workers : Exit(w)
  \/ BeginDispose
  \/ EndDispose

Spec == Init /\ [][Next]_vars

-----------------------------------------------------------------------------
TypeOK ==
  /\ proc \in [Workers -> {"unused", "idle", "up", "exited"}]
  /\ role \in [Workers -> {"session", "compaction"}]
  /\ retiring \subseteq Workers
  /\ clients \subseteq Workers
  /\ sessions \in [Sessions -> Workers \cup {None}]
  /\ pin \in [Workers -> Sessions \cup {None}]
  /\ serves \in [Workers -> Sessions \cup {None}]
  /\ aux \in [Sessions -> SUBSET Workers]
  /\ files \subseteq born /\ born \subseteq Sessions /\ known \subseteq Sessions
  /\ pc \in [Calls -> Labels]
  /\ arg \in [Calls -> Sessions \cup {None}]
  /\ wk \in [Calls -> Workers \cup {None}]
  /\ parent \in [Calls -> Workers \cup {None}]
  /\ aborted \subseteq Compactions
  /\ broker \in {"open", "disposing", "disposed"}
  /\ stopping \subseteq Workers
  /\ displaced \subseteq Sessions

(***************************************************************************)
(* A request routed through #sessions reaches a live session worker that   *)
(* is pinned to that session and really serves it, whatever forks, closes  *)
(* and exits are under way.                                                *)
(***************************************************************************)
Routed ==
  \A s \in Sessions :
    sessions[s] # None =>
      LET w == sessions[s] IN
        proc[w] = "up" /\ role[w] = "session" /\ pin[w] = s /\ serves[w] = s

(***************************************************************************)
(* No two registered session workers are bound to the same session: two    *)
(* processes would append to one session file.  This is what the           *)
(* session_conflict check of #bindSession is for, also when sessions are   *)
(* forked while they are deleted and reopened.  Excepted are the sessions  *)
(* of which a fork answered after its worker was replaced has deleted the  *)
(* entry of the new worker.                                                *)
(***************************************************************************)
OneWorkerPerSession ==
  \A v, w \in clients :
    /\ role[v] = "session" /\ role[w] = "session"
    /\ pin[v] # None /\ pin[v] = pin[w] /\ pin[v] \notin displaced
    => v = w

(***************************************************************************)
(* The worker bound to a session is the one #sessions names for it, so     *)
(* that reopening an active session reuses its worker; this makes          *)
(* OneWorkerPerSession inductive.                                          *)
(***************************************************************************)
ReopenReusesWorker ==
  \A w \in clients :
    role[w] = "session" /\ pin[w] # None /\ pin[w] \notin displaced => sessions[pin[w]] = w

(***************************************************************************)
(* A running child process is always registered or being retired: no path  *)
(* through the failures of the calls leaks a process.                      *)
(***************************************************************************)
NoOrphan == \A w \in Workers : proc[w] = "up" => w \in clients \cup retiring

(***************************************************************************)
(* After dispose() no client is registered and every process that still    *)
(* runs is on its way out.                                                 *)
(***************************************************************************)
DisposedClean ==
  broker = "disposed" => clients = {} /\ \A w \in Workers : proc[w] = "up" => w \in retiring

(***************************************************************************)
(* "A session worker's death orphans its auxiliary workers (compaction);   *)
(* retire them": however the death meets the start, the registration and   *)
(* the run of a compaction worker, #handleExit retires it.  A worker that  *)
(* was forked away meanwhile is pinned to another session and its exit     *)
(* looks there only.                                                       *)
(***************************************************************************)
OrphanedTaskRetired ==
  \A o \in Compactions :
    /\ pc[o] \in {"registering", "compacting"}
    /\ proc[parent[o]] = "exited" /\ pin[parent[o]] = arg[o]
    => wk[o] \in retiring \/ proc[wk[o]] = "exited"

(***************************************************************************)
(* A cancelled compaction task never returns a summary.                    *)
(***************************************************************************)
CancelledStaysCancelled ==
  \A o \in Compactions : pc[o] = "droppingResult" => o \notin aborted

(***************************************************************************)
(* dispose() returns, and every call that has begun returns or throws once *)
(* it was called, although a worker may never answer.                      *)
(***************************************************************************)
DisposeSettlesCalls ==
  /\ broker = "disposing" ~> broker = "disposed"
  /\ \A o \in Calls : broker # "open" /\ pc[o] # "call" ~> pc[o] \in Ended

(***************************************************************************)
(* The labels at which a call waits for a worker's answer.  The broker     *)
(* gives its requests no timeout.                                          *)
(***************************************************************************)
Unanswered ==
  {"asked", "applying", "enriching", "snapshot", "refreshing", "closeSummary",
   "closing", "forkSummary", "forking", "delSummary", "compacting"}

(***************************************************************************)
(* Files, admissions and the start of a worker (which has a timeout)       *)
(* settle; a request is rejected when its process has ended; the process   *)
(* of a disposed client ends (host.shutdown, then SIGKILL).  No worker is  *)
(* assumed to answer.                                                      *)
(***************************************************************************)
Resumes(o) ==
  /\ pc[o] \in Unanswered => wk[o] # None /\ proc[wk[o]] # "up"
  /\ Continue(o)

FairSpec ==
  /\ Spec
  /\ \A o \in Calls : WF_vars(Resumes(o))
  /\ \A w \in Workers : WF_vars(w \in retiring /\ Exit(w))
  /\ WF_vars(EndDispose)

=============================================================================
