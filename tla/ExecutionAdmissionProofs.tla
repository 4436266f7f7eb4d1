---------------------- MODULE ExecutionAdmissionProofs ----------------------
(***************************************************************************)
(* Safety of ExecutionAdmission for every set of requests and admissions.  *)
(*                                                                         *)
(* IInv is the inductive invariant.  It adds to the properties the facts   *)
(* they rest on: the registered admission is the one that is asking for,   *)
(* holding or closing a lease (Registered); what a request waits for or    *)
(* holds has been made (Refers); before the worker runs only its start is  *)
(* active (Startup); and as long as the worker has not gone away nothing   *)
(* is released under a request that counts as a holder (Held).             *)
(***************************************************************************)
EXTENDS ExecutionAdmission, FiniteSetTheorems, TLAPS

\* An admission whose lease is asked for or held is the registered one, and the
\* registered one is such an admission.
Registered ==
    \A a \in Admissions :
        /\ current = a <=> adm[a].stage \in {"pending", "open", "closing"}
        /\ adm[a].stage = "closing" => adm[a].released

\* Requests that are past the loop head refer to an admission that was made.
Refers ==
    \A r \in Requests :
        /\ on[r] \in Admissions => adm[on[r]].stage # "unused"
        /\ pc[r] \in {"awaitReady", "awaitOwn", "awaitDone", "executing", "finishing"} =>
              on[r] \in Admissions
        /\ pc[r] \in {"idle", "enter"} => on[r] = None

\* Only #spawnWorker is active before the worker process runs, and it owns the
\* admission that it made.
Startup ==
    /\ worker = "unstarted" =>
          /\ agent = "idle"
          /\ \A r \in Requests : r # start => pc[r] = "idle"
          /\ pc[start] \in {"idle", "enter"} => current = None
    /\ worker = "live" => pc[start] \in {"executing", "finishing", "settled"}
    /\ worker \in {"unstarted", "live"} =>
          /\ pc[start] \notin {"awaitReady", "awaitDone"}
          /\ pc[start] \in {"awaitOwn", "executing"} =>
                \/ adm[on[start]].stage = "denied"
                \/ adm[on[start]].phase = "worker-start"

\* As long as the worker has not gone away, nothing is released under a request.
Held ==
    worker \in {"unstarted", "live"} =>
        \A r \in Requests :
            /\ pc[r] = "executing" =>
                  adm[on[r]].stage = "open" /\ ~adm[on[r]].released
            /\ pc[r] = "awaitOwn" =>
                  \/ adm[on[r]].stage = "denied"
                  \/ adm[on[r]].stage \in {"pending", "open"} /\ ~adm[on[r]].released

\* dispose() ends with an empty map and nothing is registered afterwards.
Quiet == broker = "disposed" => current = None

IInv == /\ TypeOK /\ Registered /\ Refers /\ Startup /\ Held
        /\ HoldersExact /\ Quiet

\* The run of a request stays attached while no request of its admission fails.
Attached ==
    /\ worker = "unstarted" => agent = "idle"
    /\ agent = "running" /\ agentOn # None /\ ~undercut =>
          /\ worker = "live"
          /\ adm[agentOn].stage = "open"
          /\ adm[agentOn].running
          /\ ~adm[agentOn].released

-----------------------------------------------------------------------------
(* What the updates do to the fields of one admission object.                *)

(* What release() changes in the fields of an admission. *)
LEMMA ReleaseFields ==
    ASSUME NEW s \in AdmissionState, NEW force \in BOOLEAN
    PROVE  LET t == Release(s, force) IN
           /\ t \in AdmissionState
           /\ t.phase = s.phase /\ t.stage = s.stage
           /\ t.holders = s.holders /\ t.running = s.running
           /\ ~t.released => ~s.released
           /\ t.released /\ ~s.released => force \/ (s.holders = 0 /\ ~s.running)
<1> DEFINE keep == s.released \/ (~force /\ (s.holders > 0 \/ s.running))
           t == [s EXCEPT !.released = TRUE]
<1>1. CASE keep
  BY <1>1 DEF Release
<1>2. CASE ~keep
  <2>1. Release(s, force) = t
    BY <1>2 DEF Release
  <2>2. /\ t.phase = s.phase /\ t.stage = s.stage
        /\ t.holders = s.holders /\ t.running = s.running
        /\ t \in AdmissionState
    BY DEF AdmissionState
  <2>3. t.released
    BY DEF AdmissionState
  <2>4. ~s.released /\ (force \/ (~(s.holders > 0) /\ ~s.running))
    BY <1>2
  <2>5. ~(s.holders > 0) => s.holders = 0
    BY DEF AdmissionState
  <2> HIDE DEF t, keep
  <2> QED  BY <2>1, <2>2, <2>3, <2>4, <2>5
<1> QED  BY <1>1, <1>2

(* What finishing a request changes in the fields of an admission. *)
LEMMA FinishFields ==
    ASSUME NEW s \in AdmissionState
    PROVE  LET t == FinishAdmission(s) IN
           /\ t \in AdmissionState
           /\ t.phase = s.phase /\ t.stage = s.stage /\ t.running = s.running
           /\ t.holders = IF s.holders > 0 THEN s.holders - 1 ELSE s.holders
           /\ ~t.released => ~s.released
           /\ t.released /\ ~s.released => t.holders = 0 /\ ~t.running
<1> DEFINE h == [s EXCEPT !.holders = IF @ > 0 THEN @ - 1 ELSE @]
           t == Release(h, FALSE)
<1>1. /\ h \in AdmissionState
      /\ h.phase = s.phase /\ h.stage = s.stage
      /\ h.running = s.running /\ h.released = s.released
      /\ h.holders = IF s.holders > 0 THEN s.holders - 1 ELSE s.holders
  BY DEF AdmissionState
<1> HIDE DEF h
<1>2. FinishAdmission(s) = t
  BY DEF FinishAdmission, h
<1>3. /\ t \in AdmissionState
      /\ t.phase = h.phase /\ t.stage = h.stage
      /\ t.holders = h.holders /\ t.running = h.running
      /\ ~t.released => ~h.released
      /\ t.released /\ ~h.released => h.holders = 0 /\ ~h.running
  BY <1>1, ReleaseFields
<1> HIDE DEF t
<1> QED  BY <1>1, <1>2, <1>3

(* What setting running or counting a holder changes in the fields of an admission. *)
LEMMA UpdateFields ==
    ASSUME NEW s \in AdmissionState
    PROVE  /\ \A b \in BOOLEAN :
                LET t == [s EXCEPT !.running = b] IN
                /\ t \in AdmissionState /\ t.running = b
                /\ t.phase = s.phase /\ t.stage = s.stage
                /\ t.holders = s.holders /\ t.released = s.released
           /\ LET t == [s EXCEPT !.holders = @ + 1] IN
                /\ t \in AdmissionState /\ t.holders = s.holders + 1
                /\ t.phase = s.phase /\ t.stage = s.stage
                /\ t.running = s.running /\ t.released = s.released
           /\ \A g \in {"open", "closing"} :
                LET t == [s EXCEPT !.stage = g] IN
                /\ t \in AdmissionState /\ t.stage = g
                /\ t.phase = s.phase /\ t.running = s.running
                /\ t.holders = s.holders /\ t.released = s.released
BY DEF AdmissionState

(* The fields of a newly created admission object. *)
LEMMA ObjectFields ==
    /\ \A r \in Requests :
          LET t == NewAdmission(r) IN
          /\ t \in AdmissionState /\ t.stage = "pending" /\ t.phase = Phase(r)
          /\ t.holders = 1 /\ ~t.released
    /\ \A g \in {"denied", "closed"} :
          Retired(g) \in AdmissionState /\ Retired(g).stage = g
<1>1. \A r \in Requests : /\ Deferred(r) \in BOOLEAN
                          /\ Phase(r) \in {"worker-start", "agent-run", "workspace-mutation"}
  BY DEF Deferred, Phase
<1> QED  BY <1>1 DEF NewAdmission, Retired, Unused, AdmissionState

-----------------------------------------------------------------------------
(* Type correctness                                                          *)

(* The worker start is one of the requests. *)
LEMMA StartIsRequest == start \in Requests
BY DEF Requests

(* Settling a request keeps the types. *)
LEMMA SettleType ==
    ASSUME TypeOK, NEW r \in Requests, NEW a \in Admissions,
           NEW s \in AdmissionState, Settle(r, a, s)
    PROVE  /\ adm' = [adm EXCEPT ![a] = FinishAdmission(s)]
           /\ adm' \in [Admissions -> AdmissionState]
           /\ pc' \in [Requests -> {"idle", "enter", "awaitReady", "awaitOwn",
                 "awaitDone", "executing", "finishing", "settled", "failed"}]
           /\ on' \in [Requests -> Admissions \cup {None}]
           /\ started' \subseteq Requests
BY FinishFields DEF TypeOK, Settle, Leave

(* Type correctness of the initial state. *)
LEMMA TypeInit == Init => TypeOK
<1> SUFFICES ASSUME Init PROVE TypeOK
  OBVIOUS
<1>1. /\ adm \in [Admissions -> AdmissionState]
      /\ pc \in [Requests -> {"idle"}]
      /\ on \in [Requests -> Admissions \cup {None}]
  BY DEF Init, Unused, AdmissionState
<1>2. undercut \in BOOLEAN  BY Zenon DEF Init
<1> QED  BY <1>1, <1>2 DEF Init, TypeOK

(* Every step preserves the types. *)
LEMMA TypeStep == TypeOK /\ Refers /\ [Next]_vars => TypeOK'
<1> SUFFICES ASSUME TypeOK, Refers, [Next]_vars PROVE TypeOK'
  OBVIOUS
<1> USE NoneAssumption DEF TypeOK
<1>1. ASSUME NEW r \in Requests, Call(r) PROVE TypeOK'
  BY <1>1 DEF Call
<1>2. ASSUME NEW r \in Requests, Enter(r) PROVE TypeOK'
  <2>1. CASE EnterDisposed(r) \/ EnterExisting(r)
    BY <1>2, <2>1 DEF Enter, EnterDisposed, EnterExisting
  <2>2. CASE EnterCreate(r)
    <3>1. Fresh \in Admissions  BY <2>2 DEF EnterCreate, Create, Fresh
    <3> QED  BY <1>2, <2>2, <3>1, ObjectFields DEF Enter, EnterCreate, Create
  <2> QED  BY <1>2, <2>1, <2>2 DEF Enter
<1>3. ASSUME NEW r \in Requests, Join(r) PROVE TypeOK'
  <2>1. on[r] \in Admissions  BY <1>3 DEF Join, Refers
  <2>2. [adm[on[r]] EXCEPT !.holders = @ + 1] \in AdmissionState
    BY <2>1, UpdateFields
  <2> QED  BY <1>3, <2>1, <2>2 DEF Join
<1>4. ASSUME NEW r \in Requests, OwnReady(r) PROVE TypeOK'
  BY <1>4 DEF OwnReady
<1>5. ASSUME NEW r \in Requests, Denied(r) PROVE TypeOK'
  BY <1>5 DEF Denied, Leave
<1>6. ASSUME NEW r \in Requests, Retry(r) PROVE TypeOK'
  BY <1>6 DEF Retry
<1>7. ASSUME NEW r \in Requests, Return(r) PROVE TypeOK'
  BY <1>7 DEF Return, Leave
<1>8. ASSUME NEW r \in Requests, RespondAccepted(r) PROVE TypeOK'
  BY <1>8, SettleType DEF RespondAccepted, Refers
<1>9. ASSUME NEW r \in Requests, RespondRejected(r) PROVE TypeOK'
  <2>1. on[r] \in Admissions  BY <1>9 DEF RespondRejected, Refers
  <2>2. [adm[on[r]] EXCEPT !.running = FALSE] \in AdmissionState
    BY <2>1, UpdateFields
  <2> QED  BY <1>9, <2>1, <2>2, SettleType DEF RespondRejected
<1>10. ASSUME NEW r \in Requests, Fail(r) PROVE TypeOK'
  <2>1. on[r] \in Admissions  BY <1>10 DEF Fail, Refers
  <2>2. [adm[on[r]] EXCEPT !.running = FALSE] \in AdmissionState
    BY <2>1, UpdateFields
  <2> QED  BY <1>10, <2>1, <2>2, SettleType DEF Fail
<1>11. ASSUME NEW a \in Admissions, Grant(a) PROVE TypeOK'
  <2>1. [adm[a] EXCEPT !.stage = "open"] \in AdmissionState  BY UpdateFields
  <2> QED  BY <1>11, <2>1 DEF Grant
<1>12. ASSUME NEW a \in Admissions, Deny(a) PROVE TypeOK'
  BY <1>12, ObjectFields DEF Deny
<1>13. ASSUME NEW a \in Admissions, CloseLease(a) PROVE TypeOK'
  <2>1. [adm[a] EXCEPT !.stage = "closing"] \in AdmissionState  BY UpdateFields
  <2> QED  BY <1>13, <2>1 DEF CloseLease
<1>14. ASSUME NEW a \in Admissions, FinishClose(a) PROVE TypeOK'
  BY <1>14, ObjectFields DEF FinishClose
<1>15. ASSUME NEW by \in Prompts \cup Commands \cup {None}, AgentStart(by)
       PROVE  TypeOK'
  <2>1. by = None \/ by \in Requests  BY DEF Requests, AgentRuns
  <2>2. \A a \in Admissions : [adm[a] EXCEPT !.running = TRUE] \in AdmissionState
    BY UpdateFields
  <2> QED  BY <1>15, <2>1, <2>2 DEF AgentStart
<1>16. CASE StartWorker
  BY <1>16 DEF StartWorker
<1>17. CASE FinishStart
  <2>1. CASE current # None /\ adm[current].phase = "worker-start"
    BY <1>17, <2>1, StartIsRequest, SettleType DEF FinishStart
  <2>2. CASE ~(current # None /\ adm[current].phase = "worker-start")
    BY <1>17, <2>2, StartIsRequest DEF FinishStart, Leave
  <2> QED  BY <2>1, <2>2
<1>18. CASE FailStart
  BY <1>18 DEF FailStart, Leave
<1>19. CASE AgentSettled
  <2>1. ASSUME current # None
        PROVE  Release([adm[current] EXCEPT !.running = FALSE], FALSE) \in AdmissionState
    <3>1. adm[current] \in AdmissionState  BY <2>1
    <3>2. [adm[current] EXCEPT !.running = FALSE] \in AdmissionState
      BY <3>1, UpdateFields
    <3> QED  BY <3>2, ReleaseFields
  <2> QED  BY <1>19, <2>1 DEF AgentSettled
<1>20. ASSUME ForceRelease PROVE adm' \in [Admissions -> AdmissionState]
  BY <1>20, ReleaseFields DEF ForceRelease
<1>21. CASE Exit
  BY <1>20, <1>21 DEF Exit
<1>22. CASE RemoveWorker
  BY <1>20, <1>22 DEF RemoveWorker
<1>23. CASE BeginDispose
  BY <1>23 DEF BeginDispose
<1>24. CASE DisposeAdmissions
  BY <1>20, <1>24 DEF DisposeAdmissions
<1>25. CASE EndDispose
  BY <1>25 DEF EndDispose
<1>26. CASE UNCHANGED vars
  BY <1>26 DEF vars
<1> QED
  BY <1>1, <1>2, <1>3, <1>4, <1>5, <1>6, <1>7, <1>8, <1>9, <1>10, <1>11, <1>12,
     <1>13, <1>14, <1>15, <1>16, <1>17, <1>18, <1>19, <1>21, <1>22, <1>23, <1>24,
     <1>25, <1>26
  DEF Next, RequestStep, WorkerAnswer, AdmissionStep

-----------------------------------------------------------------------------
(* Counting the requests inside an admission                                 *)

(* The requests inside an admission are finitely many. *)
LEMMA InsideFinite ==
    ASSUME NEW a
    PROVE  /\ IsFiniteSet(Inside(a))
           /\ Cardinality(Inside(a)) \in Nat
<1>1. Inside(a) \subseteq Requests  BY DEF Inside
<1> QED  BY <1>1, RequestsAssumption, FS_Subset, FS_CardinalityType

\* The count only has to be kept for admissions that are not being released.
LEMMA HoldersFrame ==
    ASSUME HoldersExact,
           \A a \in Admissions :
              adm'[a].stage # "unused" /\ ~Closing(adm'[a]) =>
                 /\ adm[a].stage # "unused" /\ ~Closing(adm[a])
                 /\ adm'[a].holders = adm[a].holders
                 /\ Inside(a)' = Inside(a)
    PROVE  HoldersExact'
<1> SUFFICES ASSUME NEW a \in Admissions,
                    adm'[a].stage # "unused", ~Closing(adm'[a])
             PROVE  adm'[a].holders = Cardinality(Inside(a)')
  BY DEF HoldersExact, Closing, Done
<1>1. adm[a].holders = Cardinality(Inside(a))  BY DEF HoldersExact
<1> QED  BY <1>1

-----------------------------------------------------------------------------
(* The invariant is inductive                                                *)

\* The part of IInv that does not count.
Shape == Registered /\ Refers /\ Startup /\ Held /\ Quiet

(* A request being called preserves the invariant. *)
LEMMA CallStep ==
    ASSUME IInv, NEW r \in Requests, Call(r) PROVE Shape' /\ HoldersExact'
<1> USE NoneAssumption DEF IInv, TypeOK, Call
<1>1. Registered' /\ Quiet'  BY DEF Registered, Quiet
<1>2. Refers'  BY DEF Refers
<1>3. Startup'  BY DEF Startup
<1>4. Held'  BY DEF Held
<1>5. \A a \in Admissions : Inside(a)' = Inside(a)  BY DEF Inside
<1>6. HoldersExact'  BY <1>5, HoldersFrame
<1> QED  BY <1>1, <1>2, <1>3, <1>4, <1>6 DEF Shape

(* Entering the admission preserves the invariant. *)
LEMMA EnterStep ==
    ASSUME IInv, NEW r \in Requests, Enter(r) PROVE Shape' /\ HoldersExact'
<1> USE NoneAssumption DEF IInv, TypeOK, Enter
<1>1. CASE EnterDisposed(r) \/ EnterExisting(r)
  <2> USE DEF EnterDisposed, EnterExisting
  <2>1. Registered' /\ Quiet'  BY <1>1 DEF Registered, Quiet
  <2>2. Refers'  BY <1>1 DEF Refers, Registered
  <2>3. Startup'
    <3>1. r = start /\ current # None => worker \notin {"unstarted", "live"}
      BY DEF Startup
    <3>2. CASE EnterDisposed(r)  BY <3>2 DEF Startup
    <3>3. CASE EnterExisting(r)  BY <3>1, <3>3 DEF Startup
    <3> QED  BY <1>1, <3>2, <3>3
  <2>4. Held'  BY <1>1 DEF Held
  <2>5. \A a \in Admissions : Inside(a)' = Inside(a)  BY <1>1 DEF Inside
  <2>6. HoldersExact'  BY <1>1, <2>5, HoldersFrame
  <2> QED  BY <2>1, <2>2, <2>3, <2>4, <2>6 DEF Shape
<1>2. CASE EnterCreate(r)
  <2> DEFINE f == Fresh
             t == NewAdmission(r)
  <2>1. f \in Admissions /\ adm[f].stage = "unused"
    BY <1>2 DEF EnterCreate, Create, Fresh
  <2>2. /\ adm' = [adm EXCEPT ![f] = t] /\ current' = f
        /\ on' = [on EXCEPT ![r] = f] /\ pc' = [pc EXCEPT ![r] = "awaitOwn"]
        /\ current = None /\ broker = "open" /\ pc[r] = "enter"
        /\ UNCHANGED <<worker, agent, agentOn, undercut, started, broker>>
    BY <1>2 DEF EnterCreate, Create
  <2>3. /\ t \in AdmissionState /\ t.stage = "pending" /\ t.phase = Phase(r)
        /\ t.holders = 1 /\ ~t.released
    BY ObjectFields
  <2> HIDE DEF f, t
  <2>4. Registered'  BY <2>1, <2>2, <2>3 DEF Registered
  <2>5. Quiet'  BY <2>2 DEF Quiet
  <2>6. Refers'  BY <2>1, <2>2, <2>3 DEF Refers
  <2>7. Startup'
    <3>1. r = start => t.phase = "worker-start"
      BY <2>3, RequestsAssumption DEF Phase
    <3> QED  BY <2>1, <2>2, <2>3, <3>1, StartIsRequest DEF Startup, Refers
  <2>8. \A q \in Requests : on[q] # f  BY <2>1 DEF Refers
  <2>9. Held'  BY <2>1, <2>2, <2>3, <2>8 DEF Held, Refers
  <2>10. \A a \in Admissions : a = f => Inside(a)' = {r}
    BY <2>2, <2>8 DEF Inside
  <2>11. \A a \in Admissions : a # f => Inside(a)' = Inside(a) /\ adm'[a] = adm[a]
    <3>1. on[r] = None  BY <2>2 DEF Refers
    <3> QED  BY <2>2, <3>1 DEF Inside
  <2>12. HoldersExact'
    <3> SUFFICES ASSUME NEW a \in Admissions,
                        adm'[a].stage # "unused", ~Closing(adm'[a])
                 PROVE  adm'[a].holders = Cardinality(Inside(a)')
      BY DEF HoldersExact, Closing, Done
    <3>1. CASE a = f
      <4>1. Cardinality({r}) = 1  BY FS_Singleton
      <4>2. Inside(a)' = {r}  BY <2>10, <3>1
      <4> QED  BY <2>1, <2>2, <2>3, <3>1, <4>1, <4>2
    <3>2. CASE a # f
      BY <2>11, <3>2 DEF HoldersExact
    <3> QED  BY <3>1, <3>2
  <2> QED  BY <2>4, <2>5, <2>6, <2>7, <2>9, <2>12 DEF Shape
<1> QED  BY <1>1, <1>2

(* Joining an admission in progress preserves the invariant. *)
LEMMA JoinStep ==
    ASSUME IInv, NEW r \in Requests, Join(r) PROVE Shape' /\ HoldersExact'
<1> USE NoneAssumption DEF IInv, TypeOK
<1>1. on[r] \in Admissions /\ pc[r] = "awaitReady"  BY DEF Join, Refers
<1>2. CASE Joinable(Phase(r), on[r])
  <2> DEFINE b == on[r]
             t == [adm[b] EXCEPT !.holders = @ + 1]
  <2>1. /\ t \in AdmissionState /\ t.holders = adm[b].holders + 1
        /\ t.phase = adm[b].phase /\ t.stage = adm[b].stage
        /\ t.released = adm[b].released
    BY <1>1, UpdateFields
  <2>2. /\ adm' = [adm EXCEPT ![b] = t]
        /\ pc' = [pc EXCEPT ![r] = "executing"]
        /\ UNCHANGED <<current, on, worker, agent, agentOn, undercut, started, broker>>
    BY <1>1, <1>2 DEF Join
  <2> HIDE DEF t
  <2>3. ~adm[b].released /\ adm[b].stage = "open"
    BY <1>1, <1>2 DEF Join, Joinable, Closing, Done, Registered
  <2>4. Registered' /\ Quiet'  BY <1>1, <2>1, <2>2 DEF Registered, Quiet
  <2>5. Refers'  BY <1>1, <2>1, <2>2 DEF Refers
  <2>6. Startup'  BY <1>1, <2>1, <2>2, StartIsRequest DEF Startup, Refers
  <2>7. Held'  BY <1>1, <2>1, <2>2, <2>3 DEF Held, Refers
  <2>8. HoldersExact'
    <3> SUFFICES ASSUME NEW a \in Admissions,
                        adm'[a].stage # "unused", ~Closing(adm'[a])
                 PROVE  adm'[a].holders = Cardinality(Inside(a)')
      BY DEF HoldersExact, Closing, Done
    <3>1. CASE a = b
      <4>1. Inside(a)' = Inside(a) \cup {r} /\ r \notin Inside(a)
        BY <1>1, <2>2, <3>1 DEF Inside
      <4>2. adm[a].holders = Cardinality(Inside(a))
        BY <2>3, <3>1 DEF HoldersExact, Closing, Done
      <4>3. Cardinality(Inside(a) \cup {r}) = Cardinality(Inside(a)) + 1
        BY <4>1, InsideFinite, FS_AddElement
      <4> QED  BY <2>1, <2>2, <3>1, <4>1, <4>2, <4>3
    <3>2. CASE a # b
      <4>1. Inside(a)' = Inside(a) /\ adm'[a] = adm[a]
        BY <1>1, <2>2, <3>2 DEF Inside
      <4> QED  BY <4>1 DEF HoldersExact
    <3> QED  BY <3>1, <3>2
  <2> QED  BY <2>4, <2>5, <2>6, <2>7, <2>8 DEF Shape
<1>3. CASE ~Joinable(Phase(r), on[r])
  <2>1. /\ pc' = [pc EXCEPT ![r] = "awaitDone"]
        /\ UNCHANGED <<adm, current, on, worker, agent, agentOn, undercut, started, broker>>
    BY <1>3 DEF Join
  <2>2. Registered' /\ Quiet'  BY <2>1 DEF Registered, Quiet
  <2>3. Refers'  BY <1>1, <2>1 DEF Refers
  <2>4. Startup'  BY <1>1, <2>1, StartIsRequest DEF Startup
  <2>5. Held'  BY <1>1, <2>1 DEF Held
  <2>6. \A a \in Admissions : Inside(a)' = Inside(a)  BY <1>1, <2>1 DEF Inside
  <2>7. HoldersExact'  BY <2>1, <2>6, HoldersFrame
  <2> QED  BY <2>2, <2>3, <2>4, <2>5, <2>7 DEF Shape
<1> QED  BY <1>2, <1>3

(* The answer of the host's admission callback preserves the invariant. *)
LEMMA OwnReadyStep ==
    ASSUME IInv, NEW r \in Requests, OwnReady(r) PROVE Shape' /\ HoldersExact'
<1> USE NoneAssumption DEF IInv, TypeOK
<1>1. /\ on[r] \in Admissions /\ pc[r] = "awaitOwn"
      /\ adm[on[r]] \in AdmissionState
      /\ adm[on[r]].stage \notin {"pending", "denied", "unused"}
  BY DEF OwnReady, Refers
<1>2. /\ UNCHANGED <<adm, current, on, worker, agent, agentOn, undercut, started, broker>>
      /\ pc' = [pc EXCEPT ![r] = IF Closing(adm[on[r]]) THEN "awaitDone"
                                 ELSE "executing"]
  BY DEF OwnReady
<1>3. worker \in {"unstarted", "live"} =>
         ~Closing(adm[on[r]]) /\ adm[on[r]].stage = "open" /\ ~adm[on[r]].released
  BY <1>1 DEF Held, Closing, Done
<1>4. Registered' /\ Quiet'  BY <1>2 DEF Registered, Quiet
<1>5. Refers'  BY <1>1, <1>2 DEF Refers
<1>6. Startup'  BY <1>1, <1>2, <1>3, StartIsRequest DEF Startup
<1>7. Held'  BY <1>1, <1>2, <1>3 DEF Held
<1>8. \A a \in Admissions : ~Closing(adm[a]) => Inside(a)' = Inside(a)
  BY <1>1, <1>2 DEF Inside
<1>9. HoldersExact'  BY <1>2, <1>8, HoldersFrame
<1> QED  BY <1>4, <1>5, <1>6, <1>7, <1>9 DEF Shape

\* A request that leaves an admission that is done, or that it never entered.
LEMMA LeaveStep ==
    ASSUME IInv, NEW r \in Requests, Denied(r) \/ Retry(r) \/ Return(r)
    PROVE  Shape' /\ HoldersExact'
<1> USE NoneAssumption DEF IInv, TypeOK
<1>1. /\ UNCHANGED <<adm, current, worker, agent, agentOn, undercut, started, broker>>
      /\ on' = [on EXCEPT ![r] = None]
      /\ on[r] \in Admissions /\ Closing(adm[on[r]])
  BY DEF Denied, Retry, Return, Leave, Refers, Closing, Done
<1>2. \/ pc[r] \in {"awaitReady", "awaitOwn"} /\ pc' = [pc EXCEPT ![r] = "failed"]
      \/ pc[r] = "awaitDone" /\ pc' = [pc EXCEPT ![r] = "enter"]
      \/ pc[r] = "finishing" /\ pc' = [pc EXCEPT ![r] = "settled"]
  BY DEF Denied, Retry, Return, Leave
<1>3. Registered' /\ Quiet'  BY <1>1 DEF Registered, Quiet
<1>4. Refers'  BY <1>1, <1>2 DEF Refers
<1>5. Startup'  BY <1>1, <1>2, StartIsRequest DEF Startup
<1>6. Held'  BY <1>1, <1>2 DEF Held
<1>7. \A a \in Admissions : ~Closing(adm[a]) => Inside(a)' = Inside(a)
  BY <1>1, <1>2 DEF Inside
<1>8. HoldersExact'  BY <1>1, <1>7, HoldersFrame
<1> QED  BY <1>3, <1>4, <1>5, <1>6, <1>8 DEF Shape

\* `finally { await finish }' of a request: it lets go of the admission, and
\* only the last holder begins the release.
LEMMA SettleStep ==
    ASSUME IInv, NEW r \in Requests, pc[r] = "executing", worker # "unstarted",
           NEW s \in AdmissionState, on[r] \in Admissions,
           s.phase = adm[on[r]].phase, s.stage = adm[on[r]].stage,
           s.holders = adm[on[r]].holders, s.released = adm[on[r]].released,
           Settle(r, on[r], s),
           UNCHANGED <<current, worker, agent, broker>>
    PROVE  Shape' /\ HoldersExact'
<1> USE NoneAssumption DEF IInv, TypeOK
<1> DEFINE b == on[r]
           t == FinishAdmission(s)
<1>1. /\ t \in AdmissionState /\ t.phase = adm[b].phase /\ t.stage = adm[b].stage
      /\ adm[b].holders > 0 => t.holders = adm[b].holders - 1
      /\ ~t.released => ~adm[b].released
      /\ t.released /\ ~adm[b].released => t.holders = 0
  BY FinishFields
<1>2. /\ adm' = [adm EXCEPT ![b] = t]
      /\ \/ pc' = [pc EXCEPT ![r] = "finishing"] /\ on' = on
         \/ pc' = [pc EXCEPT ![r] = "settled"] /\ on' = [on EXCEPT ![r] = None]
  BY DEF Settle, Leave
<1> HIDE DEF t
<1>3. adm[b].stage # "unused" /\ adm[b] \in AdmissionState  BY DEF Refers
<1>4. ASSUME NEW a \in Admissions
      PROVE  IF a = b THEN Inside(a)' = Inside(a) \ {r} /\ r \in Inside(a)
             ELSE Inside(a)' = Inside(a) /\ adm'[a] = adm[a]
  BY <1>2 DEF Inside
<1>5. ~Closing(adm[b]) =>
        /\ adm[b].holders = Cardinality(Inside(b))
        /\ adm[b].holders > 0
        /\ Cardinality(Inside(b) \ {r}) = adm[b].holders - 1
  <2> SUFFICES ASSUME ~Closing(adm[b])
               PROVE  /\ adm[b].holders = Cardinality(Inside(b))
                      /\ adm[b].holders > 0
                      /\ Cardinality(Inside(b) \ {r}) = adm[b].holders - 1
    OBVIOUS
  <2>1. adm[b].holders = Cardinality(Inside(b))  BY <1>3 DEF HoldersExact
  <2>2. r \in Inside(b)  BY DEF Inside
  <2>3. Cardinality(Inside(b)) # 0  BY <2>2, InsideFinite, FS_EmptySet
  <2>4. Cardinality(Inside(b) \ {r}) = Cardinality(Inside(b)) - 1
    BY <2>2, InsideFinite, FS_RemoveElement
  <2> QED  BY <2>1, <2>3, <2>4, InsideFinite
<1>6. Registered' /\ Quiet'  BY <1>1, <1>2 DEF Registered, Quiet
<1>7. Refers'  BY <1>1, <1>2, <1>3 DEF Refers
<1>8. Startup'
  <2>1. worker' # "unstarted" /\ worker' = worker  OBVIOUS
  <2> QED  BY <1>1, <1>2, <2>1, StartIsRequest DEF Startup, Refers
<1>9. Held'
  <2> SUFFICES ASSUME worker = "live" PROVE Held'
    BY DEF Held
  <2>1. adm[b].stage = "open" /\ ~adm[b].released /\ ~Closing(adm[b])
    BY DEF Held, Closing, Done
  <2>2. ASSUME t.released PROVE \A q \in Inside(b) : q = r
    <3>1. Cardinality(Inside(b) \ {r}) = 0
      BY <1>1, <1>5, <2>1, <2>2
    <3>2. IsFiniteSet(Inside(b) \ {r})
      BY InsideFinite, FS_RemoveElement
    <3> QED  BY <3>1, <3>2, FS_EmptySet
  <2>3. ASSUME NEW q \in Requests, pc'[q] \in {"awaitOwn", "executing"}
        PROVE  /\ pc'[q] = pc[q] /\ on'[q] = on[q] /\ q # r
               /\ on[q] = b => ~t.released
    BY <1>2, <2>2, <2>3 DEF Inside
  <2> QED  BY <1>1, <1>2, <2>1, <2>3 DEF Held, Refers
<1>10. HoldersExact'
  <2> SUFFICES ASSUME NEW a \in Admissions,
                      adm'[a].stage # "unused", ~Closing(adm'[a])
               PROVE  adm'[a].holders = Cardinality(Inside(a)')
    BY DEF HoldersExact, Closing, Done
  <2>1. CASE a = b
    <3>1. adm'[a] = t  BY <1>2, <2>1
    <3>2. ~Closing(adm[b])  BY <1>1, <3>1 DEF Closing, Done
    <3> QED  BY <1>1, <1>4, <1>5, <2>1, <3>1, <3>2
  <2>2. CASE a # b
    <3>1. Inside(a)' = Inside(a) /\ adm'[a] = adm[a]  BY <1>4, <2>2
    <3> QED  BY <3>1 DEF HoldersExact
  <2> QED  BY <2>1, <2>2
<1> QED  BY <1>6, <1>7, <1>8, <1>9, <1>10 DEF Shape

(* The answer of a worker preserves the invariant. *)
LEMMA AnswerStep ==
    ASSUME IInv, NEW r \in Requests, WorkerAnswer(r)
    PROVE  Shape' /\ HoldersExact'
<1> USE DEF IInv, TypeOK
<1>1. /\ pc[r] = "executing" /\ r # start
      /\ UNCHANGED <<current, worker, agent, broker>>
  BY RequestsAssumption DEF WorkerAnswer, RespondAccepted, RespondRejected, Fail, AgentRuns
<1>2. on[r] \in Admissions /\ adm[on[r]] \in AdmissionState /\ worker # "unstarted"
  BY <1>1 DEF Refers, Startup
<1> DEFINE s == [adm[on[r]] EXCEPT !.running = FALSE]
<1>3. Settle(r, on[r], adm[on[r]]) \/ Settle(r, on[r], s)
  BY DEF WorkerAnswer, RespondAccepted, RespondRejected, Fail
<1>4. /\ s \in AdmissionState
      /\ s.phase = adm[on[r]].phase /\ s.stage = adm[on[r]].stage
      /\ s.holders = adm[on[r]].holders /\ s.released = adm[on[r]].released
  BY <1>2, UpdateFields
<1> HIDE DEF s
<1>5. CASE Settle(r, on[r], adm[on[r]])  BY <1>1, <1>2, <1>5, SettleStep
<1>6. CASE Settle(r, on[r], s)  BY <1>1, <1>2, <1>4, <1>6, SettleStep
<1> QED  BY <1>3, <1>5, <1>6

(* The end of the worker start preserves the invariant. *)
LEMMA FinishStartStep ==
    ASSUME IInv, FinishStart PROVE Shape' /\ HoldersExact'
<1> USE NoneAssumption DEF IInv, TypeOK
<1>1. on[start] \in Admissions /\ adm[on[start]] \in AdmissionState
  BY StartIsRequest DEF FinishStart, Refers
<1>2. adm[on[start]].stage = "open" /\ current = on[start]
  BY <1>1, StartIsRequest DEF FinishStart, Held, Registered
<1>3. adm[on[start]].phase = "worker-start"
  BY <1>2, StartIsRequest DEF FinishStart, Startup
<1>4. Settle(start, on[start], adm[on[start]])
  BY <1>1, <1>2, <1>3 DEF FinishStart
<1> QED  BY <1>1, <1>4, StartIsRequest, SettleStep DEF FinishStart

\* An update of the registered admission that moves no request.  As long as the
\* worker stays, only an admission nobody is inside of may become released.
LEMMA UpdateStep ==
    ASSUME IInv, NEW a \in Admissions, NEW t \in AdmissionState,
           adm' = [adm EXCEPT ![a] = t],
           adm[a].stage \in {"pending", "open", "closing"},
           t.stage \in {"pending", "open", "closing"},
           adm[a].stage = "open" => t.stage \in {"open", "closing"},
           t.phase = adm[a].phase, t.holders = adm[a].holders,
           ~t.released => ~adm[a].released,
           t.stage = "closing" => t.released,
           worker' # "dead" /\ worker' # "removed" =>
              /\ worker' = worker
              /\ t.released /\ ~adm[a].released => Inside(a) = {},
           worker' = "unstarted" => agent' = agent,
           broker' = "disposed" => broker = "disposed",
           worker' \in {"unstarted", "live", "dead", "removed"},
           UNCHANGED <<current, pc, on>>
    PROVE  Shape' /\ HoldersExact'
<1> USE NoneAssumption DEF IInv, TypeOK
<1>1. Registered' /\ Quiet'  BY DEF Registered, Quiet
<1>2. Refers'  BY DEF Refers
<1>3. Startup'  BY StartIsRequest DEF Startup, Refers
<1>4. Held'
  <2> SUFFICES ASSUME worker' \in {"unstarted", "live"} PROVE Held'
    BY DEF Held
  <2>1. worker' = worker  OBVIOUS
  <2>2. ASSUME NEW r \in Requests, on[r] = a, pc[r] \in {"awaitOwn", "executing"}
        PROVE  ~adm[a].released => ~t.released
    BY <2>2 DEF Inside
  <2>3. ASSUME NEW r \in Requests, pc[r] = "executing"
        PROVE  adm'[on[r]].stage = "open" /\ ~adm'[on[r]].released
    BY <2>1, <2>2, <2>3 DEF Held, Refers
  <2>4. ASSUME NEW r \in Requests, pc[r] = "awaitOwn"
        PROVE  \/ adm'[on[r]].stage = "denied"
               \/ adm'[on[r]].stage \in {"pending", "open"} /\ ~adm'[on[r]].released
    BY <2>1, <2>2, <2>4 DEF Held, Refers
  <2> QED  BY <2>3, <2>4 DEF Held
<1>5. \A b \in Admissions : Inside(b)' = Inside(b)  BY DEF Inside
<1>6. HoldersExact'  BY <1>5, HoldersFrame DEF Closing, Done
<1> QED  BY <1>1, <1>2, <1>3, <1>4, <1>6 DEF Shape

(* A step that touches no admission and no request preserves the invariant. *)
LEMMA IdleStep ==
    ASSUME IInv, UNCHANGED <<adm, current, pc, on>>,
           worker' \in {"unstarted", "live", "dead", "removed"},
           worker' = "unstarted" => worker = "unstarted" /\ agent' = agent,
           worker' = "live" => pc[start] = "executing" \/ worker = "live",
           worker' = "live" => worker \in {"unstarted", "live"},
           broker' = "disposed" => broker = "disposed" \/ current = None
    PROVE  Shape' /\ HoldersExact'
<1> USE NoneAssumption DEF IInv, TypeOK
<1>1. Registered' /\ Quiet'  BY DEF Registered, Quiet
<1>2. Refers'  BY DEF Refers
<1>3. Startup'  BY StartIsRequest DEF Startup
<1>4. Held'  BY DEF Held
<1>5. \A b \in Admissions : Inside(b)' = Inside(b)  BY DEF Inside
<1>6. HoldersExact'  BY <1>5, HoldersFrame
<1> QED  BY <1>1, <1>2, <1>3, <1>4, <1>6 DEF Shape

\* Deny and FinishClose: the admission is done and leaves the map.
LEMMA RetireStep ==
    ASSUME IInv, NEW a \in Admissions, Deny(a) \/ FinishClose(a)
    PROVE  Shape' /\ HoldersExact'
<1> USE NoneAssumption DEF IInv, TypeOK
<1>1. PICK g \in {"denied", "closed"} :
        /\ adm' = [adm EXCEPT ![a] = Retired(g)]
        /\ adm[a].stage = IF g = "denied" THEN "pending" ELSE "closing"
  BY DEF Deny, FinishClose
<1>2. /\ current' = IF current = a THEN None ELSE current
      /\ UNCHANGED <<pc, on, worker, agent, agentOn, undercut, started, broker>>
  BY DEF Deny, FinishClose
<1> DEFINE t == Retired(g)
<1>3. t \in AdmissionState /\ t.stage = g  BY ObjectFields
<1> HIDE DEF t
<1>4. adm' = [adm EXCEPT ![a] = t]  BY <1>1 DEF t
<1>5. Registered' /\ Quiet'  BY <1>1, <1>2, <1>3, <1>4 DEF Registered, Quiet
<1>6. Refers'  BY <1>1, <1>2, <1>3, <1>4 DEF Refers
<1>7. worker \in {"unstarted", "live"} =>
        \A r \in Requests : on[r] = a =>
           /\ pc[r] # "executing"
           /\ pc[r] = "awaitOwn" => g = "denied"
  BY <1>1 DEF Held, Registered
<1>8. Startup'  BY <1>2, <1>3, <1>4, <1>7, StartIsRequest DEF Startup, Refers
<1>9. Held'  BY <1>2, <1>3, <1>4, <1>7 DEF Held, Refers
<1>10. \A b \in Admissions : Inside(b)' = Inside(b)  BY <1>2 DEF Inside
<1>11. HoldersExact'  BY <1>3, <1>4, <1>10, HoldersFrame DEF Closing, Done
<1> QED  BY <1>5, <1>6, <1>8, <1>9, <1>11 DEF Shape

(* The grant or the closing of a lease preserves the invariant. *)
LEMMA LeaseStep ==
    ASSUME IInv, NEW a \in Admissions, Grant(a) \/ CloseLease(a)
    PROVE  Shape' /\ HoldersExact'
<1> USE DEF IInv, TypeOK
<1>1. PICK g \in {"open", "closing"} :
        /\ adm' = [adm EXCEPT ![a].stage = g]
        /\ g = "open" => adm[a].stage = "pending"
        /\ g = "closing" => adm[a].stage = "open" /\ adm[a].released
  BY DEF Grant, CloseLease
<1> DEFINE t == [adm[a] EXCEPT !.stage = g]
<1>2. adm' = [adm EXCEPT ![a] = t]  BY <1>1
<1>3. /\ t \in AdmissionState /\ t.stage = g
      /\ t.phase = adm[a].phase /\ t.holders = adm[a].holders
      /\ t.released = adm[a].released
  <2>1. adm[a] \in AdmissionState  OBVIOUS
  <2> HIDE DEF IInv, TypeOK
  <2> QED  BY <2>1 DEF AdmissionState
<1> HIDE DEF t
<1>4. UNCHANGED <<current, pc, on, worker, agent, broker>>  BY DEF Grant, CloseLease
<1>5. /\ adm[a].stage \in {"pending", "open", "closing"}
      /\ adm[a].stage = "open" => t.stage \in {"open", "closing"}
      /\ t.stage = "closing" => t.released
      /\ ~t.released => ~adm[a].released
      /\ ~(t.released /\ ~adm[a].released)
  BY <1>1, <1>3
<1> QED  BY <1>2, <1>3, <1>4, <1>5, UpdateStep

(* A run that the agent starts by itself preserves the invariant. *)
LEMMA AgentStartStep ==
    ASSUME IInv, NEW by \in Prompts \cup Commands \cup {None}, AgentStart(by)
    PROVE  Shape' /\ HoldersExact'
<1> USE NoneAssumption DEF IInv, TypeOK
<1>1. worker = "live" /\ UNCHANGED <<current, pc, on, worker, broker>>
  BY DEF AgentStart
<1>2. CASE adm' = adm
  BY <1>1, <1>2, IdleStep
<1>3. CASE current # None /\ adm' = [adm EXCEPT ![current].running = TRUE]
  <2> DEFINE t == [adm[current] EXCEPT !.running = TRUE]
  <2>1. current \in Admissions /\ adm[current] \in AdmissionState  BY <1>3
  <2>2. adm' = [adm EXCEPT ![current] = t]  BY <1>3
  <2>3. /\ t \in AdmissionState /\ t.stage = adm[current].stage
        /\ t.phase = adm[current].phase /\ t.holders = adm[current].holders
        /\ t.released = adm[current].released
    BY <2>1, UpdateFields
  <2>4. /\ adm[current].stage \in {"pending", "open", "closing"}
        /\ adm[current].stage = "closing" => adm[current].released
    BY <2>1 DEF Registered
  <2> HIDE DEF t
  <2> QED  BY <1>1, <2>1, <2>2, <2>3, <2>4, UpdateStep
<1> QED  BY <1>2, <1>3 DEF AgentStart

\* A release that is not forced needs holders = 0: nobody is inside.
LEMMA AgentSettledStep ==
    ASSUME IInv, AgentSettled PROVE Shape' /\ HoldersExact'
<1> USE NoneAssumption DEF IInv, TypeOK
<1>1. worker = "live" /\ UNCHANGED <<current, pc, on, worker, broker>>
  BY DEF AgentSettled
<1>2. CASE current = None
  BY <1>1, <1>2, IdleStep DEF AgentSettled
<1>3. CASE current # None
  <2> DEFINE s == [adm[current] EXCEPT !.running = FALSE]
             t == Release(s, FALSE)
  <2>1. current \in Admissions /\ adm[current] \in AdmissionState  BY <1>3
  <2>2. adm' = [adm EXCEPT ![current] = t]  BY <1>3 DEF AgentSettled
  <2>3. /\ s \in AdmissionState /\ s.stage = adm[current].stage
        /\ s.phase = adm[current].phase /\ s.holders = adm[current].holders
        /\ s.released = adm[current].released
    BY <2>1, UpdateFields
  <2> HIDE DEF s
  <2>4. /\ t \in AdmissionState /\ t.stage = s.stage
        /\ t.phase = s.phase /\ t.holders = s.holders
        /\ ~t.released => ~s.released
        /\ t.released /\ ~s.released => s.holders = 0
    BY <2>3, ReleaseFields
  <2> HIDE DEF t
  <2>5. /\ adm[current].stage \in {"pending", "open", "closing"}
        /\ adm[current].stage = "closing" => adm[current].released
    BY <2>1 DEF Registered
  <2>6. t.released /\ ~adm[current].released => Inside(current) = {}
    <3> SUFFICES ASSUME t.released, ~adm[current].released
                 PROVE  Inside(current) = {}
      OBVIOUS
    <3>1. adm[current].holders = 0  BY <2>3, <2>4
    <3>2. adm[current].holders = Cardinality(Inside(current))
      BY <2>1, <2>5 DEF HoldersExact, Closing, Done
    <3> QED  BY <3>1, <3>2, InsideFinite, FS_EmptySet
  <2> QED  BY <1>1, <2>1, <2>2, <2>3, <2>4, <2>5, <2>6, UpdateStep
<1> QED  BY <1>2, <1>3

\* The worker is gone, so nothing has to stay open under its requests.
LEMMA ForceReleaseStep ==
    ASSUME IInv, ForceRelease, worker' \in {"dead", "removed"},
           broker' # "disposed", UNCHANGED <<current, pc, on>>
    PROVE  Shape' /\ HoldersExact'
<1> USE NoneAssumption DEF IInv, TypeOK
<1>1. CASE current = None
  BY <1>1, IdleStep DEF ForceRelease
<1>2. CASE current # None
  <2> DEFINE t == Release(adm[current], TRUE)
  <2>1. current \in Admissions /\ adm[current] \in AdmissionState  BY <1>2
  <2>2. adm' = [adm EXCEPT ![current] = t]  BY <1>2 DEF ForceRelease
  <2>3. /\ t \in AdmissionState /\ t.stage = adm[current].stage
        /\ t.phase = adm[current].phase /\ t.holders = adm[current].holders
        /\ ~t.released => ~adm[current].released
    BY <2>1, ReleaseFields
  <2> HIDE DEF t
  <2>4. /\ adm[current].stage \in {"pending", "open", "closing"}
        /\ adm[current].stage = "closing" => adm[current].released
    BY <2>1 DEF Registered
  <2> QED  BY <2>1, <2>2, <2>3, <2>4, UpdateStep
<1> QED  BY <1>1, <1>2

(* A failed start preserves the invariant. *)
LEMMA FailStartStep ==
    ASSUME IInv, FailStart PROVE Shape' /\ HoldersExact'
<1> USE NoneAssumption DEF IInv, TypeOK
<1>1. /\ pc[start] = "executing" /\ worker = "removed"
      /\ on[start] \in Admissions /\ Closing(adm[on[start]])
      /\ pc' = [pc EXCEPT ![start] = "failed"]
      /\ on' = [on EXCEPT ![start] = None]
      /\ UNCHANGED <<adm, current, worker, agent, broker>>
  BY StartIsRequest DEF FailStart, Leave, Refers, Closing
<1>2. Registered' /\ Quiet'  BY <1>1 DEF Registered, Quiet
<1>3. Refers'  BY <1>1, StartIsRequest DEF Refers
<1>4. Startup' /\ Held'  BY <1>1 DEF Startup, Held
<1>5. \A a \in Admissions : ~Closing(adm[a]) => Inside(a)' = Inside(a)
  BY <1>1, StartIsRequest DEF Inside
<1>6. HoldersExact'  BY <1>1, <1>5, HoldersFrame
<1> QED  BY <1>2, <1>3, <1>4, <1>6 DEF Shape

(* Every step preserves the inductive invariant. *)
LEMMA IInvStep == IInv /\ [Next]_vars => IInv'
<1> SUFFICES ASSUME IInv, [Next]_vars PROVE IInv'
  OBVIOUS
<1>1. TypeOK'  BY TypeStep DEF IInv
<1>2. Shape' /\ HoldersExact'
  <2>1. ASSUME NEW r \in Requests, Call(r) \/ RequestStep(r) \/ WorkerAnswer(r)
        PROVE  Shape' /\ HoldersExact'
    BY <2>1, CallStep, EnterStep, JoinStep, OwnReadyStep, LeaveStep, AnswerStep
    DEF RequestStep
  <2>2. ASSUME NEW a \in Admissions, AdmissionStep(a)
        PROVE  Shape' /\ HoldersExact'
    BY <2>2, LeaseStep, RetireStep DEF AdmissionStep
  <2>3. CASE \E by \in Prompts \cup Commands \cup {None} : AgentStart(by)
    BY <2>3, AgentStartStep
  <2>4. CASE StartWorker
    BY <2>4, IdleStep DEF StartWorker
  <2>5. CASE FinishStart  BY <2>5, FinishStartStep
  <2>6. CASE FailStart  BY <2>6, FailStartStep
  <2>7. CASE AgentSettled  BY <2>7, AgentSettledStep
  <2>8. CASE Exit
    <3>1. broker # "disposed" => Shape' /\ HoldersExact'
      BY <2>8, ForceReleaseStep DEF Exit
    <3>2. broker = "disposed" => current = None  BY DEF IInv, Quiet
    <3> QED  BY <2>8, <3>1, <3>2, IdleStep DEF Exit, ForceRelease
  <2>9. CASE RemoveWorker
    <3>1. broker # "disposed" => Shape' /\ HoldersExact'
      BY <2>9, ForceReleaseStep DEF RemoveWorker
    <3>2. broker = "disposed" => current = None  BY DEF IInv, Quiet
    <3> QED  BY <2>9, <3>1, <3>2, IdleStep DEF RemoveWorker, ForceRelease
  <2>10. CASE BeginDispose
    BY <2>10, IdleStep DEF BeginDispose, IInv, TypeOK
  <2>11. CASE DisposeAdmissions
    BY <2>11, ForceReleaseStep DEF DisposeAdmissions
  <2>12. CASE EndDispose
    BY <2>12, IdleStep DEF EndDispose, IInv, TypeOK
  <2>13. CASE UNCHANGED vars
    BY <2>13, IdleStep DEF vars, IInv, TypeOK
  <2> QED
    BY <2>1, <2>2, <2>3, <2>4, <2>5, <2>6, <2>7, <2>8, <2>9, <2>10, <2>11, <2>12,
       <2>13
    DEF Next
<1> QED  BY <1>1, <1>2 DEF IInv, Shape

(* The inductive invariant holds initially. *)
LEMMA IInvInit == Init => IInv
<1> SUFFICES ASSUME Init PROVE IInv
  OBVIOUS
<1>1. TypeOK  BY TypeInit
<1>2. \A a \in Admissions : adm[a].stage = "unused"  BY DEF Init, Unused
<1>3. Registered /\ Quiet /\ HoldersExact
  BY <1>2, NoneAssumption DEF Init, Registered, Quiet, HoldersExact
<1>4. Refers /\ Startup /\ Held
  BY NoneAssumption, StartIsRequest DEF Init, Refers, Startup, Held
<1> QED  BY <1>1, <1>3, <1>4 DEF IInv

(* The inductive invariant holds in every reachable state. *)
LEMMA Invariant == Spec => []IInv
BY IInvInit, IInvStep, PTL DEF Spec

-----------------------------------------------------------------------------
(* The theorems                                                              *)

\* Every state of the protocol is well typed: in particular the counter
\* `holders' of an admission never becomes negative.
THEOREM TypeCorrect == Spec => []TypeOK
<1>1. IInv => TypeOK  BY DEF IInv
<1> QED  BY <1>1, Invariant, PTL

\* The Application Host never sees two leases of one worker at a time, however
\* many requests, admissions and releases interleave.
THEOREM LeaseExclusive == Spec => []OneLease
<1>1. IInv => OneLease  BY DEF IInv, Registered, OneLease, Leased
<1> QED  BY <1>1, Invariant, PTL

\* A request that runs on a live worker runs under the registered admission,
\* and the lease of that admission is open.
THEOREM ExecutionCovered == Spec => []ExecutionUnderLease
<1>1. IInv => ExecutionUnderLease
  BY DEF IInv, Registered, Refers, Held, ExecutionUnderLease
<1> QED  BY <1>1, Invariant, PTL

\* Until its release begins, an admission counts exactly the requests that
\* created or joined it and have not finished.
THEOREM HoldersCounted == Spec => []HoldersExact
<1>1. IInv => HoldersExact  BY DEF IInv
<1> QED  BY <1>1, Invariant, PTL

\* After dispose() has returned the broker neither holds nor requests a lease.
THEOREM DisposeReleases == Spec => []DisposedHoldsNothing
<1>1. IInv => DisposedHoldsNothing
  BY NoneAssumption DEF IInv, Registered, Quiet, DisposedHoldsNothing, Leased
<1> QED  BY <1>1, Invariant, PTL

-----------------------------------------------------------------------------
(* Steps of a lease and of an agent run                                      *)

(* No step moves an admission backwards. *)
LEMMA StageStep ==
    ASSUME IInv, [Next]_vars, NEW a \in Admissions
    PROVE  /\ adm[a].stage = "closed" => adm'[a].stage = "closed"
           /\ adm[a].stage = "closing" => adm'[a].stage \in {"closing", "closed"}
<1> DEFINE G == /\ adm[a].stage = "closed" => adm'[a].stage = "closed"
                /\ adm[a].stage = "closing" => adm'[a].stage \in {"closing", "closed"}
<1> SUFFICES G
  OBVIOUS
<1> USE NoneAssumption DEF IInv, TypeOK
<1>1. ASSUME adm' = adm \/ adm'[a].stage = adm[a].stage PROVE G
  BY <1>1
<1>2. ASSUME NEW r \in Requests, Enter(r) PROVE G
  <2>1. CASE EnterCreate(r)
    <3>1. Fresh \in Admissions /\ adm[Fresh].stage = "unused"
      BY <2>1 DEF EnterCreate, Create, Fresh
    <3> HIDE DEF Fresh
    <3> QED  BY <2>1, <3>1 DEF EnterCreate, Create
  <2>2. CASE EnterDisposed(r) \/ EnterExisting(r)
    BY <2>2 DEF EnterDisposed, EnterExisting
  <2> QED  BY <1>2, <2>1, <2>2 DEF Enter
<1>3. ASSUME NEW r \in Requests, Join(r) PROVE adm'[a].stage = adm[a].stage
  <2>1. on[r] \in Admissions /\ adm[on[r]] \in AdmissionState  BY <1>3 DEF Join, Refers
  <2>2. [adm[on[r]] EXCEPT !.holders = @ + 1].stage = adm[on[r]].stage
    BY <2>1, UpdateFields
  <2> QED  BY <1>3, <2>1, <2>2 DEF Join
<1>4. ASSUME NEW r \in Requests, NEW b \in Admissions, NEW s \in AdmissionState,
             s.stage = adm[b].stage, Settle(r, b, s)
      PROVE  adm'[a].stage = adm[a].stage
  BY <1>4, FinishFields DEF Settle
<1>5. ASSUME NEW r \in Requests, WorkerAnswer(r) PROVE adm'[a].stage = adm[a].stage
  <2>1. on[r] \in Admissions /\ adm[on[r]] \in AdmissionState
    BY <1>5 DEF WorkerAnswer, RespondAccepted, RespondRejected, Fail, Refers
  <2> DEFINE s == [adm[on[r]] EXCEPT !.running = FALSE]
  <2>2. s \in AdmissionState /\ s.stage = adm[on[r]].stage  BY <2>1, UpdateFields
  <2>3. Settle(r, on[r], adm[on[r]]) \/ Settle(r, on[r], s)
    BY <1>5 DEF WorkerAnswer, RespondAccepted, RespondRejected, Fail
  <2> HIDE DEF s
  <2> QED  BY <1>4, <2>1, <2>2, <2>3
<1>6. ASSUME NEW b \in Admissions, AdmissionStep(b) PROVE G
  <2>1. Retired("closed").stage = "closed"  BY ObjectFields
  <2> QED
    BY <1>6, <2>1 DEF AdmissionStep, Grant, Deny, CloseLease, FinishClose
<1>7. ASSUME NEW by, AgentStart(by) PROVE adm'[a].stage = adm[a].stage
  <2>1. adm[a] \in AdmissionState  OBVIOUS
  <2>2. [adm[a] EXCEPT !.running = TRUE].stage = adm[a].stage  BY <2>1, UpdateFields
  <2> QED  BY <1>7, <2>2 DEF AgentStart
<1>8. CASE FinishStart
  <2>1. current # None => current \in Admissions /\ adm[current] \in AdmissionState
    OBVIOUS
  <2> QED  BY <1>1, <1>4, <1>8, <2>1, StartIsRequest DEF FinishStart
<1>9. CASE AgentSettled
  <2>1. adm[a] \in AdmissionState  OBVIOUS
  <2> DEFINE s == [adm[a] EXCEPT !.running = FALSE]
  <2>2. s \in AdmissionState /\ s.stage = adm[a].stage  BY <2>1, UpdateFields
  <2>3. Release(s, FALSE).stage = adm[a].stage  BY <2>2, ReleaseFields
  <2> QED  BY <1>1, <1>9, <2>3 DEF AgentSettled
<1>10. ASSUME ForceRelease PROVE adm'[a].stage = adm[a].stage
  <2>1. Release(adm[a], TRUE).stage = adm[a].stage  BY ReleaseFields
  <2> QED  BY <1>10, <2>1 DEF ForceRelease
<1>11. ASSUME NEW r \in Requests, Call(r) \/ RequestStep(r) PROVE G
  BY <1>1, <1>2, <1>3, <1>11
  DEF Call, RequestStep, OwnReady, Denied, Retry, Return
<1>12. ASSUME StartWorker \/ FailStart \/ BeginDispose \/ EndDispose \/ UNCHANGED vars
       PROVE  G
  BY <1>1, <1>12 DEF StartWorker, FailStart, BeginDispose, EndDispose, vars
<1>13. ASSUME Exit \/ RemoveWorker \/ DisposeAdmissions PROVE G
  BY <1>1, <1>10, <1>13 DEF Exit, RemoveWorker, DisposeAdmissions
<1>14. ASSUME NEW r \in Requests, WorkerAnswer(r) PROVE G  BY <1>1, <1>5, <1>14
<1>15. ASSUME NEW by, AgentStart(by) PROVE G  BY <1>1, <1>7, <1>15
<1> HIDE DEF G, IInv, TypeOK
<1> QED
  BY <1>6, <1>8, <1>9, <1>11, <1>12, <1>13, <1>14, <1>15 DEF Next

\* A lease is closed exactly once: once its close has begun it never becomes
\* usable again, and a closed lease stays closed.
THEOREM LeaseClosedOnce == Spec => ClosedOnce
<1>1. IInv /\ [Next]_vars =>
        [\A a \in Admissions :
          /\ adm[a].stage = "closed" => adm'[a].stage = "closed"
          /\ adm[a].stage = "closing" => adm'[a].stage \in {"closing", "closed"}]_vars
  BY StageStep
<1> QED  BY <1>1, Invariant, PTL DEF Spec, ClosedOnce

\* An object that stays open, running and unreleased.
Carries(s) == s.stage = "open" /\ s.running /\ ~s.released

\* An agent runs for a request and its admission was not undercut.
Attending == agent = "running" /\ agentOn # None /\ ~undercut

(* A running agent stays attached to an admission that carries it. *)
LEMMA AttachedStep ==
    ASSUME IInv, Attached, [Next]_vars
    PROVE  Attached'
<1> USE NoneAssumption DEF IInv, TypeOK, Attending
<1>1. ASSUME UNCHANGED <<agent, agentOn>>, worker' = worker,
             undercut => undercut',
             Attending => Carries(adm'[agentOn])
      PROVE  Attached'
  BY <1>1 DEF Attached, Carries
<1>2. Attending => Carries(adm[agentOn]) /\ worker = "live"
  BY DEF Attached, Carries
<1>3. ASSUME NEW r \in Requests, Call(r) \/ OwnReady(r) \/ Denied(r) \/ Retry(r) \/ Return(r)
      PROVE  Attached'
  BY <1>1, <1>2, <1>3 DEF Call, OwnReady, Denied, Retry, Return
<1>4. ASSUME NEW r \in Requests, Enter(r) PROVE Attached'
  <2>1. CASE EnterCreate(r)
    <3>1. Fresh \in Admissions /\ adm[Fresh].stage = "unused"
      BY <2>1 DEF EnterCreate, Create, Fresh
    <3> HIDE DEF Fresh
    <3>2. Attending => adm'[agentOn] = adm[agentOn]
      BY <1>2, <2>1, <3>1 DEF EnterCreate, Create, Carries
    <3> QED  BY <1>1, <1>2, <1>4, <3>2 DEF Enter
  <2>2. CASE EnterDisposed(r) \/ EnterExisting(r)
    BY <1>1, <1>2, <1>4, <2>2 DEF Enter, EnterDisposed, EnterExisting
  <2> QED  BY <1>4, <2>1, <2>2 DEF Enter
<1>5. ASSUME NEW r \in Requests, Join(r) PROVE Attached'
  <2>1. on[r] \in Admissions /\ adm[on[r]] \in AdmissionState  BY <1>5 DEF Join, Refers
  <2> DEFINE t == [adm[on[r]] EXCEPT !.holders = @ + 1]
  <2>2. Carries(adm[on[r]]) => Carries(t)  BY <2>1, UpdateFields DEF Carries
  <2>3. adm' = [adm EXCEPT ![on[r]] = t] \/ adm' = adm  BY <1>5 DEF Join
  <2> HIDE DEF t
  <2>4. Attending => Carries(adm'[agentOn])
    BY <1>2, <2>1, <2>2, <2>3
  <2> QED  BY <1>1, <1>5, <2>4 DEF Join
<1>6. ASSUME NEW r \in Requests, NEW b \in Admissions, Settle(r, b, adm[b]),
             UNCHANGED <<worker, agent, agentOn>>, undercut => undercut'
      PROVE  Attached'
  <2>1. adm[b] \in AdmissionState  OBVIOUS
  <2>2. Carries(adm[b]) => Carries(FinishAdmission(adm[b]))
    BY <2>1, FinishFields DEF Carries
  <2>3. adm' = [adm EXCEPT ![b] = FinishAdmission(adm[b])]  BY <1>6 DEF Settle
  <2>4. Attending => Carries(adm'[agentOn])
    BY <1>2, <2>2, <2>3
  <2> QED  BY <1>1, <1>6, <2>4
<1>7. ASSUME NEW r \in Requests, RespondAccepted(r) PROVE Attached'
  <2>1. on[r] \in Admissions  BY <1>7 DEF RespondAccepted, Refers
  <2> QED  BY <1>6, <1>7, <2>1 DEF RespondAccepted
<1>8. ASSUME NEW r \in Requests, RespondRejected(r) \/ Fail(r) PROVE Attached'
  <2>1. /\ UNCHANGED <<worker, agent, agentOn>>
        /\ pc[r] = "executing"
        /\ undercut => undercut'
    BY <1>8 DEF RespondRejected, Fail
  <2>2. CASE ~Attending
    BY <1>1, <2>1, <2>2 DEF Attending
  <2>3. CASE Attending
    <3>1. agentOn \in Admissions /\ Carries(adm[agentOn]) /\ worker = "live"
      BY <1>2, <2>3 DEF Attending
    <3>2. /\ on[r] \in Admissions /\ adm[on[r]].stage = "open"
          /\ current = on[r] /\ current = agentOn
      BY <2>1, <3>1 DEF Held, Refers, Registered, Carries
    <3>3. CASE undercut'
      <4>1. ~(worker' = "unstarted")  BY <2>1, <3>1
      <4> QED  BY <3>3, <4>1, Zenon DEF Attached
    <3>4. CASE ~undercut'
      <4>1. RespondRejected(r) /\ ~adm[on[r]].awaits
        BY <1>8, <2>3, <3>2, <3>4 DEF RespondRejected, Fail, Undercuts, Attending
      <4>2. Settle(r, on[r], adm[on[r]])  BY <4>1 DEF RespondRejected
      <4> QED  BY <1>6, <2>1, <3>2, <4>2
    <3> QED  BY <3>3, <3>4
  <2> QED  BY <2>2, <2>3
<1>9. ASSUME NEW a \in Admissions, AdmissionStep(a) PROVE Attached'
  <2>1. \A b \in Admissions : Carries(adm[b]) => adm'[b] = adm[b]
    BY <1>9 DEF AdmissionStep, Grant, Deny, CloseLease, FinishClose, Carries
  <2>2. UNCHANGED <<worker, agent, agentOn, undercut>>
    BY <1>9 DEF AdmissionStep, Grant, Deny, CloseLease, FinishClose
  <2> QED  BY <1>1, <1>2, <2>1, <2>2
<1>10. ASSUME NEW by \in Prompts \cup Commands \cup {None}, AgentStart(by)
       PROVE  Attached'
  <2>1. worker' = "live" /\ worker = "live"  BY <1>10 DEF AgentStart
  <2>2. CASE by = None
    BY <1>10, <2>1, <2>2 DEF AgentStart, Attached
  <2>3. CASE by # None
    <3>1. by \in Requests /\ pc[by] = "executing"
      BY <1>10, <2>3 DEF AgentStart, Requests, AgentRuns
    <3>2. /\ on[by] \in Admissions /\ adm[on[by]].stage = "open"
          /\ ~adm[on[by]].released /\ current = on[by]
      BY <2>1, <3>1 DEF Held, Refers, Registered
    <3>3. ~Closing(adm[current])  BY <3>2 DEF Closing, Done
    <3> DEFINE t == [adm[current] EXCEPT !.running = TRUE]
    <3>4. adm' = [adm EXCEPT ![current] = t] /\ agentOn' = current
      BY <1>10, <2>3, <3>2, <3>3 DEF AgentStart
    <3>5. Carries(t)
      <4>1. adm[current] \in AdmissionState  BY <3>2
      <4> QED  BY <3>2, <4>1, UpdateFields DEF Carries
    <3> HIDE DEF t
    <3>6. Carries(adm'[agentOn'])  BY <3>2, <3>4, <3>5
    <3> QED  BY <2>1, <3>6 DEF Attached, Carries
  <2> QED  BY <2>2, <2>3
<1>11. CASE StartWorker
  BY <1>2, <1>11 DEF StartWorker, Attached
<1>12. CASE FinishStart
  <2>1. CASE current # None /\ adm[current].phase = "worker-start"
    <3>1. current \in Admissions  BY <2>1
    <3> QED  BY <1>6, <1>12, <2>1, <3>1, StartIsRequest DEF FinishStart
  <2>2. CASE ~(current # None /\ adm[current].phase = "worker-start")
    BY <1>1, <1>2, <1>12, <2>2 DEF FinishStart
  <2> QED  BY <2>1, <2>2
<1>13. CASE AgentSettled \/ Exit
  BY <1>13 DEF AgentSettled, Exit, Attached
<1>14. CASE RemoveWorker \/ DisposeAdmissions \/ BeginDispose
  <2>1. UNCHANGED <<agent, agentOn, undercut>> /\ worker' # "unstarted"
    BY <1>14 DEF RemoveWorker, DisposeAdmissions, BeginDispose
  <2>2. CASE Attending
    <3>1. BeginDispose  BY <1>2, <1>14, <2>2 DEF RemoveWorker, DisposeAdmissions
    <3>2. worker = "live"  BY <1>2, <2>2
    <3>3. UNCHANGED <<adm, worker, agent, agentOn, undercut>>
      BY <3>1, <3>2 DEF BeginDispose
    <3> QED  BY <1>1, <1>2, <3>3
  <2>3. CASE ~Attending
    <3>1. ~Attending'  BY <2>1, <2>3
    <3> QED  BY <2>1, <3>1 DEF Attached
  <2> QED  BY <2>2, <2>3
<1>15. CASE FailStart \/ EndDispose \/ UNCHANGED vars
  BY <1>1, <1>2, <1>15 DEF FailStart, EndDispose, vars
<1> HIDE DEF IInv, TypeOK, Attending
<1> QED
  BY <1>3, <1>4, <1>5, <1>7, <1>8, <1>9, <1>10, <1>11, <1>12, <1>13, <1>14, <1>15
  DEF Next, RequestStep, WorkerAnswer

\* Whatever requests come, fail, are refused or wait: the lease under which an
\* agent run began stays open until agent_settled, unless a request that shares
\* its admission has failed or been refused meanwhile (run admission_sibling
\* shows that case).
THEOREM AgentCovered == Spec => []AgentLeaseKept
<1>1. Init => Attached  BY DEF Init, Attached
<1>2. IInv /\ Attached /\ [Next]_vars => Attached'  BY AttachedStep
<1>3. Attached => AgentLeaseKept  BY DEF Attached, AgentLeaseKept, AgentUnderLease
<1> QED  BY <1>1, <1>2, <1>3, Invariant, PTL DEF Spec

=============================================================================
