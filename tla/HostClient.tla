----------------------------- MODULE HostClient -----------------------------
(***************************************************************************)
(* The client of one worker process                                        *)
(* (packages/runtime-broker/src/host-client.ts, PiHostClient): start and   *)
(* handshake, requests with and without a timeout, the event sequence,     *)
(* snapshots deferred until the broker has bound a session, failure, exit  *)
(* and disposal; with the broker calls that bind (createSession,           *)
(* openSession) and fork a session as its users.                           *)
(*                                                                         *)
(* Node emits the IPC messages of one read one after the other and runs    *)
(* promise continuations after the last of them.  So the handler of a      *)
(* message only settles promises; a continuation is an action of its own,  *)
(* which other messages may precede, but no timer, call or exit (Drained). *)
(*                                                                         *)
(* The worker process (external) is what the client relies on: it answers  *)
(* requests in any order, numbers its events, sends host.ready first, and  *)
(* may at any time hang, die or break the protocol.                        *)
(***************************************************************************)
EXTENDS Naturals, Sequences, FiniteSets

CONSTANTS
  Requests,          \* plain requests of the broker
  Forks,             \* forkSession calls, each with its session.fork request
  bind, hello, bye,  \* session.create or open, host.handshake, host.shutdown
  Timed,             \* the plain requests that are given a timeout
  Sessions,
  MaxSeq,            \* bound on the events a worker sends
  None

All   == Requests \cup Forks \cup {bind, hello, bye}
Users == Forks \cup {bind}
Seqs  == 0 .. MaxSeq

ASSUME RequestsAssumption ==
  /\ {bind, hello, bye} \cap (Requests \cup Forks) = {}
  /\ bind # hello /\ bind # bye /\ hello # bye
  /\ Requests \cap Forks = {}
  /\ Timed \subseteq Requests

ASSUME ForksAssumption == IsFiniteSet(Forks)

ASSUME SeqAssumption == MaxSeq \in Nat

ASSUME NoneAssumption == None \notin Sessions

VARIABLES
  proc,       \* the process: "none", "running" or "dead"
  killed,     \* SIGKILL was sent
  wire,       \* messages from the worker, not yet read
  inbox,      \* requests the worker has received and not answered
  serves,     \* the session active in the worker
  used,       \* sessions the worker has been on
  next,       \* number of the worker's next event
  claim,      \* claim[n]: the session that event n, a snapshot, is about, or None
  boot,       \* where start() stands
  ready,      \* the promise `ready' of start()
  connected,  \* child.connected
  exited,     \* the close event was handled: #child is undefined, onExit called
  terminal,   \* #terminalError is set
  pending,    \* #pending
  timers,     \* requests whose timer is armed
  promise,    \* the promise of each request
  answer,     \* the session that the response of a bind or fork names
  expected,   \* #lastSequence + 1, the number the next event must have
  sessionId,  \* #sessionId
  depth,      \* #sessionTransitionDepth
  deferred,   \* #deferredSessionSnapshots, which is in order of number
  forwarded,  \* events the broker has emitted
  stop,       \* where dispose() stands
  pc, arg     \* where the broker's binding and forking calls stand

worker == <<proc, inbox, serves, used, next, claim, answer>>
link   == <<killed, wire, connected, exited>>
reqs   == <<terminal, pending, timers, promise>>
events == <<expected, sessionId, depth, deferred, forwarded>>
calls  == <<pc, arg>>
vars   == <<worker, link, reqs, events, boot, ready, stop, calls>>

disposing == stop \in {"shutdown", "exit", "kill"}
disposed  == stop = "disposed"

-----------------------------------------------------------------------------
(***************************************************************************)
(* No promise continuation is waiting to run.                              *)
(***************************************************************************)
Settled(r) == promise[r] \in {"resolved", "rejected"}

Drained ==
  /\ ~(boot = "ready" /\ ready # "waiting")
  /\ ~(boot = "handshake" /\ Settled(hello))
  /\ ~(stop = "shutdown" /\ Settled(bye))
  /\ ~(stop \in {"exit", "kill"} /\ exited)
  /\ \A u \in Users : ~(pc[u] = "asked" /\ Settled(u))

(* Mutant: no timer is armed. *)
SendRequest_NoTimer(r) ==
  /\ pending' = pending \cup {r}
  /\ timers' = timers
  /\ promise' = [promise EXCEPT ![r] = "waiting"]
  /\ inbox' = IF proc = "running" THEN inbox \cup {r} ELSE inbox

(***************************************************************************)
(* #sendRequest, for a connected child: the request is filed, its timer    *)
(* armed, the message sent; a dead process does not get it.                *)
(***************************************************************************)
SendRequest(r) ==
  /\ pending' = pending \cup {r}
  /\ timers' = IF r \in Timed \cup {hello, bye} THEN timers \cup {r} ELSE timers
  /\ promise' = [promise EXCEPT ![r] = "waiting"]
  /\ inbox' = IF proc = "running" THEN inbox \cup {r} ELSE inbox

CanSend == connected /\ ~exited

(***************************************************************************)
(* request() throws otherwise.                                             *)
(***************************************************************************)
CanRequest == ~disposed /\ ~disposing /\ ~terminal /\ boot = "up" /\ CanSend

(***************************************************************************)
(* The requests of R leave #pending with their timers.                     *)
(***************************************************************************)
Settle(R, v) ==
  /\ pending' = pending \ R
  /\ timers' = timers \ R
  /\ promise' = [r \in All |-> IF r \in R THEN v ELSE promise[r]]

(***************************************************************************)
(* #fail: the first error stays; start() and every pending request are     *)
(* rejected.                                                               *)
(***************************************************************************)
Fail ==
  /\ terminal' = TRUE
  /\ ready' = IF ready = "waiting" THEN "rejected" ELSE ready
  /\ Settle(pending, "rejected")

(***************************************************************************)
(* #forceTerminate up to its wait for the exit.                            *)
(***************************************************************************)
Kill == killed' = (killed \/ proc = "running")

(***************************************************************************)
(* #deliverEvent and the broker's onEvent, which emits events without a    *)
(* session and those of the pinned session (classifyWorkerEventIdentity).  *)
(***************************************************************************)
Accepted(s) == s \in {None, sessionId}

Deferrable(s) ==
  /\ s # None
  /\ sessionId = None \/ (depth > 0 /\ s # sessionId)

OfSession(N, s) == {n \in N : claim[n] = s}

-----------------------------------------------------------------------------
Init ==
  /\ proc = "none" /\ killed = FALSE
  /\ wire = <<>> /\ inbox = {}
  /\ serves = None /\ used = {}
  /\ next = 0 /\ claim = [n \in Seqs |-> None]
  /\ boot = "new" /\ ready = "waiting"
  /\ connected = FALSE /\ exited = FALSE
  /\ terminal = FALSE
  /\ pending = {} /\ timers = {}
  /\ promise = [r \in All |-> "unsent"]
  /\ answer = [u \in Users |-> None]
  /\ expected = 0 /\ sessionId = None /\ depth = 0
  /\ deferred = {} /\ forwarded = {}
  /\ stop = "none"
  /\ pc = [u \in Users |-> "call"]
  /\ arg = [u \in Users |-> None]

-----------------------------------------------------------------------------
(***************************************************************************)
(* start().                                                                *)
(***************************************************************************)
Start ==
  /\ boot = "new"
  /\ Drained
  /\ IF disposed
       THEN boot' = "threw" /\ UNCHANGED <<proc, connected>>
       ELSE boot' = "ready" /\ proc' = "running" /\ connected' = TRUE
  /\ UNCHANGED <<inbox, serves, used, next, claim, answer, killed, wire, exited,
                 reqs, events, ready, stop, calls>>

(***************************************************************************)
(* The catch block of start().                                             *)
(***************************************************************************)
StartFails == boot' = "killing" /\ Fail /\ Kill

ReadyTimeout ==
  /\ boot = "ready"
  /\ Drained
  /\ StartFails
  /\ UNCHANGED <<worker, wire, connected, exited, events, stop, calls>>

ReadySettled ==
  /\ boot = "ready"
  /\ ready # "waiting"
  /\ IF ready = "resolved" /\ CanSend
       THEN boot' = "handshake" /\ SendRequest(hello) /\ UNCHANGED <<killed, terminal, ready>>
       ELSE StartFails /\ UNCHANGED inbox
  /\ UNCHANGED <<proc, serves, used, next, claim, answer, wire, connected, exited,
                 events, stop, calls>>

HandshakeSettled ==
  /\ boot = "handshake"
  /\ Settled(hello)
  /\ IF promise[hello] = "resolved"
       THEN boot' = "up" /\ UNCHANGED <<reqs, ready, killed>>
       ELSE StartFails
  /\ UNCHANGED <<worker, wire, connected, exited, events, stop, calls>>

(***************************************************************************)
(* #forceTerminate returns: the exit was seen or three seconds are over.   *)
(***************************************************************************)
StartThrows ==
  /\ boot = "killing"
  /\ boot' = "threw"
  /\ UNCHANGED <<worker, link, reqs, events, ready, stop, calls>>

-----------------------------------------------------------------------------
(***************************************************************************)
(* request(), from the broker.                                             *)
(***************************************************************************)
Request(r) ==
  /\ promise[r] = "unsent"
  /\ Drained
  /\ IF CanRequest
       THEN SendRequest(r)
       ELSE promise' = [promise EXCEPT ![r] = "rejected"] /\ UNCHANGED <<pending, timers, inbox>>
  /\ UNCHANGED <<proc, serves, used, next, claim, answer, link, terminal, events,
                 boot, ready, stop, calls>>

(* Mutant: a timeout rejects the promise and leaves the entry in #pending. *)
Timeout_Kept(r) ==
  /\ r \in timers
  /\ Drained
  /\ timers' = timers \ {r}
  /\ promise' = [promise EXCEPT ![r] = "rejected"]
  /\ UNCHANGED <<worker, link, terminal, pending, events, boot, ready, stop, calls>>

Timeout(r) ==
  /\ r \in timers
  /\ Drained
  /\ Settle({r}, "rejected")
  /\ UNCHANGED <<worker, link, terminal, events, boot, ready, stop, calls>>

(***************************************************************************)
(* The send callback reports an error (rejectSend).                        *)
(***************************************************************************)
SendError(r) ==
  /\ r \in pending
  /\ proc = "dead"
  /\ Settle({r}, "rejected")
  /\ UNCHANGED <<worker, link, terminal, events, boot, ready, stop, calls>>

-----------------------------------------------------------------------------
(***************************************************************************)
(* #handleMessage.                                                         *)
(***************************************************************************)
Message == Head(wire)

(* Mutant: a response settles its promise whether or not it is pending. *)
HandleResponse_Late ==
  /\ Message.kind = "response"
  /\ Settle({Message.id}, IF Message.ok THEN "resolved" ELSE "rejected")
  /\ UNCHANGED <<killed, terminal, events, ready>>

HandleResponse ==
  /\ Message.kind = "response"
  /\ Settle({Message.id} \cap pending, IF Message.ok THEN "resolved" ELSE "rejected")
  /\ UNCHANGED <<killed, terminal, events, ready>>

(***************************************************************************)
(* A message that cannot be decoded or is no response and no event, or a   *)
(* gap in the sequence.                                                    *)
(***************************************************************************)
HandleViolation ==
  /\ Message.kind = "garbage" \/ (Message.kind = "event" /\ Message.seq # expected)
  /\ Fail
  /\ Kill
  /\ UNCHANGED events

HandleEvent ==
  /\ Message.kind = "event"
  /\ Message.seq = expected
  /\ expected' = expected + 1
  /\ ready' = IF Message.seq = 0 /\ ready = "waiting" THEN "resolved" ELSE ready
  /\ LET s == claim[Message.seq] IN
       /\ deferred' = IF Deferrable(s) THEN deferred \cup {Message.seq} ELSE deferred
       /\ forwarded' = IF ~Deferrable(s) /\ Accepted(s) THEN forwarded \cup {Message.seq}
                                                        ELSE forwarded
  /\ UNCHANGED <<killed, reqs, sessionId, depth>>

HandleMessage ==
  /\ wire # <<>>
  /\ wire' = Tail(wire)
  /\ HandleResponse \/ HandleViolation \/ HandleEvent
  /\ UNCHANGED <<worker, connected, exited, boot, stop, calls>>

-----------------------------------------------------------------------------
(***************************************************************************)
(* The end of the process and of its channel.                              *)
(***************************************************************************)
Disconnect ==
  /\ connected
  /\ wire = <<>>
  /\ Drained
  /\ connected' = FALSE
  /\ UNCHANGED <<worker, killed, wire, exited, reqs, events, boot, ready, stop, calls>>

(***************************************************************************)
(* The error event: the process could not be spawned.                      *)
(***************************************************************************)
ChildError ==
  /\ proc = "dead" /\ next = 0 /\ ~exited /\ ~terminal
  /\ Drained
  /\ Fail
  /\ UNCHANGED <<worker, link, events, boot, stop, calls>>

(***************************************************************************)
(* The close event comes after the last message.                           *)
(***************************************************************************)
Close ==
  /\ proc = "dead" /\ wire = <<>> /\ ~connected /\ ~exited
  /\ Drained
  /\ exited' = TRUE
  /\ Fail
  /\ UNCHANGED <<worker, killed, wire, connected, events, boot, stop, calls>>

-----------------------------------------------------------------------------
(* Mutant: dispose() ends without #fail. *)
DisposeEnds_Silent == stop' = "disposed" /\ UNCHANGED <<reqs, ready>>

(***************************************************************************)
(* dispose().  The finally block of #performDispose.                       *)
(***************************************************************************)
DisposeEnds == stop' = "disposed" /\ Fail

BeginDispose ==
  IF stop # "none" THEN UNCHANGED <<stop, reqs, ready, inbox>>
  ELSE IF proc = "none" \/ exited THEN DisposeEnds /\ UNCHANGED inbox
  ELSE IF connected THEN stop' = "shutdown" /\ SendRequest(bye) /\ UNCHANGED <<terminal, ready>>
  ELSE stop' = "exit" /\ UNCHANGED <<reqs, ready, inbox>>

Dispose ==
  /\ stop = "none"
  /\ Drained
  /\ BeginDispose
  /\ UNCHANGED <<proc, serves, used, next, claim, answer, link, events, boot, calls>>

(* Mutant: a rejected host.shutdown is not caught. *)
ShutdownSettled_Uncaught ==
  /\ stop = "shutdown"
  /\ promise[bye] = "resolved"
  /\ stop' = "exit"
  /\ UNCHANGED <<worker, link, reqs, events, boot, ready, calls>>

ShutdownSettled ==
  /\ stop = "shutdown"
  /\ Settled(bye)
  /\ stop' = "exit"
  /\ UNCHANGED <<worker, link, reqs, events, boot, ready, calls>>

ExitSeen ==
  /\ stop \in {"exit", "kill"}
  /\ exited
  /\ DisposeEnds
  /\ UNCHANGED <<worker, link, events, boot, calls>>

(* Mutant: when the process does not exit in time it is not killed. *)
ExitTimeout_NoKill ==
  /\ stop = "exit"
  /\ Drained
  /\ DisposeEnds
  /\ UNCHANGED <<worker, link, events, boot, calls>>

ExitTimeout ==
  /\ stop = "exit"
  /\ Drained
  /\ Kill
  /\ IF proc = "running" THEN stop' = "kill" /\ UNCHANGED <<reqs, ready>> ELSE DisposeEnds
  /\ UNCHANGED <<worker, wire, connected, exited, events, boot, calls>>

KillTimeout ==
  /\ stop = "kill"
  /\ Drained
  /\ DisposeEnds
  /\ UNCHANGED <<worker, link, events, boot, calls>>

-----------------------------------------------------------------------------
(***************************************************************************)
(* createSession and openSession: the response pins the session, the       *)
(* metadata of the session is read, the deferred snapshots are published.  *)
(* When a step fails the worker is removed, that is, disposed.             *)
(***************************************************************************)
Step(u, l) == pc' = [pc EXCEPT ![u] = l]

BindThrows == Step(bind, "threw") /\ BeginDispose

CallBind ==
  /\ pc[bind] = "call"
  /\ boot = "up"
  /\ Drained
  /\ IF CanRequest THEN Step(bind, "asked") /\ SendRequest(bind) /\ UNCHANGED <<terminal, stop, ready>>
                   ELSE BindThrows
  /\ UNCHANGED <<proc, serves, used, next, claim, answer, link, events, boot, arg>>

BindSettled ==
  /\ pc[bind] = "asked"
  /\ Settled(bind)
  /\ IF promise[bind] = "resolved"
       THEN /\ sessionId' = answer[bind]
            /\ Step(bind, "enriching")
            /\ UNCHANGED <<reqs, inbox, stop, ready>>
       ELSE BindThrows /\ UNCHANGED sessionId
  /\ UNCHANGED <<proc, serves, used, next, claim, answer, link, expected, depth,
                 deferred, forwarded, boot, arg>>

(***************************************************************************)
(* The session.summary of #rememberSummary is answered; metadata files are *)
(* read next.                                                              *)
(***************************************************************************)
SummaryAnswered(u) ==
  /\ \/ pc[u] = "enriching" /\ Step(u, "recording")
     \/ pc[u] = "summary" /\ Step(u, "begin")
  /\ connected /\ ~terminal
  /\ Drained
  /\ UNCHANGED <<worker, link, reqs, events, boot, ready, stop, arg>>

(* Mutant: flushDeferredSessionSnapshots does not empty the list. *)
Flush_Kept ==
  /\ deferred' = deferred
  /\ forwarded' = forwarded \cup OfSession(deferred, sessionId)

(***************************************************************************)
(* flushDeferredSessionSnapshots: what is not of the pinned session is     *)
(* dropped with a diagnostic.                                              *)
(***************************************************************************)
Flush ==
  /\ deferred' = {}
  /\ forwarded' = forwarded \cup OfSession(deferred, sessionId)

(***************************************************************************)
(* The end of a transition: when no other is open the deferred snapshots   *)
(* of other sessions are discarded.  d is the depth in it.                 *)
(***************************************************************************)
EndTransition(d) ==
  /\ depth' = d - 1
  /\ deferred' = IF d = 1 THEN OfSession(deferred, sessionId) ELSE deferred

(* Mutant: createSession and openSession end a transition as well. *)
Recorded_EndsAlways(u) ==
  /\ pc[u] = "recording"
  /\ Drained
  /\ Step(u, "done")
  /\ Flush
  /\ depth' = depth - 1
  /\ UNCHANGED <<worker, link, reqs, expected, sessionId, boot, ready, stop, arg>>

Recorded(u) ==
  /\ pc[u] = "recording"
  /\ Drained
  /\ Step(u, "done")
  /\ Flush
  /\ depth' = IF u \in Forks THEN depth - 1 ELSE depth
  /\ UNCHANGED <<worker, link, reqs, expected, sessionId, boot, ready, stop, arg>>

BindFails ==
  /\ pc[bind] \in {"enriching", "recording"}
  /\ Drained
  /\ BindThrows
  /\ UNCHANGED <<proc, serves, used, next, claim, answer, link, events, boot, arg>>

(***************************************************************************)
(* forkSession: a summary, then the transition around session.fork.  A     *)
(* call that cannot ask for the summary throws at once.                    *)
(***************************************************************************)
CallFork(f) ==
  /\ pc[f] = "call"
  /\ sessionId # None
  /\ CanRequest
  /\ Drained
  /\ arg' = [arg EXCEPT ![f] = sessionId]
  /\ Step(f, "summary")
  /\ UNCHANGED <<worker, link, reqs, events, boot, ready, stop>>

ForkSummarised(f) ==
  /\ pc[f] = "begin"
  /\ Drained
  /\ IF CanRequest
       THEN /\ depth' = depth + 1
            /\ SendRequest(f)
            /\ Step(f, "asked")
            /\ UNCHANGED deferred
       ELSE /\ EndTransition(depth + 1)
            /\ Step(f, "threw")
            /\ UNCHANGED <<pending, timers, promise, inbox>>
  /\ UNCHANGED <<proc, serves, used, next, claim, answer, link, terminal, expected,
                 sessionId, forwarded, boot, ready, stop, arg>>

ForkSettled(f) ==
  /\ pc[f] = "asked"
  /\ Settled(f)
  /\ IF promise[f] = "resolved"
       THEN /\ sessionId' = answer[f]
            /\ Step(f, "enriching")
            /\ UNCHANGED <<depth, deferred>>
       ELSE EndTransition(depth) /\ Step(f, "threw") /\ UNCHANGED sessionId
  /\ UNCHANGED <<worker, link, reqs, expected, forwarded, boot, ready, stop, arg>>

(* Mutant: the transition ends on success and with a failed session.fork only. *)
ForkFails_Open(f) ==
  /\ Drained
  /\ pc[f] \in {"summary", "begin", "enriching", "recording"}
  /\ Step(f, "threw")
  /\ UNCHANGED <<worker, link, reqs, events, boot, ready, stop, arg>>

ForkFails(f) ==
  /\ Drained
  /\ \/ pc[f] \in {"summary", "begin"} /\ UNCHANGED <<depth, deferred>>
     \/ pc[f] \in {"enriching", "recording"} /\ EndTransition(depth)
  /\ Step(f, "threw")
  /\ UNCHANGED <<worker, link, reqs, expected, sessionId, forwarded, boot, ready,
                 stop, arg>>

-----------------------------------------------------------------------------
(***************************************************************************)
(* The worker process.                                                     *)
(***************************************************************************)
Alive == proc = "running" /\ connected

Send(m) == wire' = Append(wire, m)

Emit ==
  /\ Alive
  /\ next \in Seqs
  /\ \E s \in {None} \cup (IF next = 0 THEN {} ELSE {serves}) :
       claim' = [claim EXCEPT ![next] = s]
  /\ Send([kind |-> "event", seq |-> next])
  /\ next' = next + 1
  /\ UNCHANGED <<proc, inbox, serves, used, answer, killed, connected, exited, reqs,
                 events, boot, ready, stop, calls>>

(***************************************************************************)
(* A worker that breaks the protocol loses an event or sends a message     *)
(* that is none.  One such message at a time is enough.                    *)
(***************************************************************************)
Misbehave ==
  /\ Alive
  /\ ~terminal
  /\ \/ next \in Seqs /\ next' = next + 1 /\ UNCHANGED wire
     \/ /\ \A i \in 1 .. Len(wire) : wire[i].kind # "garbage"
        /\ Send([kind |-> "garbage"]) /\ UNCHANGED next
  /\ UNCHANGED <<proc, inbox, serves, used, claim, answer, killed, connected, exited,
                 reqs, events, boot, ready, stop, calls>>

(***************************************************************************)
(* session.create, session.open and session.fork make a session active; a  *)
(* cancelled fork stays on its session.                                    *)
(***************************************************************************)
Switch(u) ==
  /\ Alive
  /\ u \in inbox
  /\ answer[u] = None
  /\ \E s \in (Sessions \ used) \cup (IF u \in Forks THEN {arg[u]} ELSE {}) :
       /\ u \in Forks => serves = arg[u]
       /\ serves' = s
       /\ used' = used \cup {s}
       /\ answer' = [answer EXCEPT ![u] = s]
  /\ UNCHANGED <<proc, inbox, next, claim, link, reqs, events, boot, ready, stop, calls>>

Answer(r, ok) ==
  /\ Alive
  /\ r \in inbox
  /\ ok /\ r \in Users => answer[r] # None
  /\ inbox' = inbox \ {r}
  /\ Send([kind |-> "response", id |-> r, ok |-> ok])
  /\ UNCHANGED <<proc, serves, used, next, claim, answer, killed, connected, exited,
                 reqs, events, boot, ready, stop, calls>>

Die ==
  /\ proc = "running"
  /\ proc' = "dead"
  /\ inbox' = {}
  /\ UNCHANGED <<serves, used, next, claim, answer, link, reqs, events, boot, ready,
                 stop, calls>>

-----------------------------------------------------------------------------
Client ==
  \/ Start \/ ReadyTimeout \/ ReadySettled \/ HandshakeSettled \/ StartThrows
  \/ \E r \in Requests : Request(r)
  \/ \E r \in All : Timeout(r) \/ SendError(r)
  \/ HandleMessage \/ Disconnect \/ ChildError \/ Close
  \/ Dispose \/ ShutdownSettled \/ ExitSeen \/ ExitTimeout \/ KillTimeout

Broker ==
  \/ CallBind \/ BindSettled \/ BindFails
  \/ \E u \in Users : SummaryAnswered(u) \/ Recorded(u)
  \/ \E f \in Forks : CallFork(f) \/ ForkSummarised(f) \/ ForkSettled(f) \/ ForkFails(f)

Process ==
  \/ Emit \/ Misbehave \/ Die
  \/ \E u \in Users : Switch(u)
  \/ \E r \in All, ok \in BOOLEAN : Answer(r, ok)

Next == Client \/ Broker \/ Process

Spec == Init /\ [][Next]_vars

(***************************************************************************)
(* Continuations run and timers fire; nothing is assumed of the worker.    *)
(***************************************************************************)
FairSpec ==
  /\ Spec
  /\ WF_vars(ReadyTimeout) /\ WF_vars(ReadySettled) /\ WF_vars(HandshakeSettled)
  /\ WF_vars(StartThrows)
  /\ \A r \in All : WF_vars(Timeout(r))
  /\ WF_vars(BindSettled) /\ \A f \in Forks : WF_vars(ForkSettled(f))
  /\ WF_vars(ShutdownSettled) /\ WF_vars(ExitSeen) /\ WF_vars(ExitTimeout)
  /\ WF_vars(KillTimeout)

-----------------------------------------------------------------------------
Messages ==
  [kind : {"event"}, seq : Seqs]
    \cup [kind : {"response"}, id : All, ok : BOOLEAN]
    \cup [kind : {"garbage"}]

TypeOK ==
  /\ proc \in {"none", "running", "dead"}
  /\ killed \in BOOLEAN /\ connected \in BOOLEAN /\ exited \in BOOLEAN
  /\ terminal \in BOOLEAN
  /\ wire \in Seq(Messages)
  /\ inbox \subseteq All /\ pending \subseteq All /\ timers \subseteq All
  /\ serves \in Sessions \cup {None} /\ used \subseteq Sessions
  /\ next \in 0 .. MaxSeq + 1 /\ expected \in 0 .. MaxSeq + 1
  /\ claim \in [Seqs -> Sessions \cup {None}]
  /\ boot \in {"new", "ready", "handshake", "up", "killing", "threw"}
  /\ ready \in {"waiting", "resolved", "rejected"}
  /\ promise \in [All -> {"unsent", "waiting", "resolved", "rejected"}]
  /\ answer \in [Users -> Sessions \cup {None}]
  /\ sessionId \in Sessions \cup {None} /\ depth \in Nat
  /\ deferred \subseteq Seqs /\ forwarded \subseteq Seqs
  /\ stop \in {"none", "shutdown", "exit", "kill", "disposed"}
  /\ pc \in [Users -> {"call", "summary", "begin", "asked", "enriching",
                       "recording", "done", "threw"}]
  /\ arg \in [Users -> Sessions \cup {None}]

(***************************************************************************)
(* The requests behave as RequestChannel says: settled at most once and    *)
(* never issued or left waiting after the exit or the disposal.            *)
(***************************************************************************)
Channel == INSTANCE RequestChannel
             WITH Requests <- All, status <- promise, closed <- exited \/ disposed

ImplementsChannel == Channel!Spec

(***************************************************************************)
(* A request is in #pending exactly while its promise is unsettled, and    *)
(* only then may its timer be armed: no path (response, timeout, send      *)
(* error, failure, exit, disposal) settles one without the other.          *)
(***************************************************************************)
PendingExact ==
  /\ pending = {r \in All : promise[r] = "waiting"}
  /\ timers \subseteq pending

(***************************************************************************)
(* After the exit or the disposal nothing is pending, and start() is not   *)
(* waiting either, although #sendRequest looks at neither flag.            *)
(***************************************************************************)
NothingPending ==
  exited \/ disposed => pending = {} /\ ~(boot = "ready" /\ ready = "waiting")

(***************************************************************************)
(* A client that has failed or is disposed leaves no process that was not  *)
(* told to die.                                                            *)
(***************************************************************************)
FailureKills == terminal /\ proc = "running" => killed

(***************************************************************************)
(* An event is emitted once: not again from the deferred snapshots.        *)
(***************************************************************************)
ForwardedOnce == forwarded \cap deferred = {} /\ forwarded \cup deferred \subseteq 0 .. expected - 1

(***************************************************************************)
(* The depth counts the forks between beginSessionTransition and the end   *)
(* of their transition.                                                    *)
(***************************************************************************)
DepthExact ==
  depth = Cardinality({f \in Forks : pc[f] \in {"asked", "enriching", "recording"}})

(***************************************************************************)
(* dispose() ends, and start() with it, whatever the worker does.          *)
(***************************************************************************)
DisposeSettles ==
  /\ stop # "none" ~> disposed
  /\ stop # "none" /\ boot # "new" ~> boot \in {"up", "threw"}

(***************************************************************************)
(* A request with a timeout is settled, whatever the worker does.          *)
(***************************************************************************)
TimedRequestSettles == \A r \in Timed : promise[r] = "waiting" ~> Settled(r)

=============================================================================
