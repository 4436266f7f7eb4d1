-------------------------- MODULE HostClientProofs --------------------------
(***************************************************************************)
(* Proofs about HostClient, for any sets of requests and sessions, any     *)
(* finite set of forks and any number of events.                           *)
(***************************************************************************)
EXTENDS HostClient, FiniteSetTheorems, TLAPS

-----------------------------------------------------------------------------
(***************************************************************************)
(* The inductive invariant.  Its first part are the Boolean variables.     *)
(***************************************************************************)
Flags ==
  /\ killed \in BOOLEAN /\ connected \in BOOLEAN
  /\ exited \in BOOLEAN /\ terminal \in BOOLEAN

(* The rest of the type invariant. *)
Types ==
  /\ proc \in {"none", "running", "dead"}
  /\ wire \in Seq(Messages)
  /\ inbox \subseteq All /\ pending \subseteq All /\ timers \subseteq All
  /\ serves \in Sessions \cup {None} /\ used \subseteq Sessions
  /\ next \in 0 .. MaxSeq + 1 /\ expected \in 0 .. MaxSeq + 1
  /\ claim \in [Seqs -> Sessions \cup {None}]
  /\ boot \in {"new", "ready", "handshake", "up", "killing", "threw"}
  /\ ready \in {"waiting", "resolved", "rejected"}
  /\ promise \in [All -> {"unsent", "waiting", "resolved", "rejected"}]
  /\ answer \in [Users -> Sessions \cup {None}]
  /\ sessionId \in Sessions \cup {None} /\ depth \in Nat
  /\ deferred \subseteq Seqs /\ forwarded \subseteq Seqs
  /\ stop \in {"none", "shutdown", "exit", "kill", "disposed"}
  /\ pc \in [Users -> {"call", "summary", "begin", "asked", "enriching",
                       "recording", "done", "threw"}]
  /\ arg \in [Users -> Sessions \cup {None}]

Open == {f \in Forks : pc[f] \in {"asked", "enriching", "recording"}}

(* What a step may do to the open transitions and to the depth. *)
Counted ==
  \/ Open' = Open /\ depth' = depth
  \/ \E f \in Forks \ Open : Open' = Open \cup {f} /\ depth' = depth + 1
  \/ \E f \in Open : Open' = Open \ {f} /\ depth' = depth - 1

(* A request that is still to be sent has not been sent before, the worker has *)
(* sent requests only, and a fork has a session.                               *)
Unsent ==
  /\ \A r \in inbox : promise[r] # "unsent"
  /\ \A f \in Forks : pc[f] # "call" => arg[f] \in Sessions
  /\ boot \in {"new", "ready"} => promise[hello] = "unsent"
  /\ stop = "none" => promise[bye] = "unsent"
  /\ pc[bind] = "call" => promise[bind] = "unsent"
  /\ \A f \in Forks : pc[f] \in {"call", "summary", "begin"} => promise[f] = "unsent"

(* How start() and the process go together. *)
Life ==
  /\ proc = "none" => boot \in {"new", "threw"} /\ wire = <<>> /\ ~connected
  /\ boot = "new" => proc = "none" /\ (terminal => disposed)
  /\ exited => proc = "dead" /\ wire = <<>> /\ ~connected
  /\ stop = "kill" => killed
  /\ stop = "disposed" => terminal
  /\ pc[bind] # "call" => boot \notin {"new", "ready"}

(* After the end nothing is pending and start() does not go on. *)
Closed ==
  exited \/ disposed => pending = {} /\ (boot = "ready" => ready = "rejected")

IInv ==
  /\ TypeOK /\ PendingExact /\ DepthExact /\ Unsent
  /\ Life /\ Closed /\ FailureKills /\ ForwardedOnce

-----------------------------------------------------------------------------

(* The open transitions are finitely many. *)
LEMMA OpenFinite == IsFiniteSet(Open) /\ Cardinality(Open) \in Nat
<1>1. Open \subseteq Forks  BY DEF Open
<1> QED  BY <1>1, ForksAssumption, FS_Subset, FS_CardinalityType

(* A fork in its transition has been counted. *)
LEMMA DepthPositive ==
  ASSUME DepthExact, NEW f \in Forks, pc[f] \in {"asked", "enriching", "recording"}
  PROVE  depth \in Nat /\ depth - 1 \in Nat
<1>1. f \in Open  BY DEF Open
<1>2. Cardinality(Open) # 0  BY <1>1, OpenFinite, FS_EmptySet
<1>3. depth = Cardinality(Open)  BY DEF DepthExact, Open
<1> QED  BY <1>2, <1>3, OpenFinite

(***************************************************************************)
(* Every step leaves the flags Boolean.                                    *)
(***************************************************************************)
LEMMA FlagsStep ==
  ASSUME Flags, [Next]_vars
  PROVE  Flags'
<1> USE DEF Flags, worker, link, reqs, events, calls
<1>1. ASSUME Start PROVE Flags'
  BY <1>1 DEF Start, disposed
<1>2. ASSUME ReadyTimeout PROVE Flags'
  BY <1>2 DEF ReadyTimeout, StartFails, Fail, Settle, Kill
<1>3. ASSUME ReadySettled PROVE Flags'
  BY <1>3 DEF ReadySettled, StartFails, Fail, Settle, Kill, SendRequest, CanSend
<1>4. ASSUME HandshakeSettled PROVE Flags'
  BY <1>4 DEF HandshakeSettled, StartFails, Fail, Settle, Kill
<1>5. ASSUME StartThrows PROVE Flags'
  BY <1>5 DEF StartThrows
<1>6. ASSUME NEW r \in Requests, Request(r) PROVE Flags'
  BY <1>6 DEF Request, SendRequest, CanRequest, CanSend, disposing, disposed
<1>7. ASSUME NEW r \in All, Timeout(r) PROVE Flags'
  BY <1>7 DEF Timeout, Settle
<1>8. ASSUME NEW r \in All, SendError(r) PROVE Flags'
  BY <1>8 DEF SendError, Settle
<1>9. ASSUME HandleMessage /\ HandleResponse PROVE Flags'
  BY <1>9 DEF HandleMessage, HandleResponse, Message, Settle
<1>10. ASSUME HandleMessage /\ HandleViolation PROVE Flags'
  BY <1>10 DEF HandleMessage, HandleViolation, Message, Kill, Fail, Settle
<1>11. ASSUME HandleMessage /\ HandleEvent PROVE Flags'
  BY <1>11 DEF HandleMessage, HandleEvent, Message, Deferrable, Accepted
<1>12. ASSUME Disconnect PROVE Flags'
  BY <1>12 DEF Disconnect
<1>13. ASSUME ChildError PROVE Flags'
  BY <1>13 DEF ChildError, Fail, Settle
<1>14. ASSUME Close PROVE Flags'
  BY <1>14 DEF Close, Fail, Settle
<1>15. ASSUME Dispose PROVE Flags'
  BY <1>15 DEF Dispose, BeginDispose, DisposeEnds, Fail, Settle, SendRequest
<1>16. ASSUME ShutdownSettled PROVE Flags'
  BY <1>16 DEF ShutdownSettled
<1>17. ASSUME ExitSeen PROVE Flags'
  BY <1>17 DEF ExitSeen, DisposeEnds, Fail, Settle
<1>18. ASSUME ExitTimeout PROVE Flags'
  BY <1>18 DEF ExitTimeout, DisposeEnds, Kill, Fail, Settle
<1>19. ASSUME KillTimeout PROVE Flags'
  BY <1>19 DEF KillTimeout, DisposeEnds, Fail, Settle
<1>20. ASSUME CallBind PROVE Flags'
  BY <1>20 DEF CallBind, BindThrows, Step, CanRequest, CanSend, disposing, disposed,
       BeginDispose, DisposeEnds, Fail, Settle, SendRequest
<1>21. ASSUME BindSettled PROVE Flags'
  BY <1>21 DEF BindSettled, BindThrows, Step, BeginDispose, DisposeEnds, Fail, Settle,
       SendRequest
<1>22. ASSUME BindFails PROVE Flags'
  BY <1>22 DEF BindFails, BindThrows, Step, BeginDispose, DisposeEnds, Fail, Settle,
       SendRequest
<1>23. ASSUME NEW u \in Users, SummaryAnswered(u) PROVE Flags'
  BY <1>23 DEF SummaryAnswered, Step
<1>24. ASSUME NEW u \in Users, Recorded(u) PROVE Flags'
  BY <1>24 DEF Recorded, Step, Flush, OfSession
<1>25. ASSUME NEW f \in Forks, CallFork(f) PROVE Flags'
  BY <1>25 DEF CallFork, Step
<1>26. ASSUME NEW f \in Forks, ForkSummarised(f) PROVE Flags'
  BY <1>26 DEF ForkSummarised, Step, SendRequest, EndTransition, OfSession,
       CanRequest, CanSend, disposing, disposed
<1>27. ASSUME NEW f \in Forks, ForkSettled(f) PROVE Flags'
  BY <1>27 DEF ForkSettled, Step, EndTransition, OfSession
<1>28. ASSUME NEW f \in Forks, ForkFails(f) PROVE Flags'
  BY <1>28 DEF ForkFails, Step, EndTransition, OfSession
<1>29. ASSUME Emit PROVE Flags'
  BY <1>29 DEF Emit, Alive, Send
<1>30. ASSUME Misbehave PROVE Flags'
  BY <1>30 DEF Misbehave, Alive, Send
<1>31. ASSUME Die PROVE Flags'
  BY <1>31 DEF Die
<1>32. ASSUME NEW u \in Users, Switch(u) PROVE Flags'
  BY <1>32 DEF Switch, Alive
<1>33. ASSUME NEW r \in All, NEW ok \in BOOLEAN, Answer(r, ok) PROVE Flags'
  BY <1>33 DEF Answer, Alive, Send
<1>34. CASE UNCHANGED vars
  BY <1>34 DEF vars
<1>35. HandleMessage => HandleMessage
         /\ (HandleResponse \/ HandleViolation \/ HandleEvent)
  BY DEF HandleMessage
<1> HIDE DEF Flags, worker, link, reqs, events, calls
<1>36. ASSUME Client PROVE Flags'
  BY <1>1, <1>2, <1>3, <1>4, <1>5, <1>6, <1>7, <1>8, <1>9, <1>10, <1>11, <1>12, <1>13,
     <1>14, <1>15, <1>16, <1>17, <1>18, <1>19, <1>35, <1>36, Zenon DEF Client
<1>37. ASSUME Broker PROVE Flags'
  BY <1>20, <1>21, <1>22, <1>23, <1>24, <1>25, <1>26, <1>27, <1>28, <1>37, Zenon DEF
     Broker
<1>38. ASSUME Process PROVE Flags'
  BY <1>29, <1>30, <1>31, <1>32, <1>33, <1>38, Zenon DEF Process
<1>39. QED
  BY <1>34, <1>36, <1>37, <1>38, Zenon DEF Next

(***************************************************************************)
(* Every step preserves the type invariant.                                *)
(***************************************************************************)
LEMMA TypesStep ==
  ASSUME TypeOK, DepthExact, Unsent, [Next]_vars
  PROVE  Types'
<1> USE RequestsAssumption, SeqAssumption, NoneAssumption
<1> USE DEF TypeOK, All, Users, Seqs, Messages, Types, worker, link, reqs, events,
            calls
<1>1. ASSUME Start PROVE Types'
  BY <1>1 DEF Start, disposed
<1>2. ASSUME ReadyTimeout PROVE Types'
  BY <1>2 DEF ReadyTimeout, StartFails, Fail, Settle, Kill
<1>3. ASSUME ReadySettled PROVE Types'
  BY <1>3 DEF ReadySettled, StartFails, Fail, Settle, Kill, SendRequest, CanSend
<1>4. ASSUME HandshakeSettled PROVE Types'
  BY <1>4 DEF HandshakeSettled, StartFails, Fail, Settle, Kill
<1>5. ASSUME StartThrows PROVE Types'
  BY <1>5 DEF StartThrows
<1>6. ASSUME NEW r \in Requests, Request(r) PROVE Types'
  BY <1>6 DEF Request, SendRequest, CanRequest, CanSend, disposing, disposed
<1>7. ASSUME NEW r \in All, Timeout(r) PROVE Types'
  BY <1>7 DEF Timeout, Settle
<1>8. ASSUME NEW r \in All, SendError(r) PROVE Types'
  BY <1>8 DEF SendError, Settle
<1>9. ASSUME HandleMessage /\ HandleResponse PROVE Types'
  BY <1>9 DEF HandleMessage, HandleResponse, Message, Settle
<1>10. ASSUME HandleMessage /\ HandleViolation PROVE Types'
  BY <1>10 DEF HandleMessage, HandleViolation, Message, Kill, Fail, Settle
<1>11. ASSUME HandleMessage /\ HandleEvent PROVE Types'
  <2> HIDE DEF Messages
  <2>1. Head(wire) \in Messages /\ Tail(wire) \in Seq(Messages)
    BY <1>11 DEF HandleMessage
  <2>2. Head(wire).seq \in Seqs
    BY <1>11, <2>1 DEF HandleEvent, Message, Messages
  <2>3. expected' \in 0 .. MaxSeq + 1
    BY <1>11, <2>2 DEF HandleEvent, Message
  <2>4. deferred' \subseteq Seqs /\ forwarded' \subseteq Seqs
    BY <1>11, <2>2 DEF HandleEvent, Message
  <2> QED
    BY <1>11, <2>1, <2>3, <2>4 DEF HandleMessage, HandleEvent
<1>12. ASSUME Disconnect PROVE Types'
  BY <1>12 DEF Disconnect
<1>13. ASSUME ChildError PROVE Types'
  BY <1>13 DEF ChildError, Fail, Settle
<1>14. ASSUME Close PROVE Types'
  BY <1>14 DEF Close, Fail, Settle
<1>15. ASSUME Dispose PROVE Types'
  BY <1>15 DEF Dispose, BeginDispose, DisposeEnds, Fail, Settle, SendRequest
<1>16. ASSUME ShutdownSettled PROVE Types'
  BY <1>16 DEF ShutdownSettled
<1>17. ASSUME ExitSeen PROVE Types'
  BY <1>17 DEF ExitSeen, DisposeEnds, Fail, Settle
<1>18. ASSUME ExitTimeout PROVE Types'
  BY <1>18 DEF ExitTimeout, DisposeEnds, Kill, Fail, Settle
<1>19. ASSUME KillTimeout PROVE Types'
  BY <1>19 DEF KillTimeout, DisposeEnds, Fail, Settle
<1>20. ASSUME CallBind PROVE Types'
  BY <1>20 DEF CallBind, BindThrows, Step, CanRequest, CanSend, disposing, disposed,
       BeginDispose, DisposeEnds, Fail, Settle, SendRequest
<1>21. ASSUME BindSettled PROVE Types'
  BY <1>21 DEF BindSettled, BindThrows, Step, BeginDispose, DisposeEnds, Fail, Settle,
       SendRequest
<1>22. ASSUME BindFails PROVE Types'
  BY <1>22 DEF BindFails, BindThrows, Step, BeginDispose, DisposeEnds, Fail, Settle,
       SendRequest
<1>23. ASSUME NEW u \in Users, SummaryAnswered(u) PROVE Types'
  BY <1>23 DEF SummaryAnswered, Step
<1>24. ASSUME NEW u \in Users, Recorded(u) PROVE Types'
  <2>1. depth' \in Nat
    BY <1>24, DepthPositive DEF Recorded
  <2>2. deferred' \subseteq Seqs /\ forwarded' \subseteq Seqs
    BY <1>24 DEF Recorded, Flush, OfSession
  <2>3. pc' = [pc EXCEPT ![u] = "done"]
    BY <1>24 DEF Recorded, Step
  <2> QED
    BY <1>24, <2>1, <2>2, <2>3 DEF Recorded
<1>25. ASSUME NEW f \in Forks, CallFork(f) PROVE Types'
  BY <1>25 DEF CallFork, Step
<1>26. ASSUME NEW f \in Forks, ForkSummarised(f) PROVE Types'
  <2>1. CASE CanRequest
    <3>1. pc' = [pc EXCEPT ![f] = "asked"] /\ depth' = depth + 1 /\ UNCHANGED deferred
      BY <1>26, <2>1 DEF ForkSummarised, Step
    <3>2. /\ pending' \subseteq All /\ timers' \subseteq All /\ inbox' \subseteq All
          /\ promise' = [promise EXCEPT ![f] = "waiting"]
      BY <1>26, <2>1 DEF ForkSummarised, SendRequest
    <3> QED
      BY <1>26, <2>1, <3>1, <3>2 DEF ForkSummarised
  <2>2. CASE ~CanRequest
    <3>1. EndTransition(depth + 1) /\ Step(f, "threw")
      BY <1>26, <2>2 DEF ForkSummarised
    <3>2. depth' = depth
      BY <3>1 DEF EndTransition
    <3>3. deferred' \subseteq Seqs /\ pc' = [pc EXCEPT ![f] = "threw"]
      BY <3>1 DEF EndTransition, OfSession, Step
    <3> QED
      BY <1>26, <2>2, <3>2, <3>3 DEF ForkSummarised
  <2> QED  BY <2>1, <2>2
<1>27. ASSUME NEW f \in Forks, ForkSettled(f) PROVE Types'
  <2>1. CASE promise[f] = "resolved"
    <3>1. pc' = [pc EXCEPT ![f] = "enriching"] /\ sessionId' = answer[f]
            /\ UNCHANGED <<depth, deferred>>
      BY <1>27, <2>1 DEF ForkSettled, Step
    <3> QED
      BY <1>27, <2>1, <3>1 DEF ForkSettled
  <2>2. CASE promise[f] # "resolved"
    <3>1. depth' \in Nat /\ deferred' \subseteq Seqs /\ pc' = [pc EXCEPT ![f] = "threw"]
      BY <1>27, <2>2, DepthPositive DEF ForkSettled, EndTransition, OfSession, Step
    <3> QED
      BY <1>27, <2>2, <3>1 DEF ForkSettled
  <2> QED  BY <2>1, <2>2
<1>28. ASSUME NEW f \in Forks, ForkFails(f) PROVE Types'
  <2>1. depth' \in Nat /\ deferred' \subseteq Seqs /\ pc' = [pc EXCEPT ![f] = "threw"]
    BY <1>28, DepthPositive DEF ForkFails, EndTransition, OfSession, Step
  <2> QED
    BY <1>28, <2>1 DEF ForkFails
<1>29. ASSUME Emit PROVE Types'
  BY <1>29 DEF Emit, Alive, Send
<1>30. ASSUME Misbehave PROVE Types'
  <2>1. [kind |-> "garbage"] \in Messages
    OBVIOUS
  <2> HIDE DEF Messages
  <2>2. wire' \in Seq(Messages) /\ next' \in 0 .. MaxSeq + 1
    <3>1. CASE next \in Seqs /\ next' = next + 1 /\ UNCHANGED wire
      BY <3>1
    <3>2. CASE wire' = Append(wire, [kind |-> "garbage"]) /\ UNCHANGED next
      BY <3>2, <2>1
    <3> QED
      BY <1>30, <3>1, <3>2 DEF Misbehave, Send
  <2> QED
    BY <1>30, <2>2 DEF Misbehave
<1>31. ASSUME Die PROVE Types'
  BY <1>31 DEF Die
<1>32. ASSUME NEW u \in Users, Switch(u) PROVE Types'
  <2>1. PICK s \in (Sessions \ used) \cup (IF u \in Forks THEN {arg[u]} ELSE {}) :
               /\ u \in Forks => serves = arg[u]
               /\ serves' = s
               /\ used' = used \cup {s}
               /\ answer' = [answer EXCEPT ![u] = s]
    BY <1>32 DEF Switch
  <2>2. s \in Sessions
    BY <1>32, <2>1, Unsent DEF Switch, Unsent
  <2>3. serves' \in Sessions /\ used' \subseteq Sessions
          /\ answer' \in [Users -> Sessions \cup {None}]
    BY <2>1, <2>2
  <2> QED
    BY <1>32, <2>3 DEF Switch
<1>33. ASSUME NEW r \in All, NEW ok \in BOOLEAN, Answer(r, ok) PROVE Types'
  BY <1>33 DEF Answer, Alive, Send
<1>34. CASE UNCHANGED vars
  BY <1>34 DEF vars
<1>35. HandleMessage => HandleMessage
         /\ (HandleResponse \/ HandleViolation \/ HandleEvent)
  BY DEF HandleMessage
<1> HIDE DEF TypeOK, All, Users, Seqs, Messages, Types, worker, link, reqs, events,
            calls
<1>36. ASSUME Client PROVE Types'
  BY <1>1, <1>2, <1>3, <1>4, <1>5, <1>6, <1>7, <1>8, <1>9, <1>10, <1>11, <1>12, <1>13,
     <1>14, <1>15, <1>16, <1>17, <1>18, <1>19, <1>35, <1>36, Zenon DEF Client
<1>37. ASSUME Broker PROVE Types'
  BY <1>20, <1>21, <1>22, <1>23, <1>24, <1>25, <1>26, <1>27, <1>28, <1>37, Zenon DEF
     Broker
<1>38. ASSUME Process PROVE Types'
  BY <1>29, <1>30, <1>31, <1>32, <1>33, <1>38, Zenon DEF Process
<1>39. QED
  BY <1>34, <1>36, <1>37, <1>38, Zenon DEF Next

(***************************************************************************)
(* Every step keeps #pending, the timers and the promises together.        *)
(***************************************************************************)
LEMMA PendingStep ==
  ASSUME TypeOK, PendingExact, [Next]_vars
  PROVE  PendingExact'
<1> USE RequestsAssumption, SeqAssumption, NoneAssumption
<1> USE DEF TypeOK, All, Users, Seqs, Messages, PendingExact, worker, link, reqs,
            events, calls
<1>1. ASSUME Start PROVE PendingExact'
  BY <1>1 DEF Start, disposed
<1>2. ASSUME ReadyTimeout PROVE PendingExact'
  BY <1>2 DEF ReadyTimeout, StartFails, Fail, Settle, Kill
<1>3. ASSUME ReadySettled PROVE PendingExact'
  BY <1>3 DEF ReadySettled, StartFails, Fail, Settle, Kill, SendRequest, CanSend
<1>4. ASSUME HandshakeSettled PROVE PendingExact'
  BY <1>4 DEF HandshakeSettled, StartFails, Fail, Settle, Kill
<1>5. ASSUME StartThrows PROVE PendingExact'
  BY <1>5 DEF StartThrows
<1>6. ASSUME NEW r \in Requests, Request(r) PROVE PendingExact'
  BY <1>6 DEF Request, SendRequest, CanRequest, CanSend, disposing, disposed
<1>7. ASSUME NEW r \in All, Timeout(r) PROVE PendingExact'
  BY <1>7 DEF Timeout, Settle
<1>8. ASSUME NEW r \in All, SendError(r) PROVE PendingExact'
  BY <1>8 DEF SendError, Settle
<1>9. ASSUME HandleMessage /\ HandleResponse PROVE PendingExact'
  BY <1>9 DEF HandleMessage, HandleResponse, Message, Settle
<1>10. ASSUME HandleMessage /\ HandleViolation PROVE PendingExact'
  BY <1>10 DEF HandleMessage, HandleViolation, Message, Kill, Fail, Settle
<1>11. ASSUME HandleMessage /\ HandleEvent PROVE PendingExact'
  BY <1>11 DEF HandleMessage, HandleEvent, Message, Deferrable, Accepted
<1>12. ASSUME Disconnect PROVE PendingExact'
  BY <1>12 DEF Disconnect
<1>13. ASSUME ChildError PROVE PendingExact'
  BY <1>13 DEF ChildError, Fail, Settle
<1>14. ASSUME Close PROVE PendingExact'
  BY <1>14 DEF Close, Fail, Settle
<1>15. ASSUME Dispose PROVE PendingExact'
  BY <1>15 DEF Dispose, BeginDispose, DisposeEnds, Fail, Settle, SendRequest
<1>16. ASSUME ShutdownSettled PROVE PendingExact'
  BY <1>16 DEF ShutdownSettled
<1>17. ASSUME ExitSeen PROVE PendingExact'
  BY <1>17 DEF ExitSeen, DisposeEnds, Fail, Settle
<1>18. ASSUME ExitTimeout PROVE PendingExact'
  BY <1>18 DEF ExitTimeout, DisposeEnds, Kill, Fail, Settle
<1>19. ASSUME KillTimeout PROVE PendingExact'
  BY <1>19 DEF KillTimeout, DisposeEnds, Fail, Settle
<1>20. ASSUME CallBind PROVE PendingExact'
  BY <1>20 DEF CallBind, BindThrows, Step, CanRequest, CanSend, disposing, disposed,
       BeginDispose, DisposeEnds, Fail, Settle, SendRequest
<1>21. ASSUME BindSettled PROVE PendingExact'
  BY <1>21 DEF BindSettled, BindThrows, Step, BeginDispose, DisposeEnds, Fail, Settle,
       SendRequest
<1>22. ASSUME BindFails PROVE PendingExact'
  BY <1>22 DEF BindFails, BindThrows, Step, BeginDispose, DisposeEnds, Fail, Settle,
       SendRequest
<1>23. ASSUME NEW u \in Users, SummaryAnswered(u) PROVE PendingExact'
  BY <1>23 DEF SummaryAnswered, Step
<1>24. ASSUME NEW u \in Users, Recorded(u) PROVE PendingExact'
  BY <1>24 DEF Recorded, Step, Flush, OfSession
<1>25. ASSUME NEW f \in Forks, CallFork(f) PROVE PendingExact'
  BY <1>25 DEF CallFork, Step
<1>26. ASSUME NEW f \in Forks, ForkSummarised(f) PROVE PendingExact'
  BY <1>26 DEF ForkSummarised, Step, SendRequest, EndTransition, OfSession,
       CanRequest, CanSend, disposing, disposed
<1>27. ASSUME NEW f \in Forks, ForkSettled(f) PROVE PendingExact'
  BY <1>27 DEF ForkSettled, Step, EndTransition, OfSession
<1>28. ASSUME NEW f \in Forks, ForkFails(f) PROVE PendingExact'
  BY <1>28 DEF ForkFails, Step, EndTransition, OfSession
<1>29. ASSUME Emit PROVE PendingExact'
  BY <1>29 DEF Emit, Alive, Send
<1>30. ASSUME Misbehave PROVE PendingExact'
  BY <1>30 DEF Misbehave, Alive, Send
<1>31. ASSUME Die PROVE PendingExact'
  BY <1>31 DEF Die
<1>32. ASSUME NEW u \in Users, Switch(u) PROVE PendingExact'
  BY <1>32 DEF Switch, Alive
<1>33. ASSUME NEW r \in All, NEW ok \in BOOLEAN, Answer(r, ok) PROVE PendingExact'
  BY <1>33 DEF Answer, Alive, Send
<1>34. CASE UNCHANGED vars
  BY <1>34 DEF vars
<1>35. HandleMessage => HandleMessage
         /\ (HandleResponse \/ HandleViolation \/ HandleEvent)
  BY DEF HandleMessage
<1> HIDE DEF TypeOK, All, Users, Seqs, Messages, PendingExact, worker, link, reqs,
            events, calls
<1>36. ASSUME Client PROVE PendingExact'
  BY <1>1, <1>2, <1>3, <1>4, <1>5, <1>6, <1>7, <1>8, <1>9, <1>10, <1>11, <1>12, <1>13,
     <1>14, <1>15, <1>16, <1>17, <1>18, <1>19, <1>35, <1>36, Zenon DEF Client
<1>37. ASSUME Broker PROVE PendingExact'
  BY <1>20, <1>21, <1>22, <1>23, <1>24, <1>25, <1>26, <1>27, <1>28, <1>37, Zenon DEF
     Broker
<1>38. ASSUME Process PROVE PendingExact'
  BY <1>29, <1>30, <1>31, <1>32, <1>33, <1>38, Zenon DEF Process
<1>39. QED
  BY <1>34, <1>36, <1>37, <1>38, Zenon DEF Next

(***************************************************************************)
(* Every step preserves Unsent.                                            *)
(***************************************************************************)
LEMMA UnsentStep ==
  ASSUME TypeOK, PendingExact, Unsent, Life, [Next]_vars
  PROVE  Unsent'
<1> USE RequestsAssumption, SeqAssumption, NoneAssumption
<1> USE DEF TypeOK, All, Users, Seqs, Messages, PendingExact, Unsent, Life, worker,
            link, reqs, events, calls
<1>1. ASSUME Start PROVE Unsent'
  BY <1>1 DEF Start, disposed
<1>2. ASSUME ReadyTimeout PROVE Unsent'
  BY <1>2 DEF ReadyTimeout, StartFails, Fail, Settle, Kill
<1>3. ASSUME ReadySettled PROVE Unsent'
  BY <1>3 DEF ReadySettled, StartFails, Fail, Settle, Kill, SendRequest, CanSend
<1>4. ASSUME HandshakeSettled PROVE Unsent'
  BY <1>4 DEF HandshakeSettled, StartFails, Fail, Settle, Kill
<1>5. ASSUME StartThrows PROVE Unsent'
  BY <1>5 DEF StartThrows
<1>6. ASSUME NEW r \in Requests, Request(r) PROVE Unsent'
  BY <1>6 DEF Request, SendRequest, CanRequest, CanSend, disposing, disposed
<1>7. ASSUME NEW r \in All, Timeout(r) PROVE Unsent'
  BY <1>7 DEF Timeout, Settle
<1>8. ASSUME NEW r \in All, SendError(r) PROVE Unsent'
  BY <1>8 DEF SendError, Settle
<1>9. ASSUME HandleMessage /\ HandleResponse PROVE Unsent'
  BY <1>9 DEF HandleMessage, HandleResponse, Message, Settle
<1>10. ASSUME HandleMessage /\ HandleViolation PROVE Unsent'
  BY <1>10 DEF HandleMessage, HandleViolation, Message, Kill, Fail, Settle
<1>11. ASSUME HandleMessage /\ HandleEvent PROVE Unsent'
  BY <1>11 DEF HandleMessage, HandleEvent, Message, Deferrable, Accepted
<1>12. ASSUME Disconnect PROVE Unsent'
  BY <1>12 DEF Disconnect
<1>13. ASSUME ChildError PROVE Unsent'
  BY <1>13 DEF ChildError, Fail, Settle
<1>14. ASSUME Close PROVE Unsent'
  BY <1>14 DEF Close, Fail, Settle
<1>15. ASSUME Dispose PROVE Unsent'
  BY <1>15 DEF Dispose, BeginDispose, DisposeEnds, Fail, Settle, SendRequest
<1>16. ASSUME ShutdownSettled PROVE Unsent'
  BY <1>16 DEF ShutdownSettled
<1>17. ASSUME ExitSeen PROVE Unsent'
  BY <1>17 DEF ExitSeen, DisposeEnds, Fail, Settle
<1>18. ASSUME ExitTimeout PROVE Unsent'
  BY <1>18 DEF ExitTimeout, DisposeEnds, Kill, Fail, Settle
<1>19. ASSUME KillTimeout PROVE Unsent'
  BY <1>19 DEF KillTimeout, DisposeEnds, Fail, Settle
<1>20. ASSUME CallBind PROVE Unsent'
  BY <1>20 DEF CallBind, BindThrows, Step, CanRequest, CanSend, disposing, disposed,
       BeginDispose, DisposeEnds, Fail, Settle, SendRequest
<1>21. ASSUME BindSettled PROVE Unsent'
  BY <1>21 DEF BindSettled, BindThrows, Step, BeginDispose, DisposeEnds, Fail, Settle,
       SendRequest
<1>22. ASSUME BindFails PROVE Unsent'
  BY <1>22 DEF BindFails, BindThrows, Step, BeginDispose, DisposeEnds, Fail, Settle,
       SendRequest
<1>23. ASSUME NEW u \in Users, SummaryAnswered(u) PROVE Unsent'
  BY <1>23 DEF SummaryAnswered, Step
<1>24. ASSUME NEW u \in Users, Recorded(u) PROVE Unsent'
  BY <1>24 DEF Recorded, Step, Flush, OfSession
<1>25. ASSUME NEW f \in Forks, CallFork(f) PROVE Unsent'
  BY <1>25 DEF CallFork, Step
<1>26. ASSUME NEW f \in Forks, ForkSummarised(f) PROVE Unsent'
  BY <1>26 DEF ForkSummarised, Step, SendRequest, EndTransition, OfSession,
       CanRequest, CanSend, disposing, disposed
<1>27. ASSUME NEW f \in Forks, ForkSettled(f) PROVE Unsent'
  BY <1>27 DEF ForkSettled, Step, EndTransition, OfSession
<1>28. ASSUME NEW f \in Forks, ForkFails(f) PROVE Unsent'
  BY <1>28 DEF ForkFails, Step, EndTransition, OfSession
<1>29. ASSUME Emit PROVE Unsent'
  BY <1>29 DEF Emit, Alive, Send
<1>30. ASSUME Misbehave PROVE Unsent'
  BY <1>30 DEF Misbehave, Alive, Send
<1>31. ASSUME Die PROVE Unsent'
  BY <1>31 DEF Die
<1>32. ASSUME NEW u \in Users, Switch(u) PROVE Unsent'
  BY <1>32 DEF Switch, Alive
<1>33. ASSUME NEW r \in All, NEW ok \in BOOLEAN, Answer(r, ok) PROVE Unsent'
  BY <1>33 DEF Answer, Alive, Send
<1>34. CASE UNCHANGED vars
  BY <1>34 DEF vars
<1>35. HandleMessage => HandleMessage
         /\ (HandleResponse \/ HandleViolation \/ HandleEvent)
  BY DEF HandleMessage
<1> HIDE DEF TypeOK, All, Users, Seqs, Messages, PendingExact, Unsent, Life, worker,
            link, reqs, events, calls
<1>36. ASSUME Client PROVE Unsent'
  BY <1>1, <1>2, <1>3, <1>4, <1>5, <1>6, <1>7, <1>8, <1>9, <1>10, <1>11, <1>12, <1>13,
     <1>14, <1>15, <1>16, <1>17, <1>18, <1>19, <1>35, <1>36, Zenon DEF Client
<1>37. ASSUME Broker PROVE Unsent'
  BY <1>20, <1>21, <1>22, <1>23, <1>24, <1>25, <1>26, <1>27, <1>28, <1>37, Zenon DEF
     Broker
<1>38. ASSUME Process PROVE Unsent'
  BY <1>29, <1>30, <1>31, <1>32, <1>33, <1>38, Zenon DEF Process
<1>39. QED
  BY <1>34, <1>36, <1>37, <1>38, Zenon DEF Next

(***************************************************************************)
(* Every step preserves Life.                                              *)
(***************************************************************************)
LEMMA LifeStep ==
  ASSUME TypeOK, Life, [Next]_vars
  PROVE  Life'
<1> USE RequestsAssumption, SeqAssumption, NoneAssumption
<1> USE DEF TypeOK, All, Users, Seqs, Messages, Life, disposed, worker, link, reqs,
            events, calls
<1>1. ASSUME Start PROVE Life'
  BY <1>1 DEF Start, disposed
<1>2. ASSUME ReadyTimeout PROVE Life'
  BY <1>2 DEF ReadyTimeout, StartFails, Fail, Settle, Kill
<1>3. ASSUME ReadySettled PROVE Life'
  BY <1>3 DEF ReadySettled, StartFails, Fail, Settle, Kill, SendRequest, CanSend
<1>4. ASSUME HandshakeSettled PROVE Life'
  BY <1>4 DEF HandshakeSettled, StartFails, Fail, Settle, Kill
<1>5. ASSUME StartThrows PROVE Life'
  BY <1>5 DEF StartThrows
<1>6. ASSUME NEW r \in Requests, Request(r) PROVE Life'
  BY <1>6 DEF Request, SendRequest, CanRequest, CanSend, disposing, disposed
<1>7. ASSUME NEW r \in All, Timeout(r) PROVE Life'
  BY <1>7 DEF Timeout, Settle
<1>8. ASSUME NEW r \in All, SendError(r) PROVE Life'
  BY <1>8 DEF SendError, Settle
<1>9. ASSUME HandleMessage /\ HandleResponse PROVE Life'
  BY <1>9 DEF HandleMessage, HandleResponse, Message, Settle
<1>10. ASSUME HandleMessage /\ HandleViolation PROVE Life'
  BY <1>10 DEF HandleMessage, HandleViolation, Message, Kill, Fail, Settle
<1>11. ASSUME HandleMessage /\ HandleEvent PROVE Life'
  BY <1>11 DEF HandleMessage, HandleEvent, Message, Deferrable, Accepted
<1>12. ASSUME Disconnect PROVE Life'
  BY <1>12 DEF Disconnect
<1>13. ASSUME ChildError PROVE Life'
  BY <1>13 DEF ChildError, Fail, Settle
<1>14. ASSUME Close PROVE Life'
  BY <1>14 DEF Close, Fail, Settle
<1>15. ASSUME Dispose PROVE Life'
  BY <1>15 DEF Dispose, BeginDispose, DisposeEnds, Fail, Settle, SendRequest
<1>16. ASSUME ShutdownSettled PROVE Life'
  BY <1>16 DEF ShutdownSettled
<1>17. ASSUME ExitSeen PROVE Life'
  BY <1>17 DEF ExitSeen, DisposeEnds, Fail, Settle
<1>18. ASSUME ExitTimeout PROVE Life'
  BY <1>18 DEF ExitTimeout, DisposeEnds, Kill, Fail, Settle
<1>19. ASSUME KillTimeout PROVE Life'
  BY <1>19 DEF KillTimeout, DisposeEnds, Fail, Settle
<1>20. ASSUME CallBind PROVE Life'
  BY <1>20 DEF CallBind, BindThrows, Step, CanRequest, CanSend, disposing, disposed,
       BeginDispose, DisposeEnds, Fail, Settle, SendRequest
<1>21. ASSUME BindSettled PROVE Life'
  BY <1>21 DEF BindSettled, BindThrows, Step, BeginDispose, DisposeEnds, Fail, Settle,
       SendRequest
<1>22. ASSUME BindFails PROVE Life'
  BY <1>22 DEF BindFails, BindThrows, Step, BeginDispose, DisposeEnds, Fail, Settle,
       SendRequest
<1>23. ASSUME NEW u \in Users, SummaryAnswered(u) PROVE Life'
  BY <1>23 DEF SummaryAnswered, Step
<1>24. ASSUME NEW u \in Users, Recorded(u) PROVE Life'
  BY <1>24 DEF Recorded, Step, Flush, OfSession
<1>25. ASSUME NEW f \in Forks, CallFork(f) PROVE Life'
  BY <1>25 DEF CallFork, Step
<1>26. ASSUME NEW f \in Forks, ForkSummarised(f) PROVE Life'
  BY <1>26 DEF ForkSummarised, Step, SendRequest, EndTransition, OfSession,
       CanRequest, CanSend, disposing, disposed
<1>27. ASSUME NEW f \in Forks, ForkSettled(f) PROVE Life'
  BY <1>27 DEF ForkSettled, Step, EndTransition, OfSession
<1>28. ASSUME NEW f \in Forks, ForkFails(f) PROVE Life'
  BY <1>28 DEF ForkFails, Step, EndTransition, OfSession
<1>29. ASSUME Emit PROVE Life'
  BY <1>29 DEF Emit, Alive, Send
<1>30. ASSUME Misbehave PROVE Life'
  BY <1>30 DEF Misbehave, Alive, Send
<1>31. ASSUME Die PROVE Life'
  BY <1>31 DEF Die
<1>32. ASSUME NEW u \in Users, Switch(u) PROVE Life'
  BY <1>32 DEF Switch, Alive
<1>33. ASSUME NEW r \in All, NEW ok \in BOOLEAN, Answer(r, ok) PROVE Life'
  BY <1>33 DEF Answer, Alive, Send
<1>34. CASE UNCHANGED vars
  BY <1>34 DEF vars
<1>35. HandleMessage => HandleMessage
         /\ (HandleResponse \/ HandleViolation \/ HandleEvent)
  BY DEF HandleMessage
<1> HIDE DEF TypeOK, All, Users, Seqs, Messages, Life, disposed, worker, link, reqs,
            events, calls
<1>36. ASSUME Client PROVE Life'
  BY <1>1, <1>2, <1>3, <1>4, <1>5, <1>6, <1>7, <1>8, <1>9, <1>10, <1>11, <1>12, <1>13,
     <1>14, <1>15, <1>16, <1>17, <1>18, <1>19, <1>35, <1>36, Zenon DEF Client
<1>37. ASSUME Broker PROVE Life'
  BY <1>20, <1>21, <1>22, <1>23, <1>24, <1>25, <1>26, <1>27, <1>28, <1>37, Zenon DEF
     Broker
<1>38. ASSUME Process PROVE Life'
  BY <1>29, <1>30, <1>31, <1>32, <1>33, <1>38, Zenon DEF Process
<1>39. QED
  BY <1>34, <1>36, <1>37, <1>38, Zenon DEF Next

(***************************************************************************)
(* Every step preserves Closed: no step sends after the end.               *)
(***************************************************************************)
LEMMA ClosedStep ==
  ASSUME TypeOK, Life, Closed, [Next]_vars
  PROVE  Closed'
<1> USE RequestsAssumption, SeqAssumption, NoneAssumption
<1> USE DEF TypeOK, All, Users, Seqs, Messages, Life, Closed, disposed, disposing,
            worker, link, reqs, events, calls
<1>1. ASSUME Start PROVE Closed'
  BY <1>1 DEF Start, disposed
<1>2. ASSUME ReadyTimeout PROVE Closed'
  BY <1>2 DEF ReadyTimeout, StartFails, Fail, Settle, Kill
<1>3. ASSUME ReadySettled PROVE Closed'
  BY <1>3 DEF ReadySettled, StartFails, Fail, Settle, Kill, SendRequest, CanSend
<1>4. ASSUME HandshakeSettled PROVE Closed'
  BY <1>4 DEF HandshakeSettled, StartFails, Fail, Settle, Kill
<1>5. ASSUME StartThrows PROVE Closed'
  BY <1>5 DEF StartThrows
<1>6. ASSUME NEW r \in Requests, Request(r) PROVE Closed'
  BY <1>6 DEF Request, SendRequest, CanRequest, CanSend, disposing, disposed
<1>7. ASSUME NEW r \in All, Timeout(r) PROVE Closed'
  BY <1>7 DEF Timeout, Settle
<1>8. ASSUME NEW r \in All, SendError(r) PROVE Closed'
  BY <1>8 DEF SendError, Settle
<1>9. ASSUME HandleMessage /\ HandleResponse PROVE Closed'
  BY <1>9 DEF HandleMessage, HandleResponse, Message, Settle
<1>10. ASSUME HandleMessage /\ HandleViolation PROVE Closed'
  BY <1>10 DEF HandleMessage, HandleViolation, Message, Kill, Fail, Settle
<1>11. ASSUME HandleMessage /\ HandleEvent PROVE Closed'
  BY <1>11 DEF HandleMessage, HandleEvent, Message, Deferrable, Accepted
<1>12. ASSUME Disconnect PROVE Closed'
  BY <1>12 DEF Disconnect
<1>13. ASSUME ChildError PROVE Closed'
  BY <1>13 DEF ChildError, Fail, Settle
<1>14. ASSUME Close PROVE Closed'
  BY <1>14 DEF Close, Fail, Settle, Drained, Settled
<1>15. ASSUME Dispose PROVE Closed'
  BY <1>15 DEF Dispose, BeginDispose, DisposeEnds, Fail, Settle, SendRequest, Drained,
       Settled
<1>16. ASSUME ShutdownSettled PROVE Closed'
  BY <1>16 DEF ShutdownSettled
<1>17. ASSUME ExitSeen PROVE Closed'
  BY <1>17 DEF ExitSeen, DisposeEnds, Fail, Settle
<1>18. ASSUME ExitTimeout PROVE Closed'
  BY <1>18 DEF ExitTimeout, DisposeEnds, Kill, Fail, Settle, Drained, Settled
<1>19. ASSUME KillTimeout PROVE Closed'
  BY <1>19 DEF KillTimeout, DisposeEnds, Fail, Settle, Drained, Settled
<1>20. ASSUME CallBind PROVE Closed'
  BY <1>20 DEF CallBind, BindThrows, Step, CanRequest, CanSend, disposing, disposed,
       BeginDispose, DisposeEnds, Fail, Settle, SendRequest, Drained, Settled
<1>21. ASSUME BindSettled PROVE Closed'
  BY <1>21 DEF BindSettled, BindThrows, Step, BeginDispose, DisposeEnds, Fail, Settle,
       SendRequest
<1>22. ASSUME BindFails PROVE Closed'
  BY <1>22 DEF BindFails, BindThrows, Step, BeginDispose, DisposeEnds, Fail, Settle,
       SendRequest, Drained, Settled
<1>23. ASSUME NEW u \in Users, SummaryAnswered(u) PROVE Closed'
  BY <1>23 DEF SummaryAnswered, Step
<1>24. ASSUME NEW u \in Users, Recorded(u) PROVE Closed'
  BY <1>24 DEF Recorded, Step, Flush, OfSession
<1>25. ASSUME NEW f \in Forks, CallFork(f) PROVE Closed'
  BY <1>25 DEF CallFork, Step
<1>26. ASSUME NEW f \in Forks, ForkSummarised(f) PROVE Closed'
  BY <1>26 DEF ForkSummarised, Step, SendRequest, EndTransition, OfSession,
       CanRequest, CanSend, disposing, disposed
<1>27. ASSUME NEW f \in Forks, ForkSettled(f) PROVE Closed'
  BY <1>27 DEF ForkSettled, Step, EndTransition, OfSession
<1>28. ASSUME NEW f \in Forks, ForkFails(f) PROVE Closed'
  BY <1>28 DEF ForkFails, Step, EndTransition, OfSession
<1>29. ASSUME Emit PROVE Closed'
  BY <1>29 DEF Emit, Alive, Send
<1>30. ASSUME Misbehave PROVE Closed'
  BY <1>30 DEF Misbehave, Alive, Send
<1>31. ASSUME Die PROVE Closed'
  BY <1>31 DEF Die
<1>32. ASSUME NEW u \in Users, Switch(u) PROVE Closed'
  BY <1>32 DEF Switch, Alive
<1>33. ASSUME NEW r \in All, NEW ok \in BOOLEAN, Answer(r, ok) PROVE Closed'
  BY <1>33 DEF Answer, Alive, Send
<1>34. CASE UNCHANGED vars
  BY <1>34 DEF vars
<1>35. HandleMessage => HandleMessage
         /\ (HandleResponse \/ HandleViolation \/ HandleEvent)
  BY DEF HandleMessage
<1> HIDE DEF TypeOK, All, Users, Seqs, Messages, Life, Closed, disposed, disposing,
            worker, link, reqs, events, calls
<1>36. ASSUME Client PROVE Closed'
  BY <1>1, <1>2, <1>3, <1>4, <1>5, <1>6, <1>7, <1>8, <1>9, <1>10, <1>11, <1>12, <1>13,
     <1>14, <1>15, <1>16, <1>17, <1>18, <1>19, <1>35, <1>36, Zenon DEF Client
<1>37. ASSUME Broker PROVE Closed'
  BY <1>20, <1>21, <1>22, <1>23, <1>24, <1>25, <1>26, <1>27, <1>28, <1>37, Zenon DEF
     Broker
<1>38. ASSUME Process PROVE Closed'
  BY <1>29, <1>30, <1>31, <1>32, <1>33, <1>38, Zenon DEF Process
<1>39. QED
  BY <1>34, <1>36, <1>37, <1>38, Zenon DEF Next

(***************************************************************************)
(* Every step preserves FailureKills.                                      *)
(***************************************************************************)
LEMMA KillStep ==
  ASSUME TypeOK, Life, FailureKills, [Next]_vars
  PROVE  FailureKills'
<1> USE RequestsAssumption, SeqAssumption, NoneAssumption
<1> USE DEF TypeOK, All, Users, Seqs, Messages, Life, FailureKills, disposed,
            worker, link, reqs, events, calls
<1>1. ASSUME Start PROVE FailureKills'
  BY <1>1 DEF Start, disposed
<1>2. ASSUME ReadyTimeout PROVE FailureKills'
  BY <1>2 DEF ReadyTimeout, StartFails, Fail, Settle, Kill
<1>3. ASSUME ReadySettled PROVE FailureKills'
  BY <1>3 DEF ReadySettled, StartFails, Fail, Settle, Kill, SendRequest, CanSend
<1>4. ASSUME HandshakeSettled PROVE FailureKills'
  BY <1>4 DEF HandshakeSettled, StartFails, Fail, Settle, Kill
<1>5. ASSUME StartThrows PROVE FailureKills'
  BY <1>5 DEF StartThrows
<1>6. ASSUME NEW r \in Requests, Request(r) PROVE FailureKills'
  BY <1>6 DEF Request, SendRequest, CanRequest, CanSend, disposing, disposed
<1>7. ASSUME NEW r \in All, Timeout(r) PROVE FailureKills'
  BY <1>7 DEF Timeout, Settle
<1>8. ASSUME NEW r \in All, SendError(r) PROVE FailureKills'
  BY <1>8 DEF SendError, Settle
<1>9. ASSUME HandleMessage /\ HandleResponse PROVE FailureKills'
  BY <1>9 DEF HandleMessage, HandleResponse, Message, Settle
<1>10. ASSUME HandleMessage /\ HandleViolation PROVE FailureKills'
  BY <1>10 DEF HandleMessage, HandleViolation, Message, Kill, Fail, Settle
<1>11. ASSUME HandleMessage /\ HandleEvent PROVE FailureKills'
  BY <1>11 DEF HandleMessage, HandleEvent, Message, Deferrable, Accepted
<1>12. ASSUME Disconnect PROVE FailureKills'
  BY <1>12 DEF Disconnect
<1>13. ASSUME ChildError PROVE FailureKills'
  BY <1>13 DEF ChildError, Fail, Settle
<1>14. ASSUME Close PROVE FailureKills'
  BY <1>14 DEF Close, Fail, Settle
<1>15. ASSUME Dispose PROVE FailureKills'
  BY <1>15 DEF Dispose, BeginDispose, DisposeEnds, Fail, Settle, SendRequest
<1>16. ASSUME ShutdownSettled PROVE FailureKills'
  BY <1>16 DEF ShutdownSettled
<1>17. ASSUME ExitSeen PROVE FailureKills'
  BY <1>17 DEF ExitSeen, DisposeEnds, Fail, Settle
<1>18. ASSUME ExitTimeout PROVE FailureKills'
  BY <1>18 DEF ExitTimeout, DisposeEnds, Kill, Fail, Settle
<1>19. ASSUME KillTimeout PROVE FailureKills'
  BY <1>19 DEF KillTimeout, DisposeEnds, Fail, Settle
<1>20. ASSUME CallBind PROVE FailureKills'
  BY <1>20 DEF CallBind, BindThrows, Step, CanRequest, CanSend, disposing, disposed,
       BeginDispose, DisposeEnds, Fail, Settle, SendRequest
<1>21. ASSUME BindSettled PROVE FailureKills'
  BY <1>21 DEF BindSettled, BindThrows, Step, BeginDispose, DisposeEnds, Fail, Settle,
       SendRequest
<1>22. ASSUME BindFails PROVE FailureKills'
  BY <1>22 DEF BindFails, BindThrows, Step, BeginDispose, DisposeEnds, Fail, Settle,
       SendRequest
<1>23. ASSUME NEW u \in Users, SummaryAnswered(u) PROVE FailureKills'
  BY <1>23 DEF SummaryAnswered, Step
<1>24. ASSUME NEW u \in Users, Recorded(u) PROVE FailureKills'
  BY <1>24 DEF Recorded, Step, Flush, OfSession
<1>25. ASSUME NEW f \in Forks, CallFork(f) PROVE FailureKills'
  BY <1>25 DEF CallFork, Step
<1>26. ASSUME NEW f \in Forks, ForkSummarised(f) PROVE FailureKills'
  BY <1>26 DEF ForkSummarised, Step, SendRequest, EndTransition, OfSession,
       CanRequest, CanSend, disposing, disposed
<1>27. ASSUME NEW f \in Forks, ForkSettled(f) PROVE FailureKills'
  BY <1>27 DEF ForkSettled, Step, EndTransition, OfSession
<1>28. ASSUME NEW f \in Forks, ForkFails(f) PROVE FailureKills'
  BY <1>28 DEF ForkFails, Step, EndTransition, OfSession
<1>29. ASSUME Emit PROVE FailureKills'
  BY <1>29 DEF Emit, Alive, Send
<1>30. ASSUME Misbehave PROVE FailureKills'
  BY <1>30 DEF Misbehave, Alive, Send
<1>31. ASSUME Die PROVE FailureKills'
  BY <1>31 DEF Die
<1>32. ASSUME NEW u \in Users, Switch(u) PROVE FailureKills'
  BY <1>32 DEF Switch, Alive
<1>33. ASSUME NEW r \in All, NEW ok \in BOOLEAN, Answer(r, ok) PROVE FailureKills'
  BY <1>33 DEF Answer, Alive, Send
<1>34. CASE UNCHANGED vars
  BY <1>34 DEF vars
<1>35. HandleMessage => HandleMessage
         /\ (HandleResponse \/ HandleViolation \/ HandleEvent)
  BY DEF HandleMessage
<1> HIDE DEF TypeOK, All, Users, Seqs, Messages, Life, FailureKills, disposed,
            worker, link, reqs, events, calls
<1>36. ASSUME Client PROVE FailureKills'
  BY <1>1, <1>2, <1>3, <1>4, <1>5, <1>6, <1>7, <1>8, <1>9, <1>10, <1>11, <1>12, <1>13,
     <1>14, <1>15, <1>16, <1>17, <1>18, <1>19, <1>35, <1>36, Zenon DEF Client
<1>37. ASSUME Broker PROVE FailureKills'
  BY <1>20, <1>21, <1>22, <1>23, <1>24, <1>25, <1>26, <1>27, <1>28, <1>37, Zenon DEF
     Broker
<1>38. ASSUME Process PROVE FailureKills'
  BY <1>29, <1>30, <1>31, <1>32, <1>33, <1>38, Zenon DEF Process
<1>39. QED
  BY <1>34, <1>36, <1>37, <1>38, Zenon DEF Next

(***************************************************************************)
(* A step opens or ends at most one transition, and the depth goes along.  *)
(***************************************************************************)
LEMMA CountedStep ==
  ASSUME TypeOK, [Next]_vars
  PROVE  Counted
<1> USE RequestsAssumption, SeqAssumption, NoneAssumption
<1> USE DEF Types, TypeOK, All, Users, Open, Counted, Step, worker, link, reqs,
            events, calls
<1>1. ASSUME Start PROVE Counted
  BY <1>1 DEF Start, disposed
<1>2. ASSUME ReadyTimeout PROVE Counted
  BY <1>2 DEF ReadyTimeout, StartFails, Fail, Settle, Kill
<1>3. ASSUME ReadySettled PROVE Counted
  BY <1>3 DEF ReadySettled, StartFails, Fail, Settle, Kill, SendRequest, CanSend
<1>4. ASSUME HandshakeSettled PROVE Counted
  BY <1>4 DEF HandshakeSettled, StartFails, Fail, Settle, Kill
<1>5. ASSUME StartThrows PROVE Counted
  BY <1>5 DEF StartThrows
<1>6. ASSUME NEW r \in Requests, Request(r) PROVE Counted
  BY <1>6 DEF Request, SendRequest, CanRequest, CanSend, disposing, disposed
<1>7. ASSUME NEW r \in All, Timeout(r) PROVE Counted
  BY <1>7 DEF Timeout, Settle
<1>8. ASSUME NEW r \in All, SendError(r) PROVE Counted
  BY <1>8 DEF SendError, Settle
<1>9. ASSUME HandleMessage /\ HandleResponse PROVE Counted
  BY <1>9 DEF HandleMessage, HandleResponse, Message, Settle
<1>10. ASSUME HandleMessage /\ HandleViolation PROVE Counted
  BY <1>10 DEF HandleMessage, HandleViolation, Message, Kill, Fail, Settle
<1>11. ASSUME HandleMessage /\ HandleEvent PROVE Counted
  BY <1>11 DEF HandleMessage, HandleEvent, Message, Deferrable, Accepted
<1>12. ASSUME Disconnect PROVE Counted
  BY <1>12 DEF Disconnect
<1>13. ASSUME ChildError PROVE Counted
  BY <1>13 DEF ChildError, Fail, Settle
<1>14. ASSUME Close PROVE Counted
  BY <1>14 DEF Close, Fail, Settle
<1>15. ASSUME Dispose PROVE Counted
  BY <1>15 DEF Dispose, BeginDispose, DisposeEnds, Fail, Settle, SendRequest
<1>16. ASSUME ShutdownSettled PROVE Counted
  BY <1>16 DEF ShutdownSettled
<1>17. ASSUME ExitSeen PROVE Counted
  BY <1>17 DEF ExitSeen, DisposeEnds, Fail, Settle
<1>18. ASSUME ExitTimeout PROVE Counted
  BY <1>18 DEF ExitTimeout, DisposeEnds, Kill, Fail, Settle
<1>19. ASSUME KillTimeout PROVE Counted
  BY <1>19 DEF KillTimeout, DisposeEnds, Fail, Settle
<1>20. ASSUME CallBind PROVE Counted
  BY <1>20 DEF CallBind, BindThrows, Step, CanRequest, CanSend, disposing, disposed,
       BeginDispose, DisposeEnds, Fail, Settle, SendRequest
<1>21. ASSUME BindSettled PROVE Counted
  BY <1>21 DEF BindSettled, BindThrows, Step, BeginDispose, DisposeEnds, Fail, Settle,
       SendRequest
<1>22. ASSUME BindFails PROVE Counted
  BY <1>22 DEF BindFails, BindThrows, Step, BeginDispose, DisposeEnds, Fail, Settle,
       SendRequest
<1>23. ASSUME NEW u \in Users, SummaryAnswered(u) PROVE Counted
  BY <1>23 DEF SummaryAnswered, Step
<1>24. ASSUME NEW u \in Users, Recorded(u) PROVE Counted
  <2>1. CASE u \in Forks
    BY <1>24, <2>1 DEF Recorded
  <2>2. CASE u = bind
    BY <1>24, <2>2 DEF Recorded
  <2> QED  BY <2>1, <2>2
<1>25. ASSUME NEW f \in Forks, CallFork(f) PROVE Counted
  BY <1>25 DEF CallFork, Step
<1>26. ASSUME NEW f \in Forks, ForkSummarised(f) PROVE Counted
  BY <1>26 DEF ForkSummarised, Step, SendRequest, EndTransition, OfSession,
       CanRequest, CanSend, disposing, disposed
<1>27. ASSUME NEW f \in Forks, ForkSettled(f) PROVE Counted
  BY <1>27 DEF ForkSettled, Step, EndTransition, OfSession
<1>28. ASSUME NEW f \in Forks, ForkFails(f) PROVE Counted
  BY <1>28 DEF ForkFails, Step, EndTransition, OfSession
<1>29. ASSUME Emit PROVE Counted
  BY <1>29 DEF Emit, Alive, Send
<1>30. ASSUME Misbehave PROVE Counted
  BY <1>30 DEF Misbehave, Alive, Send
<1>31. ASSUME Die PROVE Counted
  BY <1>31 DEF Die
<1>32. ASSUME NEW u \in Users, Switch(u) PROVE Counted
  BY <1>32 DEF Switch, Alive
<1>33. ASSUME NEW r \in All, NEW ok \in BOOLEAN, Answer(r, ok) PROVE Counted
  BY <1>33 DEF Answer, Alive, Send
<1>34. CASE UNCHANGED vars
  BY <1>34 DEF vars
<1>35. HandleMessage => HandleMessage
         /\ (HandleResponse \/ HandleViolation \/ HandleEvent)
  BY DEF HandleMessage
<1> HIDE DEF Types, TypeOK, All, Users, Open, Counted, Step, worker, link, reqs,
            events, calls
<1>36. ASSUME Client PROVE Counted
  BY <1>1, <1>2, <1>3, <1>4, <1>5, <1>6, <1>7, <1>8, <1>9, <1>10, <1>11, <1>12, <1>13,
     <1>14, <1>15, <1>16, <1>17, <1>18, <1>19, <1>35, <1>36, Zenon DEF Client
<1>37. ASSUME Broker PROVE Counted
  BY <1>20, <1>21, <1>22, <1>23, <1>24, <1>25, <1>26, <1>27, <1>28, <1>37, Zenon DEF
     Broker
<1>38. ASSUME Process PROVE Counted
  BY <1>29, <1>30, <1>31, <1>32, <1>33, <1>38, Zenon DEF Process
<1>39. QED
  BY <1>34, <1>36, <1>37, <1>38, Zenon DEF Next

(* Every step keeps the depth the number of open transitions. *)
LEMMA DepthStep ==
  ASSUME TypeOK, DepthExact, [Next]_vars
  PROVE  DepthExact'
<1>1. depth = Cardinality(Open)
  BY DEF DepthExact, Open
<1>2. Counted
  BY CountedStep
<1>3. SUFFICES depth' = Cardinality(Open')
  BY DEF DepthExact, Open
<1>4. ASSUME NEW f \in Forks \ Open, Open' = Open \cup {f}, depth' = depth + 1
      PROVE  depth' = Cardinality(Open')
  BY <1>1, <1>4, OpenFinite, FS_AddElement
<1>5. ASSUME NEW f \in Open, Open' = Open \ {f}, depth' = depth - 1
      PROVE  depth' = Cardinality(Open')
  BY <1>1, <1>5, OpenFinite, FS_RemoveElement
<1> QED
  BY <1>1, <1>2, <1>4, <1>5 DEF Counted

(***************************************************************************)
(* Every step preserves ForwardedOnce.                                     *)
(***************************************************************************)
LEMMA ForwardedStep ==
  ASSUME TypeOK, ForwardedOnce, [Next]_vars
  PROVE  ForwardedOnce'
<1> USE RequestsAssumption, SeqAssumption, NoneAssumption
<1> USE DEF TypeOK, Seqs, ForwardedOnce, worker, link, reqs, events, calls
<1>1. ASSUME Start PROVE ForwardedOnce'
  BY <1>1 DEF Start, disposed
<1>2. ASSUME ReadyTimeout PROVE ForwardedOnce'
  BY <1>2 DEF ReadyTimeout, StartFails, Fail, Settle, Kill
<1>3. ASSUME ReadySettled PROVE ForwardedOnce'
  BY <1>3 DEF ReadySettled, StartFails, Fail, Settle, Kill, SendRequest, CanSend
<1>4. ASSUME HandshakeSettled PROVE ForwardedOnce'
  BY <1>4 DEF HandshakeSettled, StartFails, Fail, Settle, Kill
<1>5. ASSUME StartThrows PROVE ForwardedOnce'
  BY <1>5 DEF StartThrows
<1>6. ASSUME NEW r \in Requests, Request(r) PROVE ForwardedOnce'
  BY <1>6 DEF Request, SendRequest, CanRequest, CanSend, disposing, disposed
<1>7. ASSUME NEW r \in All, Timeout(r) PROVE ForwardedOnce'
  BY <1>7 DEF Timeout, Settle
<1>8. ASSUME NEW r \in All, SendError(r) PROVE ForwardedOnce'
  BY <1>8 DEF SendError, Settle
<1>9. ASSUME HandleMessage /\ HandleResponse PROVE ForwardedOnce'
  BY <1>9 DEF HandleMessage, HandleResponse, Message, Settle
<1>10. ASSUME HandleMessage /\ HandleViolation PROVE ForwardedOnce'
  BY <1>10 DEF HandleMessage, HandleViolation, Message, Kill, Fail, Settle
<1>11. ASSUME HandleMessage /\ HandleEvent PROVE ForwardedOnce'
  <2>1. expected \notin forwarded \cup deferred /\ expected' = expected + 1
    BY <1>11 DEF HandleEvent
  <2>2. \/ deferred' = deferred /\ forwarded' = forwarded \cup {expected}
        \/ deferred' = deferred \cup {expected} /\ forwarded' = forwarded
        \/ deferred' = deferred /\ forwarded' = forwarded
    BY <1>11 DEF HandleEvent, Message
  <2>3. expected \in Nat
    OBVIOUS
  <2>4. 0 .. expected' - 1 = (0 .. expected - 1) \cup {expected}
    BY <2>1, <2>3
  <2> HIDE DEF TypeOK
  <2> QED
    BY <2>1, <2>2, <2>4
<1>12. ASSUME Disconnect PROVE ForwardedOnce'
  BY <1>12 DEF Disconnect
<1>13. ASSUME ChildError PROVE ForwardedOnce'
  BY <1>13 DEF ChildError, Fail, Settle
<1>14. ASSUME Close PROVE ForwardedOnce'
  BY <1>14 DEF Close, Fail, Settle
<1>15. ASSUME Dispose PROVE ForwardedOnce'
  BY <1>15 DEF Dispose, BeginDispose, DisposeEnds, Fail, Settle, SendRequest
<1>16. ASSUME ShutdownSettled PROVE ForwardedOnce'
  BY <1>16 DEF ShutdownSettled
<1>17. ASSUME ExitSeen PROVE ForwardedOnce'
  BY <1>17 DEF ExitSeen, DisposeEnds, Fail, Settle
<1>18. ASSUME ExitTimeout PROVE ForwardedOnce'
  BY <1>18 DEF ExitTimeout, DisposeEnds, Kill, Fail, Settle
<1>19. ASSUME KillTimeout PROVE ForwardedOnce'
  BY <1>19 DEF KillTimeout, DisposeEnds, Fail, Settle
<1>20. ASSUME CallBind PROVE ForwardedOnce'
  BY <1>20 DEF CallBind, BindThrows, Step, CanRequest, CanSend, disposing, disposed,
       BeginDispose, DisposeEnds, Fail, Settle, SendRequest
<1>21. ASSUME BindSettled PROVE ForwardedOnce'
  BY <1>21 DEF BindSettled, BindThrows, Step, BeginDispose, DisposeEnds, Fail, Settle,
       SendRequest
<1>22. ASSUME BindFails PROVE ForwardedOnce'
  BY <1>22 DEF BindFails, BindThrows, Step, BeginDispose, DisposeEnds, Fail, Settle,
       SendRequest
<1>23. ASSUME NEW u \in Users, SummaryAnswered(u) PROVE ForwardedOnce'
  BY <1>23 DEF SummaryAnswered, Step
<1>24. ASSUME NEW u \in Users, Recorded(u) PROVE ForwardedOnce'
  BY <1>24 DEF Recorded, Step, Flush, OfSession
<1>25. ASSUME NEW f \in Forks, CallFork(f) PROVE ForwardedOnce'
  BY <1>25 DEF CallFork, Step
<1>26. ASSUME NEW f \in Forks, ForkSummarised(f) PROVE ForwardedOnce'
  BY <1>26 DEF ForkSummarised, Step, SendRequest, EndTransition, OfSession,
       CanRequest, CanSend, disposing, disposed
<1>27. ASSUME NEW f \in Forks, ForkSettled(f) PROVE ForwardedOnce'
  BY <1>27 DEF ForkSettled, Step, EndTransition, OfSession
<1>28. ASSUME NEW f \in Forks, ForkFails(f) PROVE ForwardedOnce'
  BY <1>28 DEF ForkFails, Step, EndTransition, OfSession
<1>29. ASSUME Emit PROVE ForwardedOnce'
  BY <1>29 DEF Emit, Alive, Send
<1>30. ASSUME Misbehave PROVE ForwardedOnce'
  BY <1>30 DEF Misbehave, Alive, Send
<1>31. ASSUME Die PROVE ForwardedOnce'
  BY <1>31 DEF Die
<1>32. ASSUME NEW u \in Users, Switch(u) PROVE ForwardedOnce'
  BY <1>32 DEF Switch, Alive
<1>33. ASSUME NEW r \in All, NEW ok \in BOOLEAN, Answer(r, ok) PROVE ForwardedOnce'
  BY <1>33 DEF Answer, Alive, Send
<1>34. CASE UNCHANGED vars
  BY <1>34 DEF vars
<1>35. HandleMessage => HandleMessage
         /\ (HandleResponse \/ HandleViolation \/ HandleEvent)
  BY DEF HandleMessage
<1> HIDE DEF TypeOK, Seqs, ForwardedOnce, worker, link, reqs, events, calls
<1>36. ASSUME Client PROVE ForwardedOnce'
  BY <1>1, <1>2, <1>3, <1>4, <1>5, <1>6, <1>7, <1>8, <1>9, <1>10, <1>11, <1>12, <1>13,
     <1>14, <1>15, <1>16, <1>17, <1>18, <1>19, <1>35, <1>36, Zenon DEF Client
<1>37. ASSUME Broker PROVE ForwardedOnce'
  BY <1>20, <1>21, <1>22, <1>23, <1>24, <1>25, <1>26, <1>27, <1>28, <1>37, Zenon DEF
     Broker
<1>38. ASSUME Process PROVE ForwardedOnce'
  BY <1>29, <1>30, <1>31, <1>32, <1>33, <1>38, Zenon DEF Process
<1>39. QED
  BY <1>34, <1>36, <1>37, <1>38, Zenon DEF Next

-----------------------------------------------------------------------------
(* The type invariant is its two parts. *)
LEMMA TypeParts == TypeOK <=> Flags /\ Types
BY Zenon DEF TypeOK, Flags, Types

(* The initial states satisfy the inductive invariant. *)
LEMMA InitIInv == Init => IInv
<1> SUFFICES ASSUME Init PROVE IInv
  OBVIOUS
<1> USE RequestsAssumption, SeqAssumption, NoneAssumption
<1>1. Flags
  BY DEF Init, Flags
<1>2. Types
  BY DEF Init, Types, All, Users, Seqs
<1>3. PendingExact
  BY DEF Init, PendingExact
<1>4. DepthExact
  <2>1. {f \in Forks : pc[f] \in {"asked", "enriching", "recording"}} = {}
    BY DEF Init, Users
  <2> QED
    BY <2>1, FS_EmptySet DEF Init, DepthExact
<1>5. Unsent /\ Life /\ Closed
  BY DEF Init, Unsent, Life, Closed, disposed, All, Users
<1>6. FailureKills /\ ForwardedOnce
  BY DEF Init, FailureKills, ForwardedOnce
<1> QED
  BY <1>1, <1>2, <1>3, <1>4, <1>5, <1>6, TypeParts DEF IInv

(* Every step preserves the inductive invariant. *)
LEMMA NextIInv == IInv /\ [Next]_vars => IInv'
<1> SUFFICES ASSUME IInv, [Next]_vars PROVE IInv'
  OBVIOUS
<1>1. TypeOK /\ PendingExact /\ DepthExact /\ Unsent /\ Life /\ Closed /\ FailureKills
      /\ ForwardedOnce /\ Flags /\ Types
  BY TypeParts DEF IInv
<1>2. Flags' /\ Types'
  BY <1>1, FlagsStep, TypesStep
<1>3. TypeOK'
  BY <1>2, Zenon DEF TypeOK, Flags, Types
<1>4. PendingExact' /\ DepthExact' /\ Unsent' /\ Life'
  BY <1>1, PendingStep, DepthStep, UnsentStep, LifeStep
<1>5. Closed' /\ FailureKills' /\ ForwardedOnce'
  BY <1>1, ClosedStep, KillStep, ForwardedStep
<1> QED
  BY <1>3, <1>4, <1>5, Zenon DEF IInv

(* The inductive invariant holds throughout. *)
LEMMA Invariance == Spec => []IInv
<1>1. Init => IInv
  BY InitIInv
<1>2. IInv /\ [Next]_vars => IInv'
  BY NextIInv
<1> QED
  BY <1>1, <1>2, PTL DEF Spec

(***************************************************************************)
(* The variables of the client, the broker and the worker keep their       *)
(* types; in particular the transition depth never falls below zero.       *)
(***************************************************************************)
THEOREM TypeCorrect == Spec => []TypeOK
<1>1. IInv => TypeOK
  BY DEF IInv
<1> QED
  BY <1>1, Invariance, PTL

(***************************************************************************)
(* #pending holds the unsettled requests and no other, and only they have  *)
(* a timer, on every path of host-client.ts that settles a request.        *)
(***************************************************************************)
THEOREM PendingCorrect == Spec => []PendingExact
<1>1. IInv => PendingExact
  BY DEF IInv
<1> QED
  BY <1>1, Invariance, PTL

(***************************************************************************)
(* After the exit of the worker or the end of dispose() no request and no  *)
(* start() waits.                                                          *)
(***************************************************************************)
THEOREM NothingPendingCorrect == Spec => []NothingPending
<1>1. IInv => NothingPending
  BY DEF IInv, Closed, NothingPending
<1> QED
  BY <1>1, Invariance, PTL

(***************************************************************************)
(* A failed or disposed client has told a running process to die.          *)
(***************************************************************************)
THEOREM FailureKillsCorrect == Spec => []FailureKills
<1>1. IInv => FailureKills
  BY DEF IInv
<1> QED
  BY <1>1, Invariance, PTL

(***************************************************************************)
(* No event is emitted twice, deferred snapshots included.                 *)
(***************************************************************************)
THEOREM ForwardedOnceCorrect == Spec => []ForwardedOnce
<1>1. IInv => ForwardedOnce
  BY DEF IInv
<1> QED
  BY <1>1, Invariance, PTL

(***************************************************************************)
(* #sessionTransitionDepth counts the forks between their begin and their  *)
(* end, whatever fails in between.                                         *)
(***************************************************************************)
THEOREM DepthCorrect == Spec => []DepthExact
<1>1. IInv => DepthExact
  BY DEF IInv
<1> QED
  BY <1>1, Invariance, PTL

-----------------------------------------------------------------------------
(***************************************************************************)
(* The refinement.  What each way to treat a request is in RequestChannel. *)
(***************************************************************************)
ChannelNext == Channel!Next \/ UNCHANGED Channel!vars

(* The requests that wait are the pending ones. *)
LEMMA WaitingPending == PendingExact => Channel!Waiting = pending
BY DEF PendingExact, Channel!Waiting

(* A step that settles, sends and closes nothing is a stutter. *)
LEMMA Quiet ==
  ASSUME promise' = promise, exited' = exited, disposed' = disposed
  PROVE  ChannelNext
BY DEF ChannelNext, Channel!vars

(* Sending a request while the channel is open is Issue. *)
LEMMA Issues ==
  ASSUME TypeOK, NEW r \in All, SendRequest(r), promise[r] = "unsent",
         ~exited, ~disposed, exited' = exited, disposed' = disposed
  PROVE  ChannelNext
<1>1. Channel!Issue(r)
  BY DEF TypeOK, SendRequest, Channel!Issue
<1> QED
  BY <1>1 DEF ChannelNext, Channel!Next

(* Throwing in request() is Refuse. *)
LEMMA Refuses ==
  ASSUME TypeOK, NEW r \in All, promise[r] = "unsent",
         promise' = [promise EXCEPT ![r] = "rejected"], exited' = exited, disposed' = disposed
  PROVE  ChannelNext
<1>1. Channel!Refuse(r)
  BY DEF TypeOK, Channel!Refuse
<1> QED
  BY <1>1 DEF ChannelNext, Channel!Next

(* A positive response to a pending request is Answer. *)
LEMMA Answers ==
  ASSUME TypeOK, PendingExact, NEW r \in pending, Settle({r}, "resolved"),
         exited' = exited, disposed' = disposed
  PROVE  ChannelNext
<1>1. r \in All /\ r \in Channel!Waiting
  BY WaitingPending DEF TypeOK
<1>2. promise' = [promise EXCEPT ![r] = "resolved"]
  BY <1>1 DEF TypeOK, Settle
<1>3. Channel!Answer(r)
  BY <1>1, <1>2 DEF Channel!Answer
<1> QED
  BY <1>1, <1>3 DEF ChannelNext, Channel!Next

(* Rejecting some pending requests is Reject. *)
LEMMA Rejects ==
  ASSUME TypeOK, PendingExact, NEW R \in SUBSET pending, Settle(R, "rejected"),
         exited' = exited, disposed' = disposed
  PROVE  ChannelNext
<1>1. Channel!Reject(R)
  BY WaitingPending DEF Settle, Channel!Reject, Channel!Rejected
<1>2. R \in SUBSET All
  BY DEF TypeOK
<1> QED
  BY <1>1, <1>2 DEF ChannelNext, Channel!Next

(* Rejecting all of them at the exit or at the end of dispose() is Close. *)
LEMMA Closes ==
  ASSUME PendingExact, Settle(pending, "rejected"), exited' \/ disposed'
  PROVE  ChannelNext
<1>1. Channel!Close
  BY WaitingPending DEF Settle, Channel!Close, Channel!Rejected
<1> QED
  BY <1>1 DEF ChannelNext, Channel!Next

(* The start of dispose() sends host.shutdown or closes. *)
LEMMA Disposes ==
  ASSUME TypeOK, PendingExact, Unsent, BeginDispose, exited' = exited
  PROVE  ChannelNext
<1>1. CASE stop # "none"
  <2>1. promise' = promise /\ disposed' = disposed
    BY <1>1 DEF BeginDispose, reqs, disposed
  <2> QED
    BY <2>1, Quiet
<1>2. CASE stop = "none" /\ (proc = "none" \/ exited)
  <2>1. disposed' /\ Settle(pending, "rejected")
    BY <1>2 DEF BeginDispose, DisposeEnds, Fail, disposed
  <2> QED
    BY <2>1, Closes
<1>3. CASE stop = "none" /\ ~(proc = "none" \/ exited) /\ connected
  <2>1. SendRequest(bye) /\ promise[bye] = "unsent" /\ ~exited /\ ~disposed
        /\ disposed' = disposed
    BY <1>3 DEF BeginDispose, disposed, Unsent
  <2> QED
    BY <2>1, Issues DEF All
<1>4. CASE stop = "none" /\ ~(proc = "none" \/ exited) /\ ~connected
  <2>1. promise' = promise /\ disposed' = disposed
    BY <1>4 DEF BeginDispose, reqs, disposed
  <2> QED
    BY <2>1, Quiet
<1> QED
  BY <1>1, <1>2, <1>3, <1>4

(***************************************************************************)
(* Every step is a step of RequestChannel or a stutter.                    *)
(***************************************************************************)
LEMMA ChannelStep ==
  ASSUME TypeOK, PendingExact, Unsent, Closed, [Next]_vars
  PROVE  ChannelNext
<1> USE RequestsAssumption, SeqAssumption, NoneAssumption
<1> USE DEF disposed, disposing, worker, link, reqs, events, calls
<1>1. ASSUME Start PROVE ChannelNext
  <2>1. promise' = promise /\ exited' = exited /\ disposed' = disposed
    BY <1>1 DEF Start
  <2> QED
    BY <2>1, Quiet
<1>2. ASSUME ReadyTimeout PROVE ChannelNext
  <2>1. Settle(pending, "rejected") /\ exited' = exited /\ disposed' = disposed
    BY <1>2 DEF ReadyTimeout, StartFails, Fail
  <2> QED
    BY <2>1, Rejects
<1>3. ASSUME ReadySettled PROVE ChannelNext
  <2>1. CASE ready = "resolved" /\ CanSend
    <3>1. SendRequest(hello) /\ promise[hello] = "unsent" /\ ~exited /\ ~disposed
            /\ exited' = exited /\ disposed' = disposed
      BY <1>3, <2>1 DEF ReadySettled, CanSend, Unsent, Closed
    <3> QED
      BY <3>1, Issues DEF All
  <2>2. CASE ~(ready = "resolved" /\ CanSend)
    <3>1. Settle(pending, "rejected") /\ exited' = exited /\ disposed' = disposed
      BY <1>3, <2>2 DEF ReadySettled, StartFails, Fail
    <3> QED
      BY <3>1, Rejects
  <2> QED  BY <2>1, <2>2
<1>4. ASSUME HandshakeSettled PROVE ChannelNext
  <2>1. CASE promise[hello] = "resolved"
    <3>1. promise' = promise /\ exited' = exited /\ disposed' = disposed
      BY <1>4, <2>1 DEF HandshakeSettled
    <3> QED
      BY <3>1, Quiet
  <2>2. CASE ~(promise[hello] = "resolved")
    <3>1. Settle(pending, "rejected") /\ exited' = exited /\ disposed' = disposed
      BY <1>4, <2>2 DEF HandshakeSettled, StartFails, Fail
    <3> QED
      BY <3>1, Rejects
  <2> QED  BY <2>1, <2>2
<1>5. ASSUME StartThrows PROVE ChannelNext
  <2>1. promise' = promise /\ exited' = exited /\ disposed' = disposed
    BY <1>5 DEF StartThrows
  <2> QED
    BY <2>1, Quiet
<1>6. ASSUME NEW r \in Requests, Request(r) PROVE ChannelNext
  <2>1. CASE CanRequest
    <3>1. SendRequest(r) /\ promise[r] = "unsent" /\ ~exited /\ ~disposed
            /\ exited' = exited /\ disposed' = disposed
      BY <1>6, <2>1 DEF Request, CanRequest, CanSend
    <3> QED
      BY <3>1, Issues DEF All
  <2>2. CASE ~(CanRequest)
    <3>1. promise[r] = "unsent" /\ promise' = [promise EXCEPT ![r] = "rejected"]
            /\ exited' = exited /\ disposed' = disposed
      BY <1>6, <2>2 DEF Request
    <3> QED
      BY <3>1, Refuses DEF All
  <2> QED  BY <2>1, <2>2
<1>7. ASSUME NEW r \in All, Timeout(r) PROVE ChannelNext
  <2>1. {r} \in SUBSET pending /\ Settle({r}, "rejected") /\ exited' = exited
          /\ disposed' = disposed
    BY <1>7 DEF Timeout, PendingExact
  <2> QED
    BY <2>1, Rejects
<1>8. ASSUME NEW r \in All, SendError(r) PROVE ChannelNext
  <2>1. {r} \in SUBSET pending /\ Settle({r}, "rejected") /\ exited' = exited
          /\ disposed' = disposed
    BY <1>8 DEF SendError, PendingExact
  <2> QED
    BY <2>1, Rejects
<1>9. ASSUME HandleMessage /\ HandleResponse PROVE ChannelNext
  <2> DEFINE m == Head(wire)
  <2>1. /\ Settle({m.id} \cap pending, IF m.ok THEN "resolved" ELSE "rejected")
        /\ exited' = exited /\ disposed' = disposed
    BY <1>9 DEF HandleMessage, HandleResponse, Message
  <2> HIDE DEF m
  <2>2. CASE m.id \in pending /\ m.ok
    <3>1. Settle({m.id}, "resolved")
      <4>1. {m.id} \cap pending = {m.id}  BY <2>2
      <4> QED  BY <2>1, <2>2, <4>1
    <3> QED  BY <2>1, <2>2, <3>1, Answers
  <2>3. CASE ~(m.id \in pending /\ m.ok)
    <3>1. Settle({m.id} \cap pending, "rejected")
      <4>1. CASE ~m.ok  BY <2>1, <4>1
      <4>2. CASE m.id \notin pending
        BY <2>1, <4>2 DEF Settle
      <4> QED  BY <2>3, <4>1, <4>2
    <3>2. {m.id} \cap pending \in SUBSET pending  OBVIOUS
    <3> QED  BY <2>1, <3>1, <3>2, Rejects
  <2> QED  BY <2>2, <2>3
<1>10. ASSUME HandleMessage /\ HandleViolation PROVE ChannelNext
  <2>1. Settle(pending, "rejected") /\ exited' = exited /\ disposed' = disposed
    BY <1>10 DEF HandleMessage, HandleViolation, Fail
  <2> QED
    BY <2>1, Rejects
<1>11. ASSUME HandleMessage /\ HandleEvent PROVE ChannelNext
  <2>1. promise' = promise /\ exited' = exited /\ disposed' = disposed
    BY <1>11 DEF HandleMessage, HandleEvent
  <2> QED
    BY <2>1, Quiet
<1>12. ASSUME Disconnect PROVE ChannelNext
  <2>1. promise' = promise /\ exited' = exited /\ disposed' = disposed
    BY <1>12 DEF Disconnect
  <2> QED
    BY <2>1, Quiet
<1>13. ASSUME ChildError PROVE ChannelNext
  <2>1. Settle(pending, "rejected") /\ exited' = exited /\ disposed' = disposed
    BY <1>13 DEF ChildError, Fail
  <2> QED
    BY <2>1, Rejects
<1>14. ASSUME Close PROVE ChannelNext
  <2>1. Settle(pending, "rejected") /\ (exited' \/ disposed')
    BY <1>14 DEF Close, Fail
  <2> QED
    BY <2>1, Closes
<1>15. ASSUME Dispose PROVE ChannelNext
  BY <1>15, Disposes DEF Dispose
<1>16. ASSUME ShutdownSettled PROVE ChannelNext
  <2>1. promise' = promise /\ exited' = exited /\ disposed' = disposed
    BY <1>16 DEF ShutdownSettled
  <2> QED
    BY <2>1, Quiet
<1>17. ASSUME ExitSeen PROVE ChannelNext
  <2>1. Settle(pending, "rejected") /\ (exited' \/ disposed')
    BY <1>17 DEF ExitSeen, DisposeEnds, Fail
  <2> QED
    BY <2>1, Closes
<1>18. ASSUME ExitTimeout PROVE ChannelNext
  <2>1. CASE proc = "running"
    <3>1. promise' = promise /\ exited' = exited /\ disposed' = disposed
      BY <1>18, <2>1 DEF ExitTimeout
    <3> QED
      BY <3>1, Quiet
  <2>2. CASE ~(proc = "running")
    <3>1. Settle(pending, "rejected") /\ disposed'
      BY <1>18, <2>2 DEF ExitTimeout, DisposeEnds, Fail
    <3> QED
      BY <3>1, Closes
  <2> QED  BY <2>1, <2>2
<1>19. ASSUME KillTimeout PROVE ChannelNext
  <2>1. Settle(pending, "rejected") /\ (exited' \/ disposed')
    BY <1>19 DEF KillTimeout, DisposeEnds, Fail
  <2> QED
    BY <2>1, Closes
<1>20. ASSUME CallBind PROVE ChannelNext
  <2>1. CASE CanRequest
    <3>1. SendRequest(bind) /\ promise[bind] = "unsent" /\ ~exited /\ ~disposed
            /\ exited' = exited /\ disposed' = disposed
      BY <1>20, <2>1 DEF CallBind, CanRequest, CanSend, Unsent
    <3> QED
      BY <3>1, Issues DEF All
  <2>2. CASE ~(CanRequest)
    <3>1. BeginDispose /\ exited' = exited
      BY <1>20, <2>2 DEF CallBind, BindThrows
    <3> QED
      BY <3>1, Disposes
  <2> QED  BY <2>1, <2>2
<1>21. ASSUME BindSettled PROVE ChannelNext
  <2>1. CASE promise[bind] = "resolved"
    <3>1. promise' = promise /\ exited' = exited /\ disposed' = disposed
      BY <1>21, <2>1 DEF BindSettled
    <3> QED
      BY <3>1, Quiet
  <2>2. CASE ~(promise[bind] = "resolved")
    <3>1. BeginDispose /\ exited' = exited
      BY <1>21, <2>2 DEF BindSettled, BindThrows
    <3> QED
      BY <3>1, Disposes
  <2> QED  BY <2>1, <2>2
<1>22. ASSUME BindFails PROVE ChannelNext
  BY <1>22, Disposes DEF BindFails, BindThrows
<1>23. ASSUME NEW u \in Users, SummaryAnswered(u) PROVE ChannelNext
  <2>1. promise' = promise /\ exited' = exited /\ disposed' = disposed
    BY <1>23 DEF SummaryAnswered
  <2> QED
    BY <2>1, Quiet
<1>24. ASSUME NEW u \in Users, Recorded(u) PROVE ChannelNext
  <2>1. promise' = promise /\ exited' = exited /\ disposed' = disposed
    BY <1>24 DEF Recorded
  <2> QED
    BY <2>1, Quiet
<1>25. ASSUME NEW f \in Forks, CallFork(f) PROVE ChannelNext
  <2>1. promise' = promise /\ exited' = exited /\ disposed' = disposed
    BY <1>25 DEF CallFork
  <2> QED
    BY <2>1, Quiet
<1>26. ASSUME NEW f \in Forks, ForkSummarised(f) PROVE ChannelNext
  <2>1. CASE CanRequest
    <3>1. SendRequest(f) /\ promise[f] = "unsent" /\ ~exited /\ ~disposed
            /\ exited' = exited /\ disposed' = disposed
      BY <1>26, <2>1 DEF ForkSummarised, CanRequest, CanSend, Unsent
    <3> QED
      BY <3>1, Issues DEF All
  <2>2. CASE ~(CanRequest)
    <3>1. promise' = promise /\ exited' = exited /\ disposed' = disposed
      BY <1>26, <2>2 DEF ForkSummarised
    <3> QED
      BY <3>1, Quiet
  <2> QED  BY <2>1, <2>2
<1>27. ASSUME NEW f \in Forks, ForkSettled(f) PROVE ChannelNext
  <2>1. promise' = promise /\ exited' = exited /\ disposed' = disposed
    BY <1>27 DEF ForkSettled
  <2> QED
    BY <2>1, Quiet
<1>28. ASSUME NEW f \in Forks, ForkFails(f) PROVE ChannelNext
  <2>1. promise' = promise /\ exited' = exited /\ disposed' = disposed
    BY <1>28 DEF ForkFails
  <2> QED
    BY <2>1, Quiet
<1>29. ASSUME Emit PROVE ChannelNext
  <2>1. promise' = promise /\ exited' = exited /\ disposed' = disposed
    BY <1>29 DEF Emit
  <2> QED
    BY <2>1, Quiet
<1>30. ASSUME Misbehave PROVE ChannelNext
  <2>1. promise' = promise /\ exited' = exited /\ disposed' = disposed
    BY <1>30 DEF Misbehave
  <2> QED
    BY <2>1, Quiet
<1>31. ASSUME Die PROVE ChannelNext
  <2>1. promise' = promise /\ exited' = exited /\ disposed' = disposed
    BY <1>31 DEF Die
  <2> QED
    BY <2>1, Quiet
<1>32. ASSUME NEW u \in Users, Switch(u) PROVE ChannelNext
  <2>1. promise' = promise /\ exited' = exited /\ disposed' = disposed
    BY <1>32 DEF Switch
  <2> QED
    BY <2>1, Quiet
<1>33. ASSUME NEW r \in All, NEW ok \in BOOLEAN, Answer(r, ok) PROVE ChannelNext
  <2>1. promise' = promise /\ exited' = exited /\ disposed' = disposed
    BY <1>33 DEF Answer
  <2> QED
    BY <2>1, Quiet
<1>34. CASE UNCHANGED vars
  BY <1>34, Quiet DEF vars
<1>35. HandleMessage => HandleMessage
         /\ (HandleResponse \/ HandleViolation \/ HandleEvent)
  BY DEF HandleMessage
<1> HIDE DEF disposed, disposing, worker, link, reqs, events, calls
<1>36. ASSUME Client PROVE ChannelNext
  BY <1>1, <1>2, <1>3, <1>4, <1>5, <1>6, <1>7, <1>8, <1>9, <1>10, <1>11, <1>12, <1>13,
     <1>14, <1>15, <1>16, <1>17, <1>18, <1>19, <1>35, <1>36, Zenon DEF Client
<1>37. ASSUME Broker PROVE ChannelNext
  BY <1>20, <1>21, <1>22, <1>23, <1>24, <1>25, <1>26, <1>27, <1>28, <1>37, Zenon DEF
     Broker
<1>38. ASSUME Process PROVE ChannelNext
  BY <1>29, <1>30, <1>31, <1>32, <1>33, <1>38, Zenon DEF Process
<1>39. QED
  BY <1>34, <1>36, <1>37, <1>38, Zenon DEF Next

(* The initial states are initial states of RequestChannel. *)
LEMMA ChannelInit == Init => Channel!Init
BY DEF Init, Channel!Init, disposed

(***************************************************************************)
(* PiHostClient implements RequestChannel: in every behaviour a request is *)
(* settled at most once, none is sent after the exit or the disposal, and  *)
(* that end leaves none waiting.                                           *)
(***************************************************************************)
THEOREM ChannelImplemented == Spec => ImplementsChannel
<1>1. Init => Channel!Init
  BY ChannelInit
<1>2. IInv /\ [Next]_vars => [Channel!Next]_(Channel!vars)
  <2> SUFFICES ASSUME IInv, [Next]_vars PROVE [Channel!Next]_(Channel!vars)
    OBVIOUS
  <2>1. TypeOK /\ PendingExact /\ Unsent /\ Closed
    BY DEF IInv
  <2> QED
    BY <2>1, ChannelStep DEF ChannelNext
<1> QED
  BY <1>1, <1>2, Invariance, PTL DEF Spec, ImplementsChannel, Channel!Spec

=============================================================================
