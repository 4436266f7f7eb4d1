--------------------------- MODULE RequestChannel ---------------------------
(***************************************************************************)
(* What PiHostClient promises about requests: each is settled at most      *)
(* once, by its answer or by a rejection, and none is issued or left       *)
(* waiting once the channel is closed.                                     *)
(***************************************************************************)
CONSTANT Requests

VARIABLES status, closed

vars == <<status, closed>>

Waiting == {r \in Requests : status[r] = "waiting"}

Init ==
  /\ status = [r \in Requests |-> "unsent"]
  /\ closed = FALSE

Issue(r) ==
  /\ ~closed
  /\ status[r] = "unsent"
  /\ status' = [status EXCEPT ![r] = "waiting"]
  /\ UNCHANGED closed

Refuse(r) ==
  /\ status[r] = "unsent"
  /\ status' = [status EXCEPT ![r] = "rejected"]
  /\ UNCHANGED closed

Answer(r) ==
  /\ r \in Waiting
  /\ status' = [status EXCEPT ![r] = "resolved"]
  /\ UNCHANGED closed

Rejected(R) == [r \in Requests |-> IF r \in R THEN "rejected" ELSE status[r]]

Reject(R) ==
  /\ R \subseteq Waiting
  /\ status' = Rejected(R)
  /\ UNCHANGED closed

Close ==
  /\ closed' = TRUE
  /\ status' = Rejected(Waiting)

Next ==
  \/ \E r \in Requests : Issue(r) \/ Refuse(r) \/ Answer(r)
  \/ \E R \in SUBSET Requests : Reject(R)
  \/ Close

Spec == Init /\ [][Next]_vars

=============================================================================
