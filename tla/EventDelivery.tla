----------------------------- MODULE EventDelivery -----------------------------
(***************************************************************************)
(* What the transactional outbox promises of each event: once committed it *)
(* is owed to the consumers until it has been dispatched, at least once,   *)
(* or every attempt to do so has failed.                                   *)
(***************************************************************************)
CONSTANT Events

VARIABLE promise    \* what is promised of each event

Settled == {"dispatched", "abandoned"}

Init == promise = [e \in Events |-> "none"]

Move(S, from, to) ==
  /\ \A e \in S : promise[e] = from
  /\ promise' = [e \in Events |-> IF e \in S THEN to ELSE promise[e]]

Commit(S) == Move(S, "none", "owed")
Dispatch(S) == Move(S, "owed", "dispatched")
Abandon(S) == Move(S, "owed", "abandoned")

Next == \E S \in SUBSET Events : Commit(S) \/ Dispatch(S) \/ Abandon(S)

\* No event is owed for ever.
Settles == \A e \in Events : promise[e] = "owed" ~> promise[e] \in Settled

Safety == Init /\ [][Next]_promise

Spec == Safety /\ Settles
===============================================================================
