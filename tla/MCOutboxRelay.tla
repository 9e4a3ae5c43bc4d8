----------------------------- MODULE MCOutboxRelay -----------------------------
(* Small instances of OutboxRelay: two events of two topics.                 *)
EXTENDS OutboxRelay, TLC

CONSTANTS a, b, events, bulk

TwoTopics == 1 :> bulk @@ 2 :> events
===============================================================================
