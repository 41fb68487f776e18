----------------------------- MODULE MCCommands -----------------------------
(* The two ends of a command: its delivery under an idempotency key, and the *)
(* events it leaves in the outbox.  One of the two is acted out and the      *)
(* other stands still.                                                       *)
EXTENDS Outbox, Idempotency

VARIABLE scene

MCEvents == 1..2
everything == <<scene, vars, idempotencyVars>>

MCInit ==
    /\ scene \in {"delivery", "events"}
    /\ Init /\ IdempotencyInit
    /\ scene = "events" => \A a \in Attempts : /\ attempt[a].payload = CHOOSE p \in Payloads : TRUE
                                              /\ attempt[a].level = "serializable"

DeliveryNext == scene = "delivery" /\ IdempotencyNext /\ UNCHANGED <<scene, vars>>
EventsNext == scene = "events" /\ Next /\ UNCHANGED <<scene, idempotencyVars>>

MCNext == DeliveryNext \/ EventsNext
MCSpec == MCInit /\ [][MCNext]_everything /\ Fairness /\ IdempotencyFairness
=============================================================================
