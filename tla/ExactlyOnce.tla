----------------------------- MODULE ExactlyOnce -----------------------------
(***************************************************************************)
(* What the command replay contract promises a client (the package comment *)
(* of internal/platform/idempotency): a key stands for one command.        *)
(* However often the command is sent it takes effect at most once, and an  *)
(* answer that a client gets is true.                                      *)
(***************************************************************************)
CONSTANTS Keys, Payloads, Attempts

VARIABLES
    request,    \* the <<key, payload>> of each attempt
    effect,     \* the attempts <<key, payload, attempt>> that took effect
    answer      \* the answer to each attempt

Answers == {"none", "done", "conflict", "error"}

\* A payload under a key has taken effect, by whichever attempt.
Applied(key, payload) == \E a \in Attempts : <<key, payload, a>> \in effect

Init ==
    /\ request \in [Attempts -> Keys \X Payloads]
    /\ effect = {}
    /\ answer = [a \in Attempts |-> "none"]

\* An attempt takes effect; nobody did so under this key before.
Apply(a) ==
    /\ \A p \in Payloads : ~Applied(request[a][1], p)
    /\ effect' = effect \cup {<<request[a][1], request[a][2], a>>}

\* An attempt is answered, once, and truly.
Answer(a) ==
    /\ answer[a] = "none"
    /\ \/ /\ \E b \in Attempts : <<request[a][1], request[a][2], b>> \in effect'
          /\ answer' = [answer EXCEPT ![a] = "done"]
       \/ /\ \E p \in Payloads \ {request[a][2]} : Applied(request[a][1], p)
          /\ answer' = [answer EXCEPT ![a] = "conflict"]
       \/ answer' = [answer EXCEPT ![a] = "error"]

Next ==
    /\ \E a \in Attempts :
          \/ Apply(a) /\ Answer(a)
          \/ Apply(a) /\ UNCHANGED answer
          \/ Answer(a) /\ UNCHANGED effect
    /\ UNCHANGED request

Spec == Init /\ [][Next]_<<request, effect, answer>>
=============================================================================
