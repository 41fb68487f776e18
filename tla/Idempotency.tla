----------------------------- MODULE Idempotency -----------------------------
(***************************************************************************)
(* The command replay contract, internal/platform/idempotency/tx.go, as    *)
(* the sales, purchasing and finance commands use it: ReserveTx, the       *)
(* business writes and CompleteTx are one database transaction.            *)
(*                                                                         *)
(* An attempt is one delivery of a request.  A client that got no answer,  *)
(* or an error, sends the request again under the same key; a broken one   *)
(* may send another payload under it.  Transactions are serializable or    *)
(* read committed, as each command chose.                                  *)
(*                                                                         *)
(* A row of command_idempotency_records that others can see is COMPLETED:  *)
(* it is inserted IN_PROGRESS and completed in the same transaction.  So   *)
(* the answer ErrCommandInProgress does not occur in these commands.       *)
(***************************************************************************)
EXTENDS Naturals

CONSTANTS
    Keys,           \* Idempotency-Key headers
    Payloads,       \* request bodies, by their hash, with the command's name
    Attempts,       \* deliveries of requests
    Nobody          \* no transaction

ASSUME NobodyAssumption == Nobody \notin Attempts

VARIABLES
    record,     \* the committed rows of command_idempotency_records: payloads
    holder,     \* the open transaction that inserted the key's row
    attempt,    \* the state of each attempt's transaction
    effect,     \* committed business writes: <<key, payload, attempt>>
    answer      \* what the client was told

idempotencyVars == <<record, holder, attempt, effect, answer>>

Levels == {"serializable", "read committed"}
AttemptType == [pc: {"new", "snapshot", "insert", "read", "write", "complete", "commit", "over"},
                key: Keys, payload: Payloads, level: Levels,
                sees: {"row", "no row"}, inserted: {"yes", "no"}]

\* Every variable holds a value of its type, and an inserted row belongs to a
\* transaction that is still open.
IdempotencyTypeOK ==
    /\ record \in [Keys -> SUBSET Payloads]
    /\ holder \in [Keys -> Attempts \cup {Nobody}]
    /\ attempt \in [Attempts -> AttemptType]
    /\ effect \subseteq Keys \X Payloads \X Attempts
    /\ answer \in [Attempts -> {"none", "done", "conflict", "error"}]
    /\ \A k \in Keys, a \in Attempts :
          holder[k] = a => attempt[a].key = k /\ attempt[a].pc \in {"read", "write", "complete", "commit"}

IdempotencyInit ==
    /\ record = [k \in Keys |-> {}]
    /\ holder = [k \in Keys |-> Nobody]
    /\ attempt \in [Attempts -> [pc: {"new"}, key: Keys, payload: Payloads, level: Levels,
                                 sees: {"no row"}, inserted: {"no"}]]
    /\ effect = {}
    /\ answer = [a \in Attempts |-> "none"]
-----------------------------------------------------------------------------
Key(a) == attempt[a].key
Payload(a) == attempt[a].payload
Stored(a) == record[Key(a)]

Goes(a, pc) == attempt' = [attempt EXCEPT ![a].pc = pc]
Tell(a, what) == answer' = [answer EXCEPT ![a] = what]

\* A request arrives and its transaction begins.
Begin(a) ==
    /\ attempt[a].pc = "new"
    /\ Goes(a, "snapshot")
    /\ UNCHANGED <<record, holder, effect, answer>>

\* The INSERT of ReserveTx starts; a serializable transaction sees the rows of
\* this moment from now on.
TakeSnapshot(a) ==
    /\ attempt[a].pc = "snapshot"
    /\ attempt' = [attempt EXCEPT ![a].pc = "insert",
                                  ![a].sees = IF Stored(a) = {} THEN "no row" ELSE "row"]
    /\ UNCHANGED <<record, holder, effect, answer>>

\* Mutant: a row committed while the INSERT waited is waited for again.
MutInsertWaits(a) ==
    /\ attempt[a].pc = "insert" /\ holder[Key(a)] = Nobody
    /\ \/ /\ Stored(a) = {}
          /\ holder' = [holder EXCEPT ![Key(a)] = a]
          /\ attempt' = [attempt EXCEPT ![a].pc = "read", ![a].inserted = "yes"]
       \/ /\ Stored(a) # {} /\ attempt[a].sees = "row"
          /\ attempt' = [attempt EXCEPT ![a].pc = "read", ![a].inserted = "no"]
          /\ UNCHANGED holder
    /\ UNCHANGED <<record, effect, answer>>

\* ON CONFLICT DO NOTHING waits for an open transaction that inserted the key.
\* It inserts the row if there is none, and does nothing if there is one.
Insert(a) ==
    /\ attempt[a].pc = "insert" /\ holder[Key(a)] = Nobody
    /\ \/ /\ Stored(a) = {}
          /\ holder' = [holder EXCEPT ![Key(a)] = a]
          /\ attempt' = [attempt EXCEPT ![a].pc = "read", ![a].inserted = "yes"]
       \/ /\ Stored(a) # {}
          /\ attempt[a].level = "read committed" \/ attempt[a].sees = "row"
          /\ attempt' = [attempt EXCEPT ![a].pc = "read", ![a].inserted = "no"]
          /\ UNCHANGED holder
    /\ UNCHANGED <<record, effect, answer>>

\* A serializable transaction that meets a row committed after its snapshot
\* fails with a serialization error.
SerializationFailure(a) ==
    /\ attempt[a].pc = "insert" /\ holder[Key(a)] = Nobody
    /\ Stored(a) # {} /\ attempt[a].level = "serializable" /\ attempt[a].sees = "no row"
    /\ Goes(a, "over")
    /\ Tell(a, "error")
    /\ UNCHANGED <<record, holder, effect>>

\* Mutant: the hash of the stored payload is not compared.
MutMatches(a) == TRUE

\* The stored command and hash are the request's own.
Matches(a) == Payload(a) \in Stored(a)

\* The SELECT ... FOR UPDATE and what ReserveTx makes of it: the row is our own,
\* a replay, or another request's.
Read(a) ==
    /\ attempt[a].pc = "read"
    /\ \/ /\ attempt[a].inserted = "yes"
          /\ Goes(a, "write")
          /\ UNCHANGED answer
       \/ /\ attempt[a].inserted = "no" /\ Matches(a)
          /\ Goes(a, "over")
          /\ Tell(a, "done")
       \/ /\ attempt[a].inserted = "no" /\ ~Matches(a)
          /\ Goes(a, "over")
          /\ Tell(a, "conflict")
    /\ UNCHANGED <<record, holder, effect>>

\* The business writes, then CompleteTx.
Write(a) ==
    /\ attempt[a].pc \in {"write", "complete"}
    /\ Goes(a, IF attempt[a].pc = "write" THEN "complete" ELSE "commit")
    /\ UNCHANGED <<record, holder, effect, answer>>

\* The end of a transaction lets go of the row it inserted.
Freed(a) == [k \in Keys |-> IF holder[k] = a THEN Nobody ELSE holder[k]]

\* Everything becomes visible at once.  The answer may not reach the client, or
\* the commit's own answer may not reach the process, which reports an error.
Commit(a) ==
    /\ attempt[a].pc = "commit"
    /\ record' = [record EXCEPT ![Key(a)] = @ \cup {Payload(a)}]
    /\ effect' = effect \cup {<<Key(a), Payload(a), a>>}
    /\ holder' = Freed(a)
    /\ Goes(a, "over")
    /\ \/ Tell(a, "done")
       \/ Tell(a, "error")
       \/ UNCHANGED answer

\* The command fails, or its process dies: nothing of the transaction stays.
Rollback(a) ==
    /\ attempt[a].pc \in {"snapshot", "insert", "read", "write", "complete", "commit"}
    /\ holder' = Freed(a)
    /\ Goes(a, "over")
    /\ Tell(a, "error") \/ UNCHANGED answer
    /\ UNCHANGED <<record, effect>>

Progress(a) ==
    \/ TakeSnapshot(a) \/ Insert(a) \/ SerializationFailure(a) \/ Read(a) \/ Write(a) \/ Commit(a)

IdempotencyNext == \E a \in Attempts : Begin(a) \/ Progress(a) \/ Rollback(a)

\* A request that was received goes on: its handler is a running goroutine.
IdempotencyFairness == \A a \in Attempts : WF_idempotencyVars(Progress(a))

IdempotencySpec == IdempotencyInit /\ [][IdempotencyNext]_idempotencyVars /\ IdempotencyFairness
-----------------------------------------------------------------------------
\* A command takes effect at most once under a key, however its deliveries
\* interleave, fail and are repeated.
OneEffect == \A e, f \in effect : e[1] = f[1] => e = f

\* The promise made to clients: effects at most once per key, and every answer
\* true when it is given (ReserveTx, CompleteTx in the business transaction).
Requests == [a \in Attempts |-> <<Key(a), Payload(a)>>]
Promise == INSTANCE ExactlyOnce WITH request <- Requests
KeepsPromise == Promise!Spec

\* A delivery that was received ends, also when nothing fails: no transaction
\* waits for a key for ever, and again and again none is open.
EveryAttemptEnds == []<>(\A a \in Attempts : attempt[a].pc \in {"new", "over"})
=============================================================================
