----------------------------- MODULE Idempotency -----------------------------
(***************************************************************************)
(* The middleware that lets a client repeat a request under its            *)
(* Idempotency-Key, over the table platform.idempotency_keys.              *)
(*                                                                         *)
(* An attempt is one HTTP request that carries a key: a goroutine at       *)
(* "begin" (the upsert), "load" (the row that was in its way), "handle",   *)
(* and "complete" or "release".  A key is (principal, scope, value); what  *)
(* a client asks for with it is the body.  The handler may change state    *)
(* and answer with an error all the same; a statement may fail, and an     *)
(* attempt stops with its client or its process at any step.               *)
(***************************************************************************)
EXTENDS Naturals, FiniteSets

CONSTANTS
    Keys, Bodies,    \* idempotency keys, request hashes
    Attempts,        \* HTTP requests
    MaxFailures,     \* bound on failed statements and attempts that stop
    MaxTTLs,         \* bound on how often a record outlives its time
    None

Answers == {"success", "refused", "failed"}  \* 2xx, 4xx, 5xx or too long to keep

VARIABLES
    record,     \* key -> the row: state, hash and the answer it stores
    overdue,    \* keys whose row has passed expires_at
    step,       \* attempt -> where it is
    key, body,  \* attempt -> its key and request hash
    answer,     \* attempt -> what its handler, or the row it loaded, answered
    effects,    \* attempts whose handler has changed state
    origin,     \* key -> the attempt that holds or completed its row
    failures, ttls

idemVars == <<record, overdue, step, key, body, answer, effects, origin, failures, ttls>>

Record == [state : {"none", "in_progress", "completed"}, hash : Bodies \cup {None},
           answer : Answers \cup {"none"}]
NoRecord == [state |-> "none", hash |-> None, answer |-> "none"]
Ended == {"answered", "conflict", "key_reuse", "error", "gone"}
Steps == {"idle", "begin", "load", "handle", "finish"} \cup Ended

IdempotencyTypeOK ==
    /\ record \in [Keys -> Record]
    /\ overdue \subseteq Keys
    /\ step \in [Attempts -> Steps]
    /\ key \in [Attempts -> Keys \cup {None}]
    /\ body \in [Attempts -> Bodies \cup {None}]
    /\ answer \in [Attempts -> Answers \cup {"none"}]
    /\ effects \subseteq Attempts
    /\ origin \in [Keys -> Attempts \cup {None}]
    /\ failures \in 0 .. MaxFailures /\ ttls \in 0 .. MaxTTLs

IdempotencyInit ==
    /\ record = [k \in Keys |-> NoRecord]
    /\ overdue = {}
    /\ step = [a \in Attempts |-> "idle"]
    /\ key = [a \in Attempts |-> None]
    /\ body = [a \in Attempts |-> None]
    /\ answer = [a \in Attempts |-> "none"]
    /\ effects = {}
    /\ origin = [k \in Keys |-> None]
    /\ failures = 0 /\ ttls = 0

-----------------------------------------------------------------------------
Move(a, l) == step' = [step EXCEPT ![a] = l]
Reply(a, l, x) == Move(a, l) /\ answer' = [answer EXCEPT ![a] = x]
Failure == failures < MaxFailures /\ failures' = failures + 1

Send(a, k, b) ==
    /\ step[a] = "idle"
    /\ Move(a, "begin")
    /\ key' = [key EXCEPT ![a] = k]
    /\ body' = [body EXCEPT ![a] = b]
    /\ UNCHANGED <<record, overdue, answer, effects, origin, failures, ttls>>

(* Faulty: an attempt that is still in progress is taken over.             *)
FreeOrUnfinished(k) == record[k].state # "completed" \/ k \in overdue

(* The insert succeeds, or the update of a row that is past its time.      *)
Free(k) == record[k].state = "none" \/ k \in overdue

Begin(a) ==
    /\ step[a] = "begin"
    /\ LET k == key[a]
       IN  IF Free(k)
             THEN /\ record' = [record EXCEPT ![k] = [state |-> "in_progress",
                                                      hash |-> body[a], answer |-> "none"]]
                  /\ overdue' = overdue \ {k}
                  /\ origin' = [origin EXCEPT ![k] = a]
                  /\ Move(a, "handle")
             ELSE Move(a, "load") /\ UNCHANGED <<record, overdue, origin>>
    /\ UNCHANGED <<key, body, answer, effects, failures, ttls>>

Replay(a, row) ==
    CASE row.hash # body[a] -> Reply(a, "key_reuse", "none")
      [] row.hash = body[a] /\ row.state # "completed" -> Reply(a, "conflict", "none")
      [] OTHER -> Reply(a, "answered", row.answer)

(* The row that was in the way may be released by now: an error.           *)
Load(a) ==
    /\ step[a] = "load"
    /\ IF record[key[a]].state = "none"
         THEN Reply(a, "error", "none")
         ELSE Replay(a, record[key[a]])
    /\ UNCHANGED <<record, overdue, key, body, effects, origin, failures, ttls>>

(* The handler: a success has changed state; a refusal or a failure may    *)
(* have, as PlaceOrder does when the promo code is refused after the order *)
(* was saved.                                                              *)
Handle(a, x, changed) ==
    /\ step[a] = "handle"
    /\ x = "success" => changed
    /\ x = "failed" => Failure
    /\ x # "failed" => UNCHANGED failures
    /\ effects' = IF changed THEN effects \cup {a} ELSE effects
    /\ Reply(a, "finish", x)
    /\ UNCHANGED <<record, overdue, key, body, origin, ttls>>

Releases(a) == answer[a] = "failed"

(* The row is completed whoever holds it, and released only if it is in    *)
(* progress.  Neither statement asks whether the row is still this         *)
(* attempt's.  The client has its answer already.                          *)
Finish(a) ==
    /\ step[a] = "finish"
    /\ Move(a, "answered")
    /\ LET k == key[a]
       IN  IF Releases(a)
             THEN record' = IF record[k].state = "in_progress"
                              THEN [record EXCEPT ![k] = NoRecord] ELSE record
             ELSE record' = IF record[k].state # "none"
                              THEN [record EXCEPT ![k].state = "completed",
                                                  ![k].answer = answer[a]]
                              ELSE record
    /\ overdue' = {k \in overdue : record'[k].state # "none"}
    /\ UNCHANGED <<key, body, answer, effects, origin, failures, ttls>>

(* A statement fails, the client goes away, or the process stops.          *)
Break(a) ==
    /\ step[a] \in {"begin", "load", "handle", "finish"}
    /\ Failure
    /\ Move(a, IF step[a] \in {"begin", "load"} THEN "error"
               ELSE IF step[a] = "finish" THEN "answered" ELSE "gone")
    /\ UNCHANGED <<record, overdue, key, body, answer, effects, origin, ttls>>

-----------------------------------------------------------------------------
(* Twenty-four hours pass, and the hourly job deletes what is overdue.     *)

Outlive(k) ==
    /\ record[k].state # "none" /\ k \notin overdue /\ ttls < MaxTTLs
    /\ overdue' = overdue \cup {k}
    /\ ttls' = ttls + 1
    /\ UNCHANGED <<record, step, key, body, answer, effects, origin, failures>>

DeleteExpired ==
    /\ overdue # {}
    /\ record' = [k \in Keys |-> IF k \in overdue THEN NoRecord ELSE record[k]]
    /\ overdue' = {}
    /\ UNCHANGED <<step, key, body, answer, effects, origin, failures, ttls>>

IdempotencyNext ==
    \/ \E a \in Attempts :
          \/ \E k \in Keys, b \in Bodies : Send(a, k, b)
          \/ Begin(a) \/ Load(a) \/ Finish(a) \/ Break(a)
          \/ \E x \in Answers, changed \in BOOLEAN : Handle(a, x, changed)
    \/ \E k \in Keys : Outlive(k)
    \/ DeleteExpired

IdempotencySpec == IdempotencyInit /\ [][IdempotencyNext]_idemVars

-----------------------------------------------------------------------------
(* A client that repeats a request under its key has it done once: two     *)
(* attempts of one key both change state only after a row has outlived its *)
(* time, or the first of them has answered with a failure.                 *)
WorkStandsOnce ==
    \A a, b \in effects :
        (a # b /\ key[a] = key[b] /\ ttls = 0)
            => answer[a] = "failed" \/ answer[b] = "failed"

(* An answer that is replayed is the one the work was answered with, and   *)
(* for the same request.                                                   *)
ReplaysTheAnswer ==
    \A a \in Attempts :
        (step[a] = "answered" /\ a \notin effects /\ answer[a] = "success")
            => \E b \in effects : /\ key[b] = key[a] /\ answer[b] = "success"
                                  /\ (ttls = 0 => body[b] = body[a])

(* The work is done once, and its answer is what later attempts get.       *)
DoneOnce == WorkStandsOnce /\ ReplaysTheAnswer
=============================================================================
