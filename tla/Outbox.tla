------------------------------- MODULE Outbox -------------------------------
(***************************************************************************)
(* The transactional outbox with its relay, the dispatcher and the inbox.  *)
(*                                                                         *)
(* A relay holds one transaction, and in it an advisory lock, from the     *)
(* query of a batch until the results are recorded.  Between the two the   *)
(* dispatcher calls every subscriber of every event of the batch, each     *)
(* inside a transaction of the inbox that registers the pair of consumer   *)
(* and event; the handler's own work is in transactions of its own.        *)
(*                                                                         *)
(* A relay that has lost its connection has lost the lock too, but not the *)
(* batch: it goes on dispatching until it tries to record.                 *)
(***************************************************************************)
EXTENDS Naturals, FiniteSets

CONSTANTS
    Events, Subscribers,   \* as in module Delivery
    Aggregate,             \* event -> the aggregate it is of
    Relays,                \* relays, one in each worker process
    BatchSize, MaxAttempts,
    MaxFailures,           \* bound: calls that fail
    MaxFaults,             \* bound: connections lost and processes stopped
    None                   \* no relay

ASSUME OutboxAssumption ==
    /\ Events \subseteq Nat
    /\ BatchSize \in Nat \ {0} /\ MaxAttempts \in Nat \ {0}
    /\ MaxFailures \in Nat /\ MaxFaults \in Nat
    /\ None \notin Relays

VARIABLES
    row, inbox,   \* as in module Delivery
    attempts,     \* event -> attempts that have failed
    waiting,      \* events in back-off
    handled,      \* pairs whose handler has succeeded at least once
    lock,         \* the relay whose transaction has the advisory lock
    at,           \* relay -> what it does
    batch,        \* relay -> the events it has fetched
    tried,        \* relay -> the pairs of the batch it is done with
    failed,       \* relay -> the events of the batch with a failed call
    call,         \* relay -> the pair it has registered and not committed
    failures, faults

rows == <<row, attempts, waiting>>
vars == <<row, inbox, attempts, waiting, handled, lock, at, batch, tried, failed,
          call, failures, faults>>

RowStatus == {"none", "pending", "published"}
Pairs == UNION {Subscribers[e] \X {e} : e \in Events}
NoCall == <<>>

(* The events of an aggregate are written under the lock of its row, so    *)
(* that the order of their ids is the order in which they become visible.  *)
Earlier(d, e) == d < e /\ Aggregate[d] = Aggregate[e]

Init ==
    /\ row = [e \in Events |-> "none"]
    /\ attempts = [e \in Events |-> 0]
    /\ waiting = {} /\ inbox = {} /\ handled = {}
    /\ lock = None
    /\ at = [r \in Relays |-> "idle"]
    /\ batch = [r \in Relays |-> {}]
    /\ tried = [r \in Relays |-> {}]
    /\ failed = [r \in Relays |-> {}]
    /\ call = [r \in Relays |-> NoCall]
    /\ failures = 0 /\ faults = 0

-----------------------------------------------------------------------------
Goto(r, l) == at' = [at EXCEPT ![r] = l]

(* Ids of aggregates that are changed at the same time may become visible  *)
(* in any order.                                                           *)
Write(e) ==
    /\ row[e] = "none"
    /\ \A d \in Events : Earlier(d, e) => row[d] # "none"
    /\ row' = [row EXCEPT ![e] = "pending"]
    /\ UNCHANGED <<inbox, attempts, waiting, handled, lock, at, batch, tried,
                   failed, call, failures, faults>>

BackOffEnds(e) ==
    /\ e \in waiting
    /\ waiting' = waiting \ {e}
    /\ UNCHANGED <<row, inbox, attempts, handled, lock, at, batch, tried, failed,
                   call, failures, faults>>

Due == {e \in Events : row[e] = "pending" /\ attempts[e] < MaxAttempts /\ e \notin waiting}

(* ORDER BY id LIMIT.                                                      *)
FirstOf(S) == {e \in S : Cardinality({d \in S : d < e}) < BatchSize}

Fetch(r) ==
    /\ at[r] = "idle" /\ lock = None
    /\ Due # {}
    /\ lock' = r
    /\ batch' = [batch EXCEPT ![r] = FirstOf(Due)]
    /\ Goto(r, "dispatch")
    /\ UNCHANGED <<rows, inbox, handled, tried, failed, call, failures, faults>>

-----------------------------------------------------------------------------
(* Dispatcher.Publish, which calls the subscribers event by event.         *)

(* Faulty: a failed event does not hold back the events after it.          *)
BlockedByNone(r) == {}

Blocked(r) == {e \in batch[r] : \E d \in failed[r] : Earlier(d, e)}

Untried(r, e) == {c \in Subscribers[e] : <<c, e>> \notin tried[r]}

Remaining(r) == {e \in batch[r] \ Blocked(r) : Untried(r, e) # {}}

Current(r) == {e \in Remaining(r) : \A d \in Remaining(r) : e <= d}

(* Faulty: a pair that another transaction is registering counts as new.   *)
RegisterUnlocked(r) ==
    /\ at[r] = "dispatch"
    /\ \E e \in Current(r) : \E c \in Untried(r, e) :
          \/ /\ <<c, e>> \in inbox
             /\ tried' = [tried EXCEPT ![r] = @ \cup {<<c, e>>}]
             /\ UNCHANGED <<at, call>>
          \/ /\ <<c, e>> \notin inbox
             /\ call' = [call EXCEPT ![r] = <<c, e>>]
             /\ Goto(r, "handle")
             /\ UNCHANGED tried
    /\ UNCHANGED <<rows, inbox, handled, lock, batch, failed, failures, faults>>

(* The insert of Once: it waits while another transaction has inserted the *)
(* same pair, and does nothing if the pair is there.                       *)
Register(r) ==
    /\ at[r] = "dispatch"
    /\ \E e \in Current(r) : \E c \in Untried(r, e) :
          /\ \A q \in Relays : call[q] # <<c, e>>
          /\ \/ /\ <<c, e>> \in inbox
                /\ tried' = [tried EXCEPT ![r] = @ \cup {<<c, e>>}]
                /\ UNCHANGED <<at, call>>
             \/ /\ <<c, e>> \notin inbox
                /\ call' = [call EXCEPT ![r] = <<c, e>>]
                /\ Goto(r, "handle")
                /\ UNCHANGED tried
    /\ UNCHANGED <<rows, inbox, handled, lock, batch, failed, failures, faults>>

HandlerSucceeds(r) ==
    /\ at[r] = "handle"
    /\ handled' = handled \cup {call[r]}
    /\ Goto(r, "commit")
    /\ UNCHANGED <<rows, inbox, lock, batch, tried, failed, call, failures, faults>>

(* The transaction of the inbox ends: the pair has been tried.             *)
EndCall(r) ==
    /\ tried' = [tried EXCEPT ![r] = @ \cup {call[r]}]
    /\ call' = [call EXCEPT ![r] = NoCall]
    /\ Goto(r, "dispatch")

Commit(r) ==
    /\ at[r] = "commit"
    /\ inbox' = inbox \cup {call[r]}
    /\ EndCall(r)
    /\ UNCHANGED <<rows, handled, lock, batch, failed, failures, faults>>

Failure ==
    /\ failures < MaxFailures
    /\ failures' = failures + 1

(* Faulty: the error of a subscriber is logged and not returned.           *)
CallLogged(r) ==
    /\ at[r] \in {"handle", "commit"}
    /\ Failure
    /\ EndCall(r)
    /\ UNCHANGED <<rows, inbox, handled, lock, batch, failed, faults>>

(* The handler returns an error, or has succeeded and the transaction of   *)
(* the inbox does not commit.  The other subscribers of the event are      *)
(* called all the same.                                                    *)
CallFails(r) ==
    /\ at[r] \in {"handle", "commit"}
    /\ Failure
    /\ failed' = [failed EXCEPT ![r] = @ \cup {call[r][2]}]
    /\ EndCall(r)
    /\ UNCHANGED <<rows, inbox, handled, lock, batch, faults>>

(* PublishTimeout: no other call of this batch gets a transaction.         *)
TimeOut(r) ==
    /\ at[r] = "dispatch" /\ Remaining(r) # {}
    /\ Failure
    /\ failed' = [failed EXCEPT ![r] = @ \cup Remaining(r)]
    /\ tried' = [tried EXCEPT ![r] = @ \cup UNION {Subscribers[e] \X {e} : e \in Remaining(r)}]
    /\ UNCHANGED <<rows, inbox, handled, lock, at, batch, call, faults>>

-----------------------------------------------------------------------------
(* The relay forgets the batch, and an open transaction is rolled back.    *)
Rest(r) ==
    /\ Goto(r, "idle")
    /\ batch' = [batch EXCEPT ![r] = {}]
    /\ tried' = [tried EXCEPT ![r] = {}]
    /\ failed' = [failed EXCEPT ![r] = {}]
    /\ call' = [call EXCEPT ![r] = NoCall]

(* Faulty: the lock is a row that the relay deletes when it has recorded.  *)
UnlockRecorded(r) ==
    lock' = IF lock = r /\ at[r] = "dispatch" /\ Remaining(r) = {} THEN None ELSE lock

Unlock(r) == lock' = IF lock = r THEN None ELSE lock

(* Blocked events are recorded like the one that blocks them, each with a  *)
(* back-off that depends on its own attempts.                              *)
RecordAll(r) ==
    LET errs == failed[r] \cup Blocked(r) IN
    /\ attempts' = [e \in Events |-> attempts[e] + (IF e \in errs THEN 1 ELSE 0)]
    /\ waiting' = waiting \cup errs
    /\ row' = [e \in Events |-> IF e \in batch[r] \ errs THEN "published" ELSE row[e]]

(* Only the transaction that has fetched the batch records its results.    *)
Record(r) ==
    /\ at[r] = "dispatch" /\ Remaining(r) = {}
    /\ IF lock = r THEN RecordAll(r) ELSE UNCHANGED rows
    /\ Unlock(r)
    /\ Rest(r)
    /\ UNCHANGED <<inbox, handled, failures, faults>>

Fault ==
    /\ faults < MaxFaults
    /\ faults' = faults + 1

(* The transaction of the relay is gone; the dispatcher does not notice.   *)
Disconnect(r) ==
    /\ lock = r
    /\ Fault
    /\ lock' = None
    /\ UNCHANGED <<rows, inbox, handled, at, batch, tried, failed, call, failures>>

Stop(r) ==
    /\ at[r] # "idle"
    /\ Fault
    /\ Unlock(r)
    /\ Rest(r)
    /\ UNCHANGED <<rows, inbox, handled, failures>>

Dispatch(r) ==
    Register(r) \/ HandlerSucceeds(r) \/ Commit(r) \/ CallFails(r) \/ TimeOut(r)

Relay(r) == Fetch(r) \/ Dispatch(r) \/ Record(r)

Next ==
    \/ \E e \in Events : Write(e) \/ BackOffEnds(e)
    \/ \E r \in Relays : Relay(r) \/ Disconnect(r) \/ Stop(r)

(* Relay.Run polls for ever, and a back-off ends.                          *)
Fairness ==
    /\ \A e \in Events : WF_vars(BackOffEnds(e))
    /\ \A r \in Relays : WF_vars(Relay(r))

Spec == Init /\ [][Next]_vars /\ Fairness

-----------------------------------------------------------------------------
(* Every variable stays in its range, and a pair is registered without     *)
(* being committed just while its handler is called.                       *)
TypeOK ==
    /\ row \in [Events -> RowStatus]
    /\ attempts \in [Events -> 0..MaxAttempts]
    /\ waiting \subseteq Events
    /\ inbox \subseteq Pairs /\ handled \subseteq Pairs
    /\ lock \in Relays \cup {None}
    /\ at \in [Relays -> {"idle", "dispatch", "handle", "commit"}]
    /\ batch \in [Relays -> SUBSET Events]
    /\ tried \in [Relays -> SUBSET Pairs]
    /\ failed \in [Relays -> SUBSET Events]
    /\ call \in [Relays -> Pairs \cup {NoCall}]
    /\ \A r \in Relays : call[r] = NoCall <=> at[r] \in {"idle", "dispatch"}
    /\ failures \in 0..MaxFailures /\ faults \in 0..MaxFaults

(* However relays overlap, a handler is neither called for a pair that has *)
(* been registered nor twice at a time, and what is registered has been    *)
(* handled with success.                                                   *)
OnceOnly ==
    /\ inbox \subseteq handled
    /\ \A r \in Relays : at[r] \in {"handle", "commit"} =>
          /\ call[r] \notin inbox
          /\ \A q \in Relays \ {r} : call[q] # call[r]

(* A consumer receives an event before an earlier one of the aggregate     *)
(* only if an attempt at the earlier one has failed.                       *)
OrderedUnlessFailed ==
    \A p \in inbox, d \in Events :
        Earlier(d, p[2]) /\ p[1] \in Subscribers[d] =>
            <<p[1], d>> \in inbox \/ attempts[d] > 0

(* A consumer receives the events of an aggregate in their order.          *)
InOrder ==
    \A p \in inbox, d \in Events :
        Earlier(d, p[2]) /\ p[1] \in Subscribers[d] => <<p[1], d>> \in inbox

(* As long as fewer calls fail than an event has attempts, every event     *)
(* that is written is published in the end, stopped and disconnected       *)
(* relays notwithstanding.                                                 *)
EventsArrive ==
    \A e \in Events :
        row[e] = "pending" ~> row[e] = "published" \/ failures >= MaxAttempts

Promise == INSTANCE Delivery

(* Relay, dispatcher and inbox keep the promise of module Delivery.        *)
KeepsDelivery == Promise!Spec
=============================================================================
