---------------------------- MODULE OutboxProofs ----------------------------
(***************************************************************************)
(* Proofs that relay, dispatcher and inbox keep the promise of module      *)
(* Delivery and call no handler again for what it has registered, for any  *)
(* events, subscribers, relays and limits.                                 *)
(***************************************************************************)
EXTENDS Outbox, FiniteSetTheorems, TLAPS

(* What a relay has fetched is there; while its transaction lives nobody   *)
(* else has recorded it; and a pair it is done with has been registered or *)
(* its event is known to have failed.                                      *)
RelayOK(r) ==
    /\ \A e \in batch[r] : row[e] # "none"
    /\ lock = r => \A e \in batch[r] : row[e] = "pending" /\ attempts[e] < MaxAttempts
    /\ at[r] = "idle" => lock # r /\ batch[r] = {} /\ tried[r] = {}
    /\ failed[r] \subseteq batch[r]
    /\ at[r] \in {"handle", "commit"} => call[r][2] \in batch[r]
    /\ at[r] = "commit" => call[r] \in handled
    /\ \A p \in tried[r] : p \in inbox \/ p[2] \in failed[r]

(* All subscribers of a published event have registered it.                *)
PublishedOK ==
    \A e \in Events : row[e] = "published" => Subscribers[e] \X {e} \subseteq inbox

IInv ==
    /\ TypeOK
    /\ OnceOnly
    /\ PublishedOK
    /\ \A r \in Relays : RelayOK(r)

-----------------------------------------------------------------------------
(* A pair is a consumer and an event it has subscribed to.                 *)
LEMMA PairForm ==
    /\ \A p \in Pairs : /\ p[2] \in Events
                        /\ p[1] \in Subscribers[p[2]]
                        /\ p = <<p[1], p[2]>>
    /\ \A e \in Events : \A c \in Subscribers[e] : <<c, e>> \in Pairs
    /\ NoCall \notin Pairs
  BY DEF Pairs, NoCall

(* A relay that handles a pair has it registered.                          *)
LEMMA CallForm ==
    ASSUME TypeOK, NEW r \in Relays, at[r] \in {"handle", "commit"}
    PROVE  /\ call[r] \in Pairs
           /\ call[r][2] \in Events
           /\ call[r][1] \in Subscribers[call[r][2]]
           /\ call[r] = <<call[r][1], call[r][2]>>
<1>1. call[r] \in Pairs
  BY DEF TypeOK
<1> QED
  BY <1>1, PairForm

(* Events a relay has yet to call for are of its batch.                    *)
LEMMA RemainingForm ==
    ASSUME TypeOK, NEW r \in Relays
    PROVE  /\ Remaining(r) \subseteq batch[r]
           /\ Current(r) \subseteq batch[r]
           /\ batch[r] \subseteq Events
           /\ Due \subseteq Events
           /\ FirstOf(Due) \subseteq Due
  BY DEF TypeOK, Remaining, Current, Due, FirstOf

(* A relay that rests holds no batch.                                      *)
LEMMA IdleForm ==
    ASSUME NEW r \in Relays, RelayOK(r), at[r] = "idle"
    PROVE  batch[r] = {} /\ failed[r] = {} /\ tried[r] = {}
  BY DEF RelayOK

(* What a step of a relay leaves to the others.                            *)
LEMMA StepIsLocal ==
    ASSUME TypeOK, NEW r \in Relays, Relay(r) \/ Disconnect(r) \/ Stop(r),
           NEW q \in Relays, q # r
    PROVE  /\ at'[q] = at[q] /\ batch'[q] = batch[q] /\ tried'[q] = tried[q]
           /\ failed'[q] = failed[q] /\ call'[q] = call[q]
           /\ lock' = q <=> lock = q
<1> USE DEF TypeOK, Goto
<1>1. ASSUME Fetch(r) PROVE lock' = q <=> lock = q
  BY <1>1, OutboxAssumption DEF Fetch
<1>2. CASE Fetch(r)
  BY <1>1, <1>2 DEF Fetch
<1>3. CASE Register(r)
  BY <1>3 DEF Register
<1>4. CASE HandlerSucceeds(r)
  BY <1>4 DEF HandlerSucceeds
<1>5. CASE Commit(r)
  BY <1>5 DEF Commit, EndCall
<1>6. CASE CallFails(r)
  BY <1>6 DEF CallFails, EndCall
<1>7. CASE TimeOut(r)
  BY <1>7 DEF TimeOut
<1>8. CASE Record(r)
  BY <1>8, OutboxAssumption DEF Record, Unlock, Rest
<1>9. CASE Disconnect(r)
  BY <1>9, OutboxAssumption DEF Disconnect
<1>10. CASE Stop(r)
  BY <1>10, OutboxAssumption DEF Stop, Unlock, Rest
<1> QED
  BY <1>2, <1>3, <1>4, <1>5, <1>6, <1>7, <1>8, <1>9, <1>10 DEF Relay, Dispatch

(* Only the relay with the lock changes rows, and only those of its batch; *)
(* nothing leaves the inbox or what has been handled.                      *)
LEMMA StepGrows ==
    ASSUME IInv, NEW r \in Relays, Relay(r) \/ Disconnect(r) \/ Stop(r)
    PROVE  /\ inbox \subseteq inbox' /\ handled \subseteq handled'
           /\ \A e \in Events : row[e] # "none" => row'[e] # "none"
           /\ lock # r => UNCHANGED rows
<1>1. CASE Record(r)
  BY <1>1 DEF Record, RecordAll, IInv, TypeOK, rows
<1>2. CASE (Relay(r) /\ ~ Record(r)) \/ Disconnect(r) \/ Stop(r)
  BY <1>2 DEF Relay, Dispatch, Fetch, Register, HandlerSucceeds, Commit, CallFails,
              TimeOut, Disconnect, Stop, rows
<1> QED
  BY <1>1, <1>2

(* A step of one relay keeps what another relies on.                       *)
LEMMA OthersKeep ==
    ASSUME IInv, NEW r \in Relays, Relay(r) \/ Disconnect(r) \/ Stop(r),
           NEW q \in Relays, q # r
    PROVE  RelayOK(q)'
<1>1. TypeOK /\ RelayOK(q)
  BY DEF IInv
<1>2. /\ at'[q] = at[q] /\ batch'[q] = batch[q] /\ tried'[q] = tried[q]
      /\ failed'[q] = failed[q] /\ call'[q] = call[q]
      /\ lock' = q <=> lock = q
  BY <1>1, StepIsLocal
<1>3. /\ inbox \subseteq inbox' /\ handled \subseteq handled'
      /\ \A e \in Events : row[e] # "none" => row'[e] # "none"
      /\ lock # r => UNCHANGED rows
  BY StepGrows
<1>4. batch[q] \subseteq Events
  BY <1>1 DEF TypeOK
<1>5. lock = q => row' = row /\ attempts' = attempts
  BY <1>3 DEF rows
<1> QED
  BY <1>1, <1>2, <1>3, <1>4, <1>5 DEF RelayOK

(* A relay that moves keeps its own conditions: a pair is tried when it is *)
(* in the inbox or its event has failed.                                   *)
LEMMA MoverKeeps ==
    ASSUME IInv, NEW r \in Relays, Relay(r) \/ Disconnect(r) \/ Stop(r)
    PROVE  RelayOK(r)'
<1>0. TypeOK /\ RelayOK(r)
  BY DEF IInv
<1> USE <1>0 DEF TypeOK, Goto, RelayOK
<1>1. CASE Fetch(r)
  <2>1. /\ batch'[r] \subseteq Due /\ Due \subseteq Events
        /\ failed'[r] = {} /\ tried'[r] = {} /\ at'[r] = "dispatch"
        /\ row' = row /\ attempts' = attempts
    BY <1>1, RemainingForm, IdleForm DEF Fetch, rows
  <2> QED
    BY <2>1 DEF Due
<1>2. CASE Register(r)
  <2>1. PICK e \in Current(r) : \E c \in Untried(r, e) :
           \/ /\ <<c, e>> \in inbox
              /\ tried' = [tried EXCEPT ![r] = @ \cup {<<c, e>>}]
              /\ UNCHANGED <<at, call>>
           \/ /\ call' = [call EXCEPT ![r] = <<c, e>>]
              /\ at' = [at EXCEPT ![r] = "handle"]
              /\ UNCHANGED tried
    BY <1>2 DEF Register
  <2>2. e \in batch[r]
    BY RemainingForm
  <2>3. UNCHANGED <<row, attempts, inbox, handled, lock, batch, failed>>
    BY <1>2 DEF Register, rows
  <2> QED
    BY <2>1, <2>2, <2>3, <1>2 DEF Register
<1>3. CASE HandlerSucceeds(r)
  BY <1>3 DEF HandlerSucceeds, rows
<1>4. CASE Commit(r)
  BY <1>4 DEF Commit, EndCall, rows
<1>5. CASE CallFails(r)
  BY <1>5 DEF CallFails, EndCall, rows
<1>6. CASE TimeOut(r)
  <2>1. Remaining(r) \subseteq batch[r]
    BY RemainingForm
  <2>2. \A p \in UNION {Subscribers[e] \X {e} : e \in Remaining(r)} : p[2] \in Remaining(r)
    OBVIOUS
  <2> QED
    BY <1>6, <2>1, <2>2 DEF TimeOut, rows
<1>7. CASE Record(r) \/ Stop(r)
  <2>1. /\ at'[r] = "idle" /\ batch'[r] = {} /\ tried'[r] = {} /\ failed'[r] = {}
        /\ lock' # r
    BY <1>7, OutboxAssumption DEF Record, Stop, Rest, Unlock
  <2> QED
    BY <2>1
<1>8. CASE Disconnect(r)
  BY <1>8, OutboxAssumption DEF Disconnect, rows
<1> QED
  BY <1>1, <1>2, <1>3, <1>4, <1>5, <1>6, <1>7, <1>8 DEF Relay, Dispatch

(* Whoever registers a pair finds it neither in the inbox nor with another *)
(* relay, and it gets into the inbox only from its handler.                *)
LEMMA OnceOnlyKept ==
    ASSUME IInv, NEW r \in Relays, Relay(r) \/ Disconnect(r) \/ Stop(r)
    PROVE  OnceOnly'
<1>0. TypeOK /\ OnceOnly /\ RelayOK(r)
  BY DEF IInv
<1> USE <1>0 DEF TypeOK, Goto, OnceOnly
<1>1. CASE Register(r)
  <2>1. PICK e \in Current(r) : \E c \in Untried(r, e) :
           /\ \A q \in Relays : call[q] # <<c, e>>
           /\ \/ UNCHANGED <<at, call>>
              \/ /\ <<c, e>> \notin inbox
                 /\ call' = [call EXCEPT ![r] = <<c, e>>]
                 /\ at' = [at EXCEPT ![r] = "handle"]
    BY <1>1 DEF Register
  <2>2. UNCHANGED <<inbox, handled>>
    BY <1>1 DEF Register
  <2> QED
    BY <2>1, <2>2
<1>2. CASE HandlerSucceeds(r)
  BY <1>2 DEF HandlerSucceeds
<1>3. CASE Commit(r)
  <2>1. call[r] \in handled /\ call[r] \in Pairs /\ NoCall \notin Pairs
    BY <1>3, CallForm, PairForm DEF Commit, RelayOK
  <2> QED
    BY <1>3, <2>1 DEF Commit, EndCall
<1>4. CASE CallFails(r)
  <2>1. NoCall \notin Pairs
    BY PairForm
  <2> QED
    BY <1>4, <2>1 DEF CallFails, EndCall
<1>5. CASE Record(r) \/ Stop(r)
  <2>1. NoCall \notin Pairs
    BY PairForm
  <2> QED
    BY <1>5, <2>1 DEF Record, Stop, Rest
<1>6. CASE Fetch(r) \/ TimeOut(r) \/ Disconnect(r)
  BY <1>6 DEF Fetch, TimeOut, Disconnect
<1> QED
  BY <1>1, <1>2, <1>3, <1>4, <1>5, <1>6 DEF Relay, Dispatch

(* A row is marked as published after every subscriber has registered.     *)
LEMMA RecordPublishes ==
    ASSUME IInv, NEW r \in Relays, Record(r), lock = r
    PROVE  LET S == batch[r] \ (failed[r] \cup Blocked(r)) IN
           /\ \A e \in S : row[e] = "pending" /\ Subscribers[e] \X {e} \subseteq inbox
           /\ row' = [e \in Events |-> IF e \in S THEN "published" ELSE row[e]]
<1> DEFINE S == batch[r] \ (failed[r] \cup Blocked(r))
<1>0. TypeOK /\ RelayOK(r)
  BY DEF IInv
<1>1. ASSUME NEW e \in S
      PROVE  row[e] = "pending" /\ Subscribers[e] \X {e} \subseteq inbox
  <2>1. row[e] = "pending"
    BY <1>0 DEF RelayOK
  <2>2. ASSUME NEW c \in Subscribers[e] PROVE <<c, e>> \in inbox
    <3>1. <<c, e>> \in tried[r]
      BY DEF Record, Remaining, Untried
    <3> QED
      BY <1>0, <3>1 DEF RelayOK
  <2> QED
    BY <2>1, <2>2
<1>2. row' = [e \in Events |-> IF e \in S THEN "published" ELSE row[e]]
  BY DEF Record, RecordAll
<1> QED
  BY <1>1, <1>2

(* Steps that leave row and inbox alone are invisible; a commit of the     *)
(* inbox is a Receive, recording a batch is a Publish.                     *)
LEMMA StepSimulates ==
    ASSUME IInv, NEW r \in Relays, Relay(r) \/ Disconnect(r) \/ Stop(r)
    PROVE  Promise!Next \/ UNCHANGED <<row, inbox>>
<1>0. TypeOK /\ RelayOK(r) /\ OnceOnly /\ PublishedOK
  BY DEF IInv
<1>1. CASE Commit(r)
  <2> DEFINE e == call[r][2]
             c == call[r][1]
  <2>1. /\ e \in Events /\ c \in Subscribers[e] /\ call[r] = <<c, e>>
    BY <1>0, <1>1, CallForm DEF Commit
  <2>2. <<c, e>> \notin inbox
    BY <1>0, <1>1, <2>1 DEF Commit, OnceOnly
  <2>3. row[e] # "none"
    BY <1>0, <1>1 DEF Commit, RelayOK
  <2>4. row[e] # "published"
    BY <1>0, <2>1, <2>2 DEF PublishedOK
  <2>5. row[e] = "pending"
    BY <1>0, <2>1, <2>3, <2>4 DEF TypeOK, RowStatus
  <2>6. inbox' = inbox \cup {<<c, e>>} /\ row' = row
    BY <1>1, <2>1 DEF Commit, rows
  <2>7. Promise!Receive(c, e)
    BY <2>2, <2>5, <2>6 DEF Promise!Receive
  <2> QED
    BY <2>1, <2>7 DEF Promise!Next
<1>2. CASE Record(r) /\ lock = r
  <2> DEFINE S == batch[r] \ (failed[r] \cup Blocked(r))
  <2>1. Promise!Publish(S)
    BY <1>2, RecordPublishes DEF Promise!Publish, Record
  <2>2. S \in SUBSET Events
    BY <1>0 DEF TypeOK
  <2> QED
    BY <2>1, <2>2 DEF Promise!Next
<1>3. CASE Record(r) /\ lock # r
  BY <1>3 DEF Record, rows
<1>4. CASE Fetch(r) \/ Register(r) \/ HandlerSucceeds(r) \/ CallFails(r) \/ TimeOut(r)
             \/ Disconnect(r) \/ Stop(r)
  BY <1>4 DEF Fetch, Register, HandlerSucceeds, CallFails, TimeOut, Disconnect, Stop, rows
<1> QED
  BY <1>1, <1>2, <1>3, <1>4 DEF Relay, Dispatch

(* A step of the promise keeps PublishedOK.                                *)
LEMMA PublishedKept ==
    ASSUME TypeOK, PublishedOK, Promise!Next \/ UNCHANGED <<row, inbox>>
    PROVE  PublishedOK'
<1>1. ASSUME NEW e \in Events, Promise!Write(e) PROVE PublishedOK'
  BY <1>1 DEF PublishedOK, Promise!Write, TypeOK
<1>2. ASSUME NEW e \in Events, NEW c \in Subscribers[e], Promise!Receive(c, e)
      PROVE PublishedOK'
  BY <1>2 DEF PublishedOK, Promise!Receive
<1>3. ASSUME NEW S \in SUBSET Events, Promise!Publish(S) PROVE PublishedOK'
  BY <1>3 DEF PublishedOK, Promise!Publish
<1>4. CASE UNCHANGED <<row, inbox>>
  BY <1>4 DEF PublishedOK
<1> QED
  BY <1>1, <1>2, <1>3, <1>4 DEF Promise!Next

-----------------------------------------------------------------------------
(* Every step of a relay keeps the ranges.                                 *)
LEMMA TypeInvariant ==
    ASSUME IInv, NEW r \in Relays, Relay(r) \/ Disconnect(r) \/ Stop(r)
    PROVE  TypeOK'
<1>0. TypeOK /\ RelayOK(r)
  BY DEF IInv
<1> USE <1>0 DEF TypeOK, Goto
<1>1. CASE Fetch(r)
  <2>1. FirstOf(Due) \in SUBSET Events
    BY RemainingForm
  <2>2. call[r] = NoCall
    BY <1>1 DEF Fetch
  <2> QED
    BY <1>1, <2>1, <2>2 DEF Fetch, rows
<1>2. CASE Register(r)
  <2>1. PICK e \in Current(r) : \E c \in Untried(r, e) :
           \/ /\ tried' = [tried EXCEPT ![r] = @ \cup {<<c, e>>}]
              /\ UNCHANGED <<at, call>>
           \/ /\ call' = [call EXCEPT ![r] = <<c, e>>]
              /\ at' = [at EXCEPT ![r] = "handle"]
              /\ UNCHANGED tried
    BY <1>2 DEF Register
  <2>2. NoCall \notin Pairs /\ \A c \in Untried(r, e) : <<c, e>> \in Pairs
    BY RemainingForm, PairForm DEF Untried
  <2>3. UNCHANGED <<rows, inbox, handled, lock, batch, failed, failures, faults>>
    BY <1>2 DEF Register
  <2> QED
    BY <2>1, <2>2, <2>3 DEF rows
<1>3. CASE HandlerSucceeds(r)
  <2>1. call[r] \in Pairs /\ NoCall \notin Pairs
    BY <1>3, CallForm, PairForm DEF HandlerSucceeds
  <2> QED
    BY <1>3, <2>1 DEF HandlerSucceeds, rows
<1>4. CASE Commit(r)
  <2>1. call[r] \in Pairs
    BY <1>4, CallForm DEF Commit
  <2> QED
    BY <1>4, <2>1 DEF Commit, EndCall, rows
<1>5. CASE CallFails(r)
  <2>1. call[r] \in Pairs /\ call[r][2] \in Events
    BY <1>5, CallForm DEF CallFails
  <2>2. failures' \in 0..MaxFailures
    BY <1>5, OutboxAssumption DEF CallFails, Failure
  <2> QED
    BY <1>5, <2>1, <2>2 DEF CallFails, EndCall, rows
<1>6. CASE TimeOut(r)
  <2>1. /\ Remaining(r) \in SUBSET Events
        /\ UNION {Subscribers[e] \X {e} : e \in Remaining(r)} \in SUBSET Pairs
    BY RemainingForm DEF Pairs
  <2>2. failures' \in 0..MaxFailures
    BY <1>6, OutboxAssumption DEF TimeOut, Failure
  <2> QED
    BY <1>6, <2>1, <2>2 DEF TimeOut, rows
<1>7. CASE Record(r)
  <2>1. row' \in [Events -> RowStatus] /\ attempts' \in [Events -> 0..MaxAttempts]
        /\ waiting' \subseteq Events
    <3>1. CASE lock = r
      <4> DEFINE errs == failed[r] \cup Blocked(r)
      <4>1. /\ attempts' = [e \in Events |-> attempts[e] + (IF e \in errs THEN 1 ELSE 0)]
            /\ waiting' = waiting \cup errs
            /\ row' = [e \in Events |-> IF e \in batch[r] \ errs THEN "published" ELSE row[e]]
        BY <1>7, <3>1 DEF Record, RecordAll
      <4>2. \A e \in errs : e \in Events /\ attempts[e] < MaxAttempts
        BY <3>1 DEF RelayOK, Blocked
      <4> HIDE DEF errs
      <4>3. waiting' \subseteq Events
        BY <4>1, <4>2
      <4>4. row' \in [Events -> RowStatus]
        BY <4>1 DEF RowStatus
      <4>5. ASSUME NEW e \in Events
            PROVE  attempts[e] + (IF e \in errs THEN 1 ELSE 0) \in 0..MaxAttempts
        <5>1. attempts[e] \in 0..MaxAttempts
          OBVIOUS
        <5> QED
          BY <5>1, <4>2, OutboxAssumption
      <4> QED
        BY <4>1, <4>3, <4>4, <4>5
    <3>2. CASE lock # r
      BY <1>7, <3>2 DEF Record, rows
    <3> QED
      BY <3>1, <3>2
  <2> QED
    BY <1>7, <2>1 DEF Record, Unlock, Rest
<1>8. CASE Disconnect(r)
  BY <1>8, OutboxAssumption DEF Disconnect, Fault, rows
<1>9. CASE Stop(r)
  BY <1>9, OutboxAssumption DEF Stop, Fault, Unlock, Rest, rows
<1> QED
  BY <1>1, <1>2, <1>3, <1>4, <1>5, <1>6, <1>7, <1>8, <1>9 DEF Relay, Dispatch

(* Writing an event and the end of a back-off keep the invariant.          *)
LEMMA OthersStep ==
    ASSUME IInv, NEW e \in Events, Write(e) \/ BackOffEnds(e)
    PROVE  IInv' /\ (Promise!Next \/ UNCHANGED <<row, inbox>>)
<1>0. TypeOK /\ OnceOnly /\ PublishedOK /\ \A r \in Relays : RelayOK(r)
  BY DEF IInv
<1>1. TypeOK'
  BY <1>0 DEF TypeOK, RowStatus, Write, BackOffEnds
<1>2. OnceOnly'
  BY <1>0 DEF OnceOnly, Write, BackOffEnds
<1>3. \A r \in Relays : RelayOK(r)'
  <2> TAKE r \in Relays
  <2> QED
    BY <1>0 DEF RelayOK, TypeOK, Write, BackOffEnds
<1>4. Promise!Next \/ UNCHANGED <<row, inbox>>
  <2>1. CASE Write(e)
    BY <2>1 DEF Write, Promise!Next, Promise!Write
  <2>2. CASE BackOffEnds(e)
    BY <2>2 DEF BackOffEnds
  <2> QED
    BY <2>1, <2>2
<1>5. PublishedOK'
  BY <1>0, <1>4, PublishedKept
<1> QED
  BY <1>1, <1>2, <1>3, <1>4, <1>5 DEF IInv

LEMMA Initially == Init => IInv
<1> SUFFICES ASSUME Init PROVE IInv
  OBVIOUS
<1>1. TypeOK
  BY OutboxAssumption DEF Init, TypeOK, RowStatus
<1>2. OnceOnly /\ PublishedOK
  BY DEF Init, OnceOnly, PublishedOK
<1>3. \A r \in Relays : RelayOK(r)
  BY OutboxAssumption DEF Init, RelayOK
<1> QED
  BY <1>1, <1>2, <1>3 DEF IInv

LEMMA Inductive ==
    IInv /\ [Next]_vars => IInv' /\ (Promise!Next \/ UNCHANGED <<row, inbox>>)
<1> SUFFICES ASSUME IInv, [Next]_vars
             PROVE  IInv' /\ (Promise!Next \/ UNCHANGED <<row, inbox>>)
  OBVIOUS
<1>1. ASSUME NEW r \in Relays, Relay(r) \/ Disconnect(r) \/ Stop(r)
      PROVE  IInv' /\ (Promise!Next \/ UNCHANGED <<row, inbox>>)
  <2>1. Promise!Next \/ UNCHANGED <<row, inbox>>
    BY <1>1, StepSimulates
  <2>2. PublishedOK'
    BY <2>1, PublishedKept DEF IInv
  <2>3. \A q \in Relays : RelayOK(q)'
    BY <1>1, OthersKeep, MoverKeeps
  <2> QED
    BY <1>1, <2>1, <2>2, <2>3, OnceOnlyKept, TypeInvariant DEF IInv
<1>2. CASE UNCHANGED vars
  BY <1>2 DEF vars, IInv, TypeOK, OnceOnly, PublishedOK, RelayOK
<1> QED
  BY <1>1, <1>2, OthersStep DEF Next

LEMMA Invariance == Spec => []IInv
  BY Initially, Inductive, PTL DEF Spec

(* Every variable of relay and inbox stays in its range.                   *)
THEOREM TypeCorrect == Spec => []TypeOK
<1>1. IInv => TypeOK
  BY DEF IInv
<1> QED
  BY <1>1, Invariance, PTL

(* inbox.Once: no handler runs for a pair that is registered, or twice at  *)
(* a time, also when a relay that has lost its lock goes on.               *)
THEOREM AlwaysOnceOnly == Spec => []OnceOnly
<1>1. IInv => OnceOnly
  BY DEF IInv
<1> QED
  BY <1>1, Invariance, PTL

(* An event is marked as published only after every subscriber has         *)
(* registered it, and every pair is registered once.                       *)
THEOREM KeepsThePromise == Spec => KeepsDelivery
<1>1. Init => Promise!Init
  BY DEF Init, Promise!Init
<1>2. IInv /\ [Next]_vars => [Promise!Next]_(Promise!vars)
  BY Inductive DEF Promise!vars
<1> QED
  BY <1>1, <1>2, Invariance, PTL DEF Spec, KeepsDelivery, Promise!Spec

-----------------------------------------------------------------------------
(* The order of the events of an aggregate.                                *)

(* Before e, a consumer c has registered d or an attempt at d has failed.  *)
Before(c, d) == c \in Subscribers[d] => <<c, d>> \in inbox \/ attempts[d] > 0

(* A batch misses an earlier event only if that has been published or has  *)
(* failed before; so a relay that calls for an event is done with those    *)
(* before it.                                                              *)
OrderOK(r) ==
    /\ \A e \in batch[r], d \in Events : Earlier(d, e) =>
          d \in batch[r] \/ row[d] = "published" \/ attempts[d] > 0
    /\ at[r] \in {"handle", "commit"} =>
          \A d \in Events : Earlier(d, call[r][2]) => Before(call[r][1], d)

OInv ==
    /\ \A e \in Events, d \in Events : Earlier(d, e) /\ row[e] # "none" => row[d] # "none"
    /\ \A e \in waiting : attempts[e] > 0
    /\ \A r \in Relays : OrderOK(r)
    /\ OrderedUnlessFailed

(* A batch takes the first of the due events.                              *)
LEMMA FirstOfIsInitial ==
    ASSUME NEW S \in SUBSET Events, NEW e \in FirstOf(S), NEW d \in S, d < e
    PROVE  d \in FirstOf(S)
<1>1. e \in Nat /\ d \in Nat /\ S \subseteq Nat
  BY OutboxAssumption DEF FirstOf
<1> DEFINE L == {x \in S : x < e}
           K == {x \in S : x < d}
<1>2. IsFiniteSet(0..e)
  BY <1>1, FS_Interval
<1>3. L \in SUBSET (0..e) /\ K \in SUBSET L
  <2>1. ASSUME NEW x \in L PROVE x \in 0..e
    BY <1>1
  <2>2. ASSUME NEW x \in K PROVE x \in L
    BY <1>1
  <2> QED
    BY <2>1, <2>2
<1>4. IsFiniteSet(L)
  BY <1>2, <1>3, FS_Subset
<1>5. IsFiniteSet(K) /\ Cardinality(K) <= Cardinality(L)
  BY <1>3, <1>4, FS_Subset
<1>6. Cardinality(K) \in Nat /\ Cardinality(L) \in Nat
  BY <1>4, <1>5, FS_CardinalityType
<1>7. Cardinality(L) < BatchSize
  BY DEF FirstOf
<1>8. Cardinality(K) < BatchSize
  BY <1>5, <1>6, <1>7, OutboxAssumption
<1> QED
  BY <1>8 DEF FirstOf

(* A pair that a relay has yet to try comes after what it is done with.    *)
LEMMA CurrentIsNext ==
    ASSUME IInv, OInv, NEW r \in Relays, NEW e \in Current(r), NEW c \in Untried(r, e),
           NEW d \in Events, Earlier(d, e)
    PROVE  Before(c, d)
<1>0. /\ TypeOK /\ RelayOK(r) /\ PublishedOK /\ OrderOK(r)
      /\ e \in Remaining(r) /\ e \in batch[r] /\ e \notin Blocked(r)
  BY DEF IInv, OInv, Current, Remaining
<1> SUFFICES ASSUME c \in Subscribers[d], attempts[d] = 0 PROVE <<c, d>> \in inbox
  BY <1>0 DEF Before, TypeOK
<1>1. d \in batch[r] \/ row[d] = "published"
  BY <1>0 DEF OrderOK, TypeOK
<1>2. CASE row[d] = "published"
  BY <1>0, <1>2 DEF PublishedOK
<1>3. CASE d \in batch[r]
  <2>1. d \notin failed[r]
    BY <1>0 DEF Blocked
  <2>2. d \notin Blocked(r)
    BY <1>0, OutboxAssumption DEF Blocked, Earlier, RelayOK, TypeOK
  <2>3. d \notin Remaining(r)
    BY <1>0, OutboxAssumption DEF Current, Earlier, TypeOK
  <2>4. <<c, d>> \in tried[r]
    BY <1>3, <2>2, <2>3 DEF Remaining, Untried
  <2> QED
    BY <1>0, <2>1, <2>4 DEF RelayOK
<1> QED
  BY <1>1, <1>2, <1>3

(* Publishing, registering and failing are for ever.                       *)
LEMMA StepProgresses ==
    ASSUME IInv, Next, NEW d \in Events
    PROVE  /\ inbox \subseteq inbox'
           /\ row[d] # "none" => row'[d] # "none"
           /\ row[d] = "published" => row'[d] = "published"
           /\ attempts[d] > 0 => attempts'[d] > 0
           /\ \A c : Before(c, d) => Before(c, d)'
<1>0. TypeOK
  BY DEF IInv
<1> DEFINE Progress == /\ inbox \subseteq inbox'
                       /\ row[d] # "none" => row'[d] # "none"
                       /\ row[d] = "published" => row'[d] = "published"
                       /\ attempts[d] > 0 => attempts'[d] > 0
<1>1. Progress
  <2>1. ASSUME NEW e \in Events, Write(e) \/ BackOffEnds(e) PROVE Progress
    BY <1>0, <2>1 DEF Write, BackOffEnds, TypeOK
  <2>2. ASSUME NEW r \in Relays, Record(r), lock = r PROVE Progress
    <3> DEFINE errs == failed[r] \cup Blocked(r)
    <3>1. /\ attempts' = [e \in Events |-> attempts[e] + (IF e \in errs THEN 1 ELSE 0)]
          /\ row' = [e \in Events |-> IF e \in batch[r] \ errs THEN "published" ELSE row[e]]
          /\ inbox' = inbox
      BY <2>2 DEF Record, RecordAll
    <3> HIDE DEF errs
    <3>2. attempts[d] \in Nat
      BY <1>0, OutboxAssumption DEF TypeOK
    <3> QED
      BY <3>1, <3>2
  <2>3. ASSUME NEW r \in Relays, Relay(r) \/ Disconnect(r) \/ Stop(r),
               ~ (Record(r) /\ lock = r)
        PROVE  Progress
    BY <2>3 DEF Relay, Dispatch, Fetch, Register, HandlerSucceeds, Commit, CallFails,
                TimeOut, Record, Disconnect, Stop, rows
  <2> QED
    BY <2>1, <2>2, <2>3 DEF Next
<1> QED
  BY <1>1 DEF Before

(* Another relay's step keeps the order a relay relies on.                 *)
LEMMA OrderOthers ==
    ASSUME IInv, OInv, NEW r \in Relays, Relay(r) \/ Disconnect(r) \/ Stop(r),
           NEW q \in Relays, q # r
    PROVE  OrderOK(q)'
<1>1. /\ at'[q] = at[q] /\ batch'[q] = batch[q] /\ call'[q] = call[q]
  BY StepIsLocal DEF IInv
<1>2. Next
  BY DEF Next
<1>3. OrderOK(q)
  BY DEF OInv
<1> QED
  BY <1>1, <1>2, <1>3, StepProgresses DEF OrderOK, Earlier

LEMMA OrderMover ==
    ASSUME IInv, OInv, NEW r \in Relays, Relay(r) \/ Disconnect(r) \/ Stop(r)
    PROVE  OrderOK(r)'
<1>0. TypeOK /\ OrderOK(r) /\ Next
  BY DEF IInv, OInv, Next
<1>1. CASE Fetch(r)
  <2>1. /\ at'[r] = "dispatch" /\ batch'[r] = FirstOf(Due)
        /\ row' = row /\ attempts' = attempts
    BY <1>0, <1>1 DEF Fetch, TypeOK, Goto, rows
  <2>2. ASSUME NEW e \in FirstOf(Due), NEW d \in Events, Earlier(d, e)
        PROVE  d \in FirstOf(Due) \/ row[d] = "published" \/ attempts[d] > 0
    <3>1. e \in Events /\ row[e] = "pending" /\ Due \in SUBSET Events
      BY DEF FirstOf, Due
    <3>2. row[d] # "none"
      BY <2>2, <3>1 DEF OInv
    <3>3. SUFFICES ASSUME row[d] = "pending", attempts[d] = 0 PROVE d \in FirstOf(Due)
      BY <1>0, <3>2, OutboxAssumption DEF TypeOK, RowStatus
    <3>4. d \in Due
      BY <3>3, OutboxAssumption DEF Due, OInv
    <3> QED
      BY <2>2, <3>1, <3>4, FirstOfIsInitial DEF Earlier
  <2> QED
    BY <2>1, <2>2 DEF OrderOK, Earlier
<1>2. CASE Register(r)
  <2>1. PICK e \in Current(r) : \E c \in Untried(r, e) :
           \/ UNCHANGED <<at, call>>
           \/ /\ call' = [call EXCEPT ![r] = <<c, e>>]
              /\ at' = [at EXCEPT ![r] = "handle"]
    BY <1>2 DEF Register, Goto
  <2>2. PICK c \in Untried(r, e) :
           \/ UNCHANGED <<at, call>>
           \/ /\ call' = [call EXCEPT ![r] = <<c, e>>]
              /\ at' = [at EXCEPT ![r] = "handle"]
    BY <2>1
  <2>3. UNCHANGED <<row, attempts, inbox, batch>>
    BY <1>2 DEF Register, rows
  <2>4. \A d \in Events : Earlier(d, e) => Before(c, d)
    BY CurrentIsNext
  <2>5. \A d \in Events : Earlier(d, e) => Before(c, d)'
    BY <2>3, <2>4 DEF Before
  <2>6. CASE UNCHANGED <<at, call>>
    BY <1>0, <2>3, <2>6 DEF OrderOK, Before, Earlier
  <2>7. CASE call' = [call EXCEPT ![r] = <<c, e>>]
    <3>1. call'[r][1] = c /\ call'[r][2] = e
      BY <1>0, <2>7 DEF TypeOK
    <3> QED
      BY <1>0, <2>3, <2>5, <3>1 DEF OrderOK, Earlier
  <2> QED
    BY <2>2, <2>6, <2>7
<1>3. CASE HandlerSucceeds(r)
  BY <1>0, <1>3 DEF HandlerSucceeds, OrderOK, Earlier, Before, rows
<1>4. CASE Commit(r) \/ CallFails(r) \/ TimeOut(r) \/ Disconnect(r)
  <2>1. CASE Commit(r) \/ CallFails(r)
    <3>1. at'[r] = "dispatch" /\ batch' = batch
      BY <1>0, <2>1 DEF Commit, CallFails, EndCall, Goto, TypeOK
    <3> QED
      BY <1>0, <3>1, StepProgresses DEF OrderOK, Earlier
  <2>2. CASE TimeOut(r) \/ Disconnect(r)
    <3>1. at' = at /\ batch' = batch /\ call' = call
      BY <2>2 DEF TimeOut, Disconnect
    <3> QED
      BY <1>0, <3>1, StepProgresses DEF OrderOK, Earlier
  <2> QED
    BY <1>4, <2>1, <2>2
<1>5. CASE Record(r) \/ Stop(r)
  <2>1. at'[r] = "idle" /\ batch'[r] = {}
    BY <1>0, <1>5 DEF Record, Stop, Rest, Goto, TypeOK
  <2> QED
    BY <2>1 DEF OrderOK
<1> QED
  BY <1>1, <1>2, <1>3, <1>4, <1>5 DEF Relay, Dispatch

(* Only a commit adds to the inbox.                                        *)
LEMMA OrderedKept ==
    ASSUME IInv, OInv, Next
    PROVE  OrderedUnlessFailed'
<1>1. ASSUME NEW p \in inbox', NEW d \in Events, Earlier(d, p[2]), p[1] \in Subscribers[d]
      PROVE  Before(p[1], d)'
  <2>1. CASE p \in inbox
    <3>1. Before(p[1], d)
      BY <1>1, <2>1 DEF OInv, OrderedUnlessFailed, Before
    <3> QED
      BY <3>1, StepProgresses
  <2>2. CASE p \notin inbox
    <3>1. PICK r \in Relays : Commit(r)
      BY <2>2, <1>1 DEF Next, Write, BackOffEnds, Relay, Dispatch, Fetch, Register,
            HandlerSucceeds, CallFails, TimeOut, Record, Disconnect, Stop
    <3>2. p = call[r]
      BY <1>1, <2>2, <3>1 DEF Commit
    <3>3. Before(p[1], d)
      BY <1>1, <3>1, <3>2 DEF OInv, OrderOK, Commit
    <3> QED
      BY <3>3, StepProgresses
  <2> QED
    BY <2>1, <2>2
<1> QED
  BY <1>1 DEF OrderedUnlessFailed, Before, Earlier

LEMMA OrderInductive == IInv /\ OInv /\ [Next]_vars => OInv'
<1> SUFFICES ASSUME IInv, OInv, [Next]_vars PROVE OInv'
  OBVIOUS
<1>0. TypeOK
  BY DEF IInv
<1>1. CASE UNCHANGED vars
  BY <1>1 DEF vars, OInv, OrderOK, OrderedUnlessFailed, Before, Earlier
<1>2. CASE Next
  <2>1. \A e \in Events, d \in Events : Earlier(d, e) /\ row'[e] # "none" => row'[d] # "none"
    <3> TAKE e \in Events, d \in Events
    <3> HAVE Earlier(d, e) /\ row'[e] # "none"
    <3>1. row[d] # "none" => row'[d] # "none"
      BY <1>2, StepProgresses
    <3>2. CASE row[e] # "none"
      BY <3>1, <3>2 DEF OInv
    <3>3. CASE row[e] = "none"
      <4>1. ASSUME NEW r \in Relays, Relay(r) \/ Disconnect(r) \/ Stop(r)
            PROVE  row'[e] = "none"
        <5>1. CASE Record(r) /\ lock = r
          <6>1. e \notin batch[r]
            BY <3>3 DEF IInv, RelayOK
          <6> QED
            BY <5>1, <6>1, <3>3, RecordPublishes
        <5>2. CASE ~ (Record(r) /\ lock = r)
          BY <3>3, <4>1, <5>2 DEF Relay, Dispatch, Fetch, Register, HandlerSucceeds, Commit,
                CallFails, TimeOut, Record, Disconnect, Stop, rows
        <5> QED
          BY <5>1, <5>2
      <4>2. PICK f \in Events : Write(f) \/ BackOffEnds(f)
        BY <1>2, <4>1 DEF Next
      <4>3. Write(f) /\ f = e
        BY <1>0, <3>3, <4>2 DEF Write, BackOffEnds, TypeOK
      <4> QED
        BY <3>1, <4>3 DEF Write
    <3> QED
      BY <3>2, <3>3
  <2>2. \A e \in waiting' : attempts'[e] > 0
    <3> TAKE e \in waiting'
    <3>0. waiting \subseteq Events
      BY <1>0 DEF TypeOK
    <3>1. CASE e \in waiting
      BY <3>0, <3>1, <1>2, StepProgresses DEF OInv
    <3>2. CASE e \notin waiting
      <4>1. PICK r \in Relays : Record(r) /\ lock = r
        BY <3>2, <1>2 DEF Next, Write, BackOffEnds, Relay, Dispatch, Fetch, Register, Commit,
              HandlerSucceeds, CallFails, TimeOut, Record, Disconnect, Stop, rows
      <4> DEFINE errs == failed[r] \cup Blocked(r)
      <4>2. /\ attempts' = [f \in Events |-> attempts[f] + (IF f \in errs THEN 1 ELSE 0)]
            /\ waiting' = waiting \cup errs
        BY <4>1 DEF Record, RecordAll
      <4>3. e \in errs
        BY <3>2, <4>2
      <4>4. e \in Events /\ attempts[e] \in Nat
        BY <1>0, <4>3, OutboxAssumption DEF TypeOK, Blocked
      <4> HIDE DEF errs
      <4> QED
        BY <4>2, <4>3, <4>4
    <3> QED
      BY <3>1, <3>2
  <2>3. \A r \in Relays : OrderOK(r)'
    <3>1. ASSUME NEW e \in Events, Write(e) \/ BackOffEnds(e), NEW r \in Relays
          PROVE  OrderOK(r)'
      <4>1. at' = at /\ batch' = batch /\ call' = call
        BY <3>1 DEF Write, BackOffEnds
      <4>2. OrderOK(r)
        BY DEF OInv
      <4> QED
        BY <1>2, <4>1, <4>2, StepProgresses DEF OrderOK, Earlier
    <3> QED
      BY <1>2, <3>1, OrderOthers, OrderMover DEF Next
  <2> QED
    BY <1>2, <2>1, <2>2, <2>3, OrderedKept DEF OInv
<1> QED
  BY <1>1, <1>2

(* Dispatcher.Publish blocks an aggregate within a batch, and the relay    *)
(* takes the batch in the order of the ids: as long as no attempt at an    *)
(* event fails, nobody receives a later one of its aggregate before it.    *)
THEOREM OrderHolds == Spec => []OrderedUnlessFailed
<1>1. Init => OInv
  BY DEF Init, OInv, OrderOK, OrderedUnlessFailed
<1>2. OInv => OrderedUnlessFailed
  BY DEF OInv
<1> QED
  BY <1>1, <1>2, Invariance, OrderInductive, PTL DEF Spec
=============================================================================
