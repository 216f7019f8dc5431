---------------------------- MODULE PaymentProofs ----------------------------
(***************************************************************************)
(* Proofs that the payment context keeps its ledger in step with the       *)
(* provider, for any number of payments, refund ids, callers, delivery     *)
(* attempts and faults.                                                    *)
(***************************************************************************)
EXTENDS Payment, TLAPS

(* A caller that runs a command knows its payment and its refund.          *)
CallOK(c) ==
    /\ cmd[c].op # "none" => cmd[c].pay \in Payments
    /\ cmd[c].op = "refund" => cmd[c].ref \in RefundIds
    /\ cmd[c].op = "none" <=> pc[c] = "idle"

(* A webhook handler of the payment is at work, or a delivery given up.    *)
Handled(p) == \E n \in 1..Attempts, s \in {"process", "void"} : <<p, n, s>> \in handling

(* What a payment's row, its intent and the handing out of its URL say of  *)
(* one another, between any two steps of any command.                      *)
PayOK(p) ==
    /\ p \notin exposed => intent[p] \in {"none", "requires_confirmation", "cancelled"}
    /\ pay[p] \in {"absent", "created"} => p \notin exposed
    /\ pay[p] = "pending" \/ p \in exposed => intent[p] # "none"
    /\ intent[p] \in {"captured", "refunded"} => pay[p] \in {"authorized", "captured", "refunded"}
    /\ pay[p] = "captured" => intent[p] \in {"captured", "refunded"}
    /\ pay[p] = "refunded" => intent[p] = "refunded"
    /\ pay[p] \in {"cancelled", "failed"} /\ p \in exposed => intent[p] \in {"cancelled", "failed"}
    /\ pay[p] \in {"authorized", "captured", "refunded"} => p \in outbox
    /\ p \notin exposed => left[p] = 0 /\ ~Handled(p) /\ p \notin outbox

(* One creation of a payment is in flight at a time.                       *)
OneCreator ==
    \A c, d \in Callers :
       /\ cmd[c].op = "create" /\ pc[c] \in Labels
       /\ cmd[d].op = "create" /\ pc[d] \in Labels
       /\ cmd[c].pay = cmd[d].pay
       => c = d

(* What a command in flight may rely on at each of its labels.             *)
StepOK(c) ==
    LET p == cmd[c].pay IN
    /\ cmd[c].op = "create" /\ pc[c] \in {"intent", "attach", "fail"}
          => pay[p] \in {"created", "cancelled"}
    /\ At(c, "create", "attach") => intent[p] # "none"
    /\ cmd[c].op = "capture" /\ pc[c] \in {"lookup", "provider", "commit"}
          => pay[p] \in {"authorized", "captured", "refunded", "cancelled"}
    /\ At(c, "capture", "commit") => intent[p] \in {"captured", "refunded"}
    /\ At(c, "cancel", "commit")
          => \/ pay[p] \in {"captured", "refunded"}
             \/ p \notin exposed
             \/ intent[p] \in {"cancelled", "failed"}
    /\ At(c, "cancel", "ok") => pay[p] \in {"cancelled", "failed"}
    /\ At(c, "capture", "ok") => pay[p] \in {"captured", "refunded"}
    /\ At(c, "refund", "settled") => intent[p] = "refunded" /\ returned[p] = cmd[c].ref
    /\ cmd[c].op = "refund" /\ pc[c] \in {"provider", "settled", "unsettled"}
          => refund[p][cmd[c].ref] # "none"
    /\ At(c, "refund", "ok") => refund[p][cmd[c].ref] \in {"succeeded", "failed"}

(* What the refund rows of a payment say of each other and the provider.   *)
RefundOK(p) ==
    /\ returned[p] # None => intent[p] = "refunded"
    /\ \A r \in RefundIds : refund[p][r] = "succeeded" => returned[p] = r
    /\ \A r \in RefundIds : refund[p][r] # "none" => pay[p] \in {"captured", "refunded"}
    /\ \A r, q \in Outstanding(p) : r = q

IInv ==
    /\ TypeOK
    /\ \A c \in Callers : CallOK(c)
    /\ \A p \in Payments : PayOK(p)
    /\ \A p \in Payments : RefundOK(p)
    /\ OneCreator
    /\ \A c \in Callers : StepOK(c)

(* What no step takes back: an opened intent, money taken, an intent that  *)
(* ended, a paid refund, and the progress of the row.                      *)
Stable(p) ==
    /\ intent[p] # "none" => intent'[p] # "none"
    /\ intent[p] \in {"captured", "refunded"} => intent'[p] \in {"captured", "refunded"}
    /\ intent[p] \in {"cancelled", "failed"} => intent'[p] = intent[p]
    /\ intent[p] = "refunded" => intent'[p] = "refunded" /\ returned'[p] = returned[p]
    /\ pay[p] \in {"authorized", "captured", "refunded", "cancelled"}
          => pay'[p] \in {"authorized", "captured", "refunded", "cancelled"}
    /\ pay[p] \in {"captured", "refunded"} => pay'[p] \in {"captured", "refunded"}
    /\ pay[p] \in {"cancelled", "failed"} => pay'[p] = pay[p]
    /\ p \in outbox => p \in outbox'
    /\ \A r \in RefundIds :
          /\ refund[p][r] # "none" => refund'[p][r] # "none"
          /\ refund[p][r] \in {"succeeded", "failed"} => refund'[p][r] = refund[p][r]

-----------------------------------------------------------------------------
(* A step of a command moves its caller to another label, on the payment   *)
(* and the refund the command was started with.                            *)
LEMMA StepMoves ==
    ASSUME TypeOK, NEW c \in Callers, CallOK(c), Step(c)
    PROVE  /\ cmd[c].op # "none" /\ cmd[c].pay \in Payments
           /\ cmd[c].op = "refund" => cmd[c].ref \in RefundIds
           /\ UNCHANGED <<cmd, exposed, deliveries, outbox>>
           /\ pc[c] \in Labels
           /\ \E l \in Labels \cup Results : Goto(c, l)
<1> USE DEF At, CallOK, Labels, Results
<1>1. CASE Initiate(c)
  BY <1>1 DEF Initiate
<1>2. CASE CreateIntent(c)
  BY <1>2 DEF CreateIntent
<1>3. CASE FailPayment(c)
  BY <1>3 DEF FailPayment
<1>4. CASE AttachIntent(c)
  BY <1>4 DEF AttachIntent, Refusal, IsTerminal
<1>5. CASE LoadForCapture(c)
  BY <1>5 DEF LoadForCapture
<1>6. CASE CaptureLookup(c)
  BY <1>6 DEF CaptureLookup
<1>7. CASE ProviderCapture(c)
  BY <1>7 DEF ProviderCapture
<1>8. CASE CommitCapture(c)
  BY <1>8 DEF CommitCapture, Refusal, IsTerminal
<1>9. CASE LoadForCancel(c)
  BY <1>9 DEF LoadForCancel
<1>10. CASE ProviderCancel(c)
  BY <1>10 DEF ProviderCancel
<1>11. CASE CommitCancel(c)
  BY <1>11 DEF CommitCancel, Refusal, IsTerminal
<1>12. CASE LoadForRefund(c)
  BY <1>12 DEF LoadForRefund
<1>13. CASE RequestRefund(c)
  BY <1>13 DEF RequestRefund
<1>14. CASE ProviderRefund(c)
  BY <1>14 DEF ProviderRefund
<1>15. CASE SettleRefund(c)
  BY <1>15 DEF SettleRefund
<1> QED
  BY <1>1, <1>2, <1>3, <1>4, <1>5, <1>6, <1>7, <1>8, <1>9, <1>10, <1>11, <1>12, <1>13,
     <1>14, <1>15
     DEF Step, Create, Capture, Cancel, Refund

(* Starting a command: a fresh operand record and a first label.           *)
LEMMA RequestStarts ==
    ASSUME NEW c \in Callers, NEW p \in Payments, Request(c, p)
    PROVE  /\ pc[c] = "idle"
           /\ UNCHANGED <<pay, refund, outbox, intent, returned, exposed, deliveries, faults>>
           /\ \E op \in {"create", "capture", "cancel", "refund"} :
              \E r \in RefundIds \cup {None} : \E l \in {"initiate", "load"} :
                 /\ cmd' = [cmd EXCEPT ![c] = [op |-> op, pay |-> p, ref |-> r]]
                 /\ pc' = [pc EXCEPT ![c] = l]
                 /\ op = "refund" => r \in RefundIds
                 /\ op = "create" => ~InFlight("create", p) /\ l = "initiate"
  BY DEF Request, Start, StartCreate, StartCapture, StartCancel, StartRefund

(* Writing one refund row keeps the type of the refunds.                   *)
LEMMA RefundWrite ==
    ASSUME NEW f \in [Payments -> [RefundIds -> RefundStatus]],
           NEW p \in Payments, NEW r \in RefundIds, NEW s \in RefundStatus
    PROVE  [f EXCEPT ![p][r] = s] \in [Payments -> [RefundIds -> RefundStatus]]
<1>1. [f[p] EXCEPT ![r] = s] \in [RefundIds -> RefundStatus]
  OBVIOUS
<1> QED
  BY <1>1

(* A 2xx answer leaves the deliveries and the faults in range.             *)
LEMMA AcceptTyped ==
    ASSUME TypeOK, NEW p \in Payments, NEW n \in 1..Attempts, Accept(p, n)
    PROVE  left' \in [Payments -> 0..Attempts] /\ faults' \in 0..MaxFaults
<1> USE PaymentAssumption
<1>1. n - 1 \in 0..Attempts /\ 0 \in 0..Attempts
  OBVIOUS
<1>2. \/ left' = left /\ faults' = faults
      \/ left' = [left EXCEPT ![p] = 0] /\ faults' = faults
      \/ left' = [left EXCEPT ![p] = n - 1] /\ Fault
  BY DEF Accept
<1>3. Fault => faults' \in 0..MaxFaults
  BY DEF Fault, TypeOK
<1> QED
  BY <1>1, <1>2, <1>3 DEF TypeOK

(* Types and operands: every step keeps each variable in its range.        *)
LEMMA TypeInvariant ==
    ASSUME TypeOK, \A c \in Callers : CallOK(c), [Next]_vars
    PROVE  TypeOK' /\ \A c \in Callers : CallOK(c)'
<1> USE PaymentAssumption
<1>1. ASSUME NEW c \in Callers, Step(c)
      PROVE  TypeOK' /\ \A d \in Callers : CallOK(d)'
  <2>1. /\ cmd[c].op # "none" /\ cmd[c].pay \in Payments
        /\ cmd[c].op = "refund" => cmd[c].ref \in RefundIds
        /\ UNCHANGED <<cmd, exposed, deliveries, outbox>>
        /\ \E l \in Labels \cup Results : Goto(c, l)
    BY <1>1, StepMoves
  <2>2. pc' \in [Callers -> Labels \cup Results \cup {"idle"}]
    BY <2>1 DEF TypeOK, Goto
  <2>3. \A d \in Callers : CallOK(d)'
    BY <2>1 DEF TypeOK, CallOK, Goto, Labels, Results
  <2>4. /\ pay' \in [Payments -> Status]
        /\ refund' \in [Payments -> [RefundIds -> RefundStatus]]
        /\ intent' \in [Payments -> IntentStatus]
        /\ returned' \in [Payments -> RefundIds \cup {None}]
        /\ faults' \in 0..MaxFaults
    <3>1. CASE Initiate(c)
      BY <3>1, <2>1 DEF Initiate, TypeOK, Status
    <3>2. CASE CreateIntent(c)
      BY <3>2, <2>1 DEF CreateIntent, TypeOK, IntentStatus, OpenIntent, Fault
    <3>3. CASE FailPayment(c)
      BY <3>3, <2>1 DEF FailPayment, TypeOK, Status
    <3>4. CASE AttachIntent(c)
      BY <3>4, <2>1 DEF AttachIntent, TypeOK, Status
    <3>5. CASE LoadForCapture(c)
      BY <3>5, <2>1 DEF LoadForCapture, TypeOK
    <3>6. CASE CaptureLookup(c)
      BY <3>6, <2>1 DEF CaptureLookup, TypeOK, Fault
    <3>7. CASE ProviderCapture(c)
      BY <3>7, <2>1 DEF ProviderCapture, TypeOK, IntentStatus, Fault
    <3>8. CASE CommitCapture(c)
      BY <3>8, <2>1 DEF CommitCapture, TypeOK, Status
    <3>9. CASE LoadForCancel(c)
      BY <3>9, <2>1 DEF LoadForCancel, TypeOK
    <3>10. CASE ProviderCancel(c)
      BY <3>10, <2>1 DEF ProviderCancel, TypeOK, IntentStatus, Fault, Voided
    <3>11. CASE CommitCancel(c)
      BY <3>11, <2>1 DEF CommitCancel, TypeOK, Status
    <3>12. CASE LoadForRefund(c)
      BY <3>12, <2>1 DEF LoadForRefund, TypeOK
    <3>13. CASE RequestRefund(c)
      <4>1. cmd[c].ref \in RefundIds
        BY <3>13, <2>1 DEF RequestRefund, At
      <4>2. refund' \in [Payments -> [RefundIds -> RefundStatus]]
        <5>1. \/ refund' = refund
              \/ \E s \in RefundStatus : refund' = [refund EXCEPT ![cmd[c].pay][cmd[c].ref] = s]
          BY <3>13 DEF RequestRefund, RefundStatus
        <5>2. refund \in [Payments -> [RefundIds -> RefundStatus]]
          BY DEF TypeOK
        <5>3. \A s \in RefundStatus : [refund EXCEPT ![cmd[c].pay][cmd[c].ref] = s]
                                         \in [Payments -> [RefundIds -> RefundStatus]]
          BY <5>2, <2>1, <4>1, RefundWrite
        <5> QED
          BY <5>1, <5>2, <5>3
      <4>3. UNCHANGED <<pay, intent, returned, faults>>
        BY <3>13, <2>1, <4>1 DEF RequestRefund, TypeOK
      <4> QED
        BY <4>1, <4>2, <4>3 DEF TypeOK
    <3>14. CASE ProviderRefund(c)
      <4>1. cmd[c].ref \in RefundIds
        BY <3>14, <2>1 DEF ProviderRefund, At
      <4>2. intent' \in [Payments -> IntentStatus]
        BY <3>14, <2>1, <4>1 DEF ProviderRefund, TypeOK, IntentStatus
      <4>3. returned' \in [Payments -> RefundIds \cup {None}]
        BY <3>14, <2>1, <4>1 DEF ProviderRefund, TypeOK
      <4>4. faults' \in 0..MaxFaults
        BY <3>14, <2>1, <4>1 DEF ProviderRefund, TypeOK, Fault
      <4>5. UNCHANGED <<pay, refund>>
        BY <3>14, <2>1, <4>1 DEF ProviderRefund, TypeOK
      <4> QED
        BY <4>1, <4>2, <4>3, <4>4, <4>5 DEF TypeOK
    <3>15. CASE SettleRefund(c)
      <4>1. cmd[c].ref \in RefundIds
        BY <3>15, <2>1 DEF SettleRefund, At
      <4>2. refund' \in [Payments -> [RefundIds -> RefundStatus]]
        <5>1. \/ refund' = refund
              \/ \E s \in RefundStatus : refund' = [refund EXCEPT ![cmd[c].pay][cmd[c].ref] = s]
          BY <3>15 DEF SettleRefund, RefundStatus
        <5>2. refund \in [Payments -> [RefundIds -> RefundStatus]]
          BY DEF TypeOK
        <5>3. \A s \in RefundStatus : [refund EXCEPT ![cmd[c].pay][cmd[c].ref] = s]
                                         \in [Payments -> [RefundIds -> RefundStatus]]
          BY <5>2, <2>1, <4>1, RefundWrite
        <5> QED
          BY <5>1, <5>2, <5>3
      <4>3. pay' \in [Payments -> Status]
        BY <3>15, <2>1, <4>1 DEF SettleRefund, TypeOK, Status
      <4>4. UNCHANGED <<intent, returned, faults>>
        BY <3>15, <2>1, <4>1 DEF SettleRefund, TypeOK
      <4> QED
        BY <4>1, <4>2, <4>3, <4>4 DEF TypeOK
    <3> QED
      BY <1>1, <3>1, <3>2, <3>3, <3>4, <3>5, <3>6, <3>7, <3>8, <3>9, <3>10, <3>11, <3>12,
         <3>13, <3>14, <3>15
         DEF Step, Create, Capture, Cancel, Refund
  <2> QED
    BY <2>1, <2>2, <2>3, <2>4 DEF TypeOK, deliveries
<1>2. ASSUME NEW c \in Callers, Return(c) \/ Crash(c)
      PROVE  TypeOK' /\ \A d \in Callers : CallOK(d)'
  <2>1. /\ cmd' = [cmd EXCEPT ![c] = NoCommand]
        /\ pc' = [pc EXCEPT ![c] = "idle"]
        /\ UNCHANGED <<pay, refund, outbox, intent, returned, exposed, deliveries>>
        /\ faults' \in 0..MaxFaults
    BY <1>2 DEF Return, Crash, Forget, Fault, TypeOK
  <2>2. cmd' \in [Callers -> Command]
    BY <2>1 DEF TypeOK, NoCommand, Command
  <2>3. pc' \in [Callers -> Labels \cup Results \cup {"idle"}]
    BY <2>1 DEF TypeOK
  <2>4. \A d \in Callers : CallOK(d)'
    BY <2>1 DEF TypeOK, CallOK, NoCommand
  <2> QED
    BY <2>1, <2>2, <2>3, <2>4 DEF TypeOK, deliveries
<1>3. ASSUME NEW c \in Callers, NEW p \in Payments, Request(c, p)
      PROVE  TypeOK' /\ \A d \in Callers : CallOK(d)'
  <2>1. PICK op \in {"create", "capture", "cancel", "refund"},
             r \in RefundIds \cup {None}, l \in {"initiate", "load"} :
          /\ cmd' = [cmd EXCEPT ![c] = [op |-> op, pay |-> p, ref |-> r]]
          /\ pc' = [pc EXCEPT ![c] = l]
          /\ op = "refund" => r \in RefundIds
    BY <1>3, RequestStarts
  <2>2. UNCHANGED <<pay, refund, outbox, intent, returned, exposed, deliveries, faults>>
    BY <1>3, RequestStarts
  <2>3. cmd' \in [Callers -> Command]
    BY <2>1 DEF TypeOK, Command
  <2>4. pc' \in [Callers -> Labels \cup Results \cup {"idle"}]
    BY <2>1 DEF TypeOK, Labels
  <2>5. \A d \in Callers : CallOK(d)'
    BY <2>1 DEF TypeOK, CallOK
  <2> QED
    BY <2>2, <2>3, <2>4, <2>5 DEF TypeOK, deliveries
<1>4. ASSUME NEW p \in Payments, Expose(p)
      PROVE  TypeOK' /\ \A d \in Callers : CallOK(d)'
  BY <1>4 DEF Expose, TypeOK, CallOK, deliveries
<1>5. ASSUME NEW p \in Payments, Provider(p)
      PROVE  TypeOK' /\ \A d \in Callers : CallOK(d)'
  <2> DEFINE Handlers == Payments \X (1..Attempts) \X {"process", "void"}
             InRange ==
                /\ pay' \in [Payments -> Status] /\ outbox' \subseteq Payments
                /\ intent' \in [Payments -> IntentStatus] /\ faults' \in 0..MaxFaults
                /\ left' \in [Payments -> 0..Attempts]
                /\ recorded' \subseteq Payments /\ gone' \subseteq Payments
                /\ handling' \subseteq Handlers
                /\ UNCHANGED <<refund, cmd, pc, returned, exposed>>
  <2>1. InRange
    <3> USE DEF TypeOK
    <3>1. CASE Approve(p) \/ Decline(p)
      <4>1. left' \in [Payments -> 0..Attempts]
        BY <3>1 DEF Approve, Decline, Confirm
      <4>2. intent' \in [Payments -> IntentStatus]
        BY <3>1 DEF Approve, Decline, Confirm, IntentStatus
      <4> QED
        BY <3>1, <4>1, <4>2 DEF Approve, Decline, Confirm
    <3>2. CASE LoseWebhook(p) \/ BuyerLeaves(p)
      <4>1. left' \in [Payments -> 0..Attempts]
        BY <3>2 DEF LoseWebhook, BuyerLeaves
      <4>2. handling' \subseteq Handlers
        BY <3>2 DEF LoseWebhook, BuyerLeaves, Abandon, Delivering
      <4> QED
        BY <3>2, <4>1, <4>2 DEF LoseWebhook, BuyerLeaves, Fault
    <3>3. ASSUME NEW n \in 1..Attempts, WebhookAuthorized(p, n)
          PROVE  InRange
      <4>0. UNCHANGED <<left, faults>> \/ Accept(p, n)
        BY <3>3 DEF WebhookAuthorized, Acknowledge
      <4>1. left' \in [Payments -> 0..Attempts] /\ faults' \in 0..MaxFaults
        BY <4>0, AcceptTyped
      <4>2. handling' \subseteq Handlers
        BY <3>3 DEF WebhookAuthorized, Acknowledge
      <4> QED
        BY <3>3, <4>1, <4>2 DEF WebhookAuthorized, Acknowledge, Status
    <3>4. ASSUME NEW n \in 1..Attempts, WebhookFailed(p, n)
          PROVE  InRange
      <4>1. pay' \in [Payments -> Status]
        BY <3>4 DEF WebhookFailed, Status
      <4>2. left' \in [Payments -> 0..Attempts] /\ faults' \in 0..MaxFaults
        BY <3>4, AcceptTyped DEF WebhookFailed, Acknowledge
      <4> QED
        BY <3>4, <4>1, <4>2 DEF WebhookFailed, Acknowledge
    <3>5. ASSUME NEW n \in 1..Attempts, LateVoid(p, n)
          PROVE  InRange
      <4>1. intent' \in [Payments -> IntentStatus]
        BY <3>5 DEF LateVoid, Voided, IntentStatus
      <4>2. left' \in [Payments -> 0..Attempts] /\ faults' \in 0..MaxFaults
        <5>1. CASE Accept(p, n)
          BY <5>1, AcceptTyped
        <5>2. CASE Refuse(p, n) /\ (UNCHANGED faults \/ Fault)
          BY <5>2 DEF Refuse, Fault
        <5> QED
          BY <3>5, <5>1, <5>2 DEF LateVoid
      <4> QED
        BY <3>5, <4>1, <4>2 DEF LateVoid
    <3>6. ASSUME NEW n \in 1..Attempts, HandlerEnds(p, n)
          PROVE  InRange
      BY <3>6 DEF HandlerEnds
    <3> QED
      BY <1>5, <3>1, <3>2, <3>3, <3>4, <3>5, <3>6 DEF Provider, Webhook, GivenUp
  <2> QED
    BY <2>1 DEF TypeOK, CallOK
<1>6. CASE UNCHANGED vars
  BY <1>6 DEF vars, deliveries, TypeOK, CallOK
<1> QED
  BY <1>1, <1>2, <1>3, <1>4, <1>5, <1>6 DEF Next

(* What the provider has opened, taken or ended, and what the row has      *)
(* recorded, no step of any handler takes back.                            *)
LEMMA Stability ==
    ASSUME IInv, [Next]_vars, NEW q \in Payments
    PROVE  Stable(q)
<1> USE PaymentAssumption
<1>0. /\ TypeOK /\ PayOK(q) /\ RefundOK(q)
      /\ pay[q] \in Status /\ intent[q] \in IntentStatus
  BY DEF IInv, TypeOK
<1>1. ASSUME NEW c \in Callers, Step(c) PROVE Stable(q)
  <2>1. /\ cmd[c].pay \in Payments
        /\ cmd[c].op = "refund" => cmd[c].ref \in RefundIds
    BY <1>1, StepMoves DEF IInv
  <2>2. PayOK(cmd[c].pay) /\ RefundOK(cmd[c].pay) /\ StepOK(c)
    BY <2>1 DEF IInv
  <2>3. CASE Initiate(c)
    BY <2>3, <1>0, <2>1, <2>2 DEF Initiate, Stable, TypeOK
  <2>4. CASE CreateIntent(c)
    BY <2>4, <1>0, <2>1, <2>2 DEF CreateIntent, Stable, TypeOK, OpenIntent
  <2>5. CASE FailPayment(c)
    BY <2>5, <1>0, <2>1, <2>2 DEF FailPayment, Stable, TypeOK, Allows, StepOK, At
  <2>6. CASE AttachIntent(c)
    BY <2>6, <1>0, <2>1, <2>2 DEF AttachIntent, Stable, TypeOK, Allows, StepOK, At
  <2>7. CASE LoadForCapture(c)
    BY <2>7 DEF LoadForCapture, Stable
  <2>8. CASE CaptureLookup(c)
    BY <2>8 DEF CaptureLookup, Stable
  <2>9. CASE ProviderCapture(c)
    BY <2>9, <1>0, <2>1, <2>2 DEF ProviderCapture, Stable, TypeOK
  <2>10. CASE CommitCapture(c)
    BY <2>10, <1>0, <2>1, <2>2 DEF CommitCapture, Stable, TypeOK, Allows
  <2>11. CASE LoadForCancel(c)
    BY <2>11 DEF LoadForCancel, Stable
  <2>12. CASE ProviderCancel(c)
    BY <2>12, <1>0, <2>1, <2>2 DEF ProviderCancel, Stable, TypeOK, Voided
  <2>13. CASE CommitCancel(c)
    BY <2>13, <1>0, <2>1, <2>2 DEF CommitCancel, Stable, TypeOK, Allows
  <2>14. CASE LoadForRefund(c)
    BY <2>14 DEF LoadForRefund, Stable
  <2>15. CASE RequestRefund(c)
    BY <2>15, <1>0, <2>1, <2>2 DEF RequestRefund, Stable, TypeOK
  <2>16. CASE ProviderRefund(c)
    BY <2>16, <1>0, <2>1, <2>2 DEF ProviderRefund, Stable, TypeOK, RefundOK, At
  <2>17. CASE SettleRefund(c)
    <3>1. UNCHANGED <<intent, returned, exposed, outbox>>
      BY <2>17 DEF SettleRefund
    <3>2. \/ pay' = pay
          \/ /\ pay' = [pay EXCEPT ![cmd[c].pay] = "refunded"]
             /\ intent[cmd[c].pay] = "refunded"
      BY <2>17, <2>2 DEF SettleRefund, StepOK, At
    <3>3. (pay[q] # "cancelled" /\ pay[q] # "failed") \/ pay'[q] = pay[q]
      BY <1>0, <2>1, <2>2, <3>2 DEF PayOK, TypeOK
    <3> QED
      BY <2>17, <1>0, <2>1, <2>2, <3>1, <3>2, <3>3 DEF SettleRefund, Stable, TypeOK, PayOK
  <2> QED
    BY <1>1, <2>3, <2>4, <2>5, <2>6, <2>7, <2>8, <2>9, <2>10, <2>11, <2>12, <2>13, <2>14,
       <2>15, <2>16, <2>17
       DEF Step, Create, Capture, Cancel, Refund
<1>2. ASSUME NEW c \in Callers, Return(c) \/ Crash(c) PROVE Stable(q)
  BY <1>2 DEF Return, Crash, Forget, Stable
<1>3. ASSUME NEW c \in Callers, NEW p \in Payments, Request(c, p) PROVE Stable(q)
  BY <1>3, RequestStarts DEF Stable
<1>4. ASSUME NEW p \in Payments, Expose(p) PROVE Stable(q)
  BY <1>4 DEF Expose, Stable
<1>5. ASSUME NEW p \in Payments, Provider(p) PROVE Stable(q)
  <2>1. CASE Approve(p) \/ Decline(p)
    BY <1>0, <2>1 DEF Approve, Decline, Confirm, Stable, TypeOK
  <2>2. CASE GivenUp(p)
    BY <2>2 DEF GivenUp, LoseWebhook, BuyerLeaves, HandlerEnds, Stable
  <2>3. ASSUME NEW n \in 1..Attempts, WebhookAuthorized(p, n) PROVE Stable(q)
    BY <1>0, <2>3 DEF WebhookAuthorized, Stable, TypeOK
  <2>4. ASSUME NEW n \in 1..Attempts, WebhookFailed(p, n) PROVE Stable(q)
    BY <1>0, <2>4 DEF WebhookFailed, Allows, Stable, TypeOK
  <2>5. ASSUME NEW n \in 1..Attempts, LateVoid(p, n) PROVE Stable(q)
    BY <1>0, <2>5 DEF LateVoid, Voided, Stable, TypeOK
  <2> QED
    BY <1>5, <2>1, <2>2, <2>3, <2>4, <2>5 DEF Provider, Webhook
<1>6. CASE UNCHANGED vars
  BY <1>6 DEF vars, Stable
<1> QED
  BY <1>1, <1>2, <1>3, <1>4, <1>5, <1>6 DEF Next

(* A payment's row, its intent and the handing out of its URL stay in      *)
(* agreement whatever handler, webhook or fault comes next.                *)
LEMMA PayInvariant ==
    ASSUME IInv, [Next]_vars, NEW q \in Payments
    PROVE  PayOK(q)'
<1> USE PaymentAssumption
<1>0. /\ TypeOK /\ PayOK(q) /\ RefundOK(q)
      /\ pay[q] \in Status /\ intent[q] \in IntentStatus
  BY DEF IInv, TypeOK
<1>1. ASSUME NEW c \in Callers, Step(c) PROVE PayOK(q)'
  <2>1. /\ cmd[c].pay \in Payments
        /\ cmd[c].op = "refund" => cmd[c].ref \in RefundIds
        /\ UNCHANGED <<exposed, left, handling, outbox>>
        /\ \A x \in Payments : Handled(x)' = Handled(x)
    BY <1>1, StepMoves DEF IInv, deliveries, Handled
  <2>2. PayOK(cmd[c].pay) /\ RefundOK(cmd[c].pay) /\ StepOK(c)
    BY <2>1 DEF IInv
  <2>3. CASE Initiate(c)
    BY <2>3, <1>0, <2>1, <2>2 DEF Initiate, PayOK, TypeOK
  <2>4. CASE CreateIntent(c)
    BY <2>4, <1>0, <2>1, <2>2 DEF CreateIntent, PayOK, TypeOK, OpenIntent
  <2>5. CASE FailPayment(c)
    BY <2>5, <1>0, <2>1, <2>2 DEF FailPayment, PayOK, TypeOK, Allows, StepOK, At
  <2>6. CASE AttachIntent(c)
    BY <2>6, <1>0, <2>1, <2>2 DEF AttachIntent, PayOK, TypeOK, Allows, StepOK, At
  <2>7. CASE LoadForCapture(c)
    BY <2>7, <1>0, <2>1 DEF LoadForCapture, PayOK
  <2>8. CASE CaptureLookup(c)
    BY <2>8, <1>0, <2>1 DEF CaptureLookup, PayOK
  <2>9. CASE ProviderCapture(c)
    BY <2>9, <1>0, <2>1, <2>2 DEF ProviderCapture, PayOK, TypeOK, StepOK, At
  <2>10. CASE CommitCapture(c)
    BY <2>10, <1>0, <2>1, <2>2 DEF CommitCapture, PayOK, TypeOK, Allows, StepOK, At
  <2>11. CASE LoadForCancel(c)
    BY <2>11, <1>0, <2>1 DEF LoadForCancel, PayOK
  <2>12. CASE ProviderCancel(c)
    BY <2>12, <1>0, <2>1, <2>2 DEF ProviderCancel, PayOK, TypeOK, Voided
  <2>13. CASE CommitCancel(c)
    BY <2>13, <1>0, <2>1, <2>2 DEF CommitCancel, PayOK, TypeOK, Allows, StepOK, At
  <2>14. CASE LoadForRefund(c)
    BY <2>14, <1>0, <2>1 DEF LoadForRefund, PayOK
  <2>15. CASE RequestRefund(c)
    BY <2>15, <1>0, <2>1 DEF RequestRefund, PayOK
  <2>16. CASE ProviderRefund(c)
    BY <2>16, <1>0, <2>1, <2>2 DEF ProviderRefund, PayOK, TypeOK, RefundOK, At
  <2>17. CASE SettleRefund(c)
    BY <2>17, <1>0, <2>1, <2>2 DEF SettleRefund, PayOK, TypeOK, StepOK, At
  <2> QED
    BY <1>1, <2>3, <2>4, <2>5, <2>6, <2>7, <2>8, <2>9, <2>10, <2>11, <2>12, <2>13, <2>14,
       <2>15, <2>16, <2>17
       DEF Step, Create, Capture, Cancel, Refund
<1>2. ASSUME NEW c \in Callers, Return(c) \/ Crash(c) PROVE PayOK(q)'
  BY <1>0, <1>2 DEF Return, Crash, Forget, PayOK, deliveries, Handled
<1>3. ASSUME NEW c \in Callers, NEW p \in Payments, Request(c, p) PROVE PayOK(q)'
  BY <1>0, <1>3, RequestStarts DEF PayOK, deliveries, Handled
<1>4. ASSUME NEW p \in Payments, Expose(p) PROVE PayOK(q)'
  BY <1>0, <1>4 DEF Expose, PayOK, deliveries, Handled
<1>5. ASSUME NEW p \in Payments, Provider(p) PROVE PayOK(q)'
  <2>0. PayOK(p)
    BY DEF IInv
  <2>1. CASE Approve(p) \/ Decline(p)
    <3>1. p \in exposed /\ UNCHANGED <<pay, exposed, outbox>> /\ Handled(q)' = Handled(q)
      BY <2>1 DEF Approve, Decline, Confirm, Handled
    <3>2. intent[p] = "requires_confirmation" /\ pay[p] \in Status
      BY <1>0, <2>1 DEF Approve, Decline, Confirm, TypeOK
    <3>3. /\ left'[p] \in Nat /\ intent'[p] \in {"authorized", "failed"}
          /\ \A x \in Payments \ {p} : left'[x] = left[x] /\ intent'[x] = intent[x]
      BY <1>0, <2>1 DEF Approve, Decline, Confirm, TypeOK
    <3> QED
      BY <1>0, <2>0, <3>1, <3>2, <3>3 DEF PayOK
  <2>2. ASSUME LoseWebhook(p) \/ BuyerLeaves(p) PROVE PayOK(q)'
    <3>1. p \in exposed
      BY <1>0, <2>0, <2>2 DEF LoseWebhook, BuyerLeaves, PayOK, TypeOK
    <3>2. q # p => left'[q] = left[q] /\ Handled(q)' = Handled(q)
      BY <1>0, <2>2 DEF LoseWebhook, BuyerLeaves, Abandon, Handled, TypeOK
    <3> QED
      BY <1>0, <2>2, <3>1, <3>2 DEF LoseWebhook, BuyerLeaves, PayOK
  <2>3. ASSUME NEW n \in 1..Attempts, HandlerEnds(p, n) PROVE PayOK(q)'
    <3>1. Handled(q)' => Handled(q)
      BY <2>3 DEF HandlerEnds, Handled
    <3> QED
      BY <1>0, <2>3, <3>1 DEF HandlerEnds, PayOK
  <2>4. ASSUME NEW n \in 1..Attempts,
               WebhookAuthorized(p, n) \/ WebhookFailed(p, n) \/ LateVoid(p, n)
        PROVE  PayOK(q)'
    <3>1. p \in exposed
      <4>1. left[p] > 0 \/ Handled(p)
        BY <2>4 DEF WebhookAuthorized, WebhookFailed, LateVoid, Attends, Delivering, Handled
      <4> QED
        BY <1>0, <2>0, <4>1 DEF PayOK, TypeOK
    <3>2. q # p => left'[q] = left[q] /\ Handled(q)' = Handled(q)
      BY <1>0, <2>4 DEF WebhookAuthorized, WebhookFailed, LateVoid, Acknowledge, Accept, Refuse,
         Handled, TypeOK
    <3>3. CASE WebhookAuthorized(p, n)
      BY <1>0, <3>1, <3>2, <3>3 DEF WebhookAuthorized, Acknowledge, PayOK, TypeOK
    <3>4. CASE WebhookFailed(p, n)
      BY <1>0, <3>1, <3>2, <3>4 DEF WebhookFailed, Allows, PayOK, TypeOK
    <3>5. CASE LateVoid(p, n)
      BY <1>0, <3>1, <3>2, <3>5 DEF LateVoid, Voided, PayOK, TypeOK
    <3> QED
      BY <2>4, <3>3, <3>4, <3>5
  <2> QED
    BY <1>5, <2>1, <2>2, <2>3, <2>4 DEF Provider, Webhook, GivenUp
<1>6. CASE UNCHANGED vars
  BY <1>0, <1>6 DEF vars, deliveries, PayOK, Handled
<1> QED
  BY <1>1, <1>2, <1>3, <1>4, <1>5, <1>6 DEF Next

(* The refund rows stay in agreement with what the provider has paid out.  *)
LEMMA RefundInvariant ==
    ASSUME IInv, [Next]_vars, NEW q \in Payments
    PROVE  RefundOK(q)'
<1> USE PaymentAssumption
<1>0. TypeOK /\ RefundOK(q) /\ Stable(q)
  BY Stability DEF IInv
<1>1. CASE UNCHANGED <<returned, refund>>
  <2>1. UNCHANGED <<returned, refund>> /\ Outstanding(q)' = Outstanding(q)
    BY <1>1 DEF Outstanding
  <2> QED
    BY <1>0, <2>1, PaymentAssumption DEF RefundOK, Stable, TypeOK
<1>2. ASSUME NEW c \in Callers, ProviderRefund(c) PROVE RefundOK(q)'
  <2>1. cmd[c].pay \in Payments /\ cmd[c].ref \in RefundIds /\ refund' = refund
    BY <1>2, StepMoves DEF IInv, ProviderRefund, At, CallOK
  <2>2. RefundOK(cmd[c].pay) /\ Outstanding(q)' = Outstanding(q)
    BY <2>1 DEF IInv, Outstanding
  <2>3. \/ UNCHANGED <<intent, returned>>
        \/ /\ intent' = [intent EXCEPT ![cmd[c].pay] = "refunded"]
           /\ returned' = [returned EXCEPT ![cmd[c].pay] = cmd[c].ref]
           /\ returned[cmd[c].pay] = cmd[c].ref \/ intent[cmd[c].pay] = "captured"
    BY <1>2 DEF ProviderRefund
  <2>4. pay' = pay
    BY <1>2 DEF ProviderRefund
  <2> QED
    BY <1>0, <2>1, <2>2, <2>3, <2>4 DEF RefundOK, TypeOK
<1>3. ASSUME NEW c \in Callers, RequestRefund(c) \/ SettleRefund(c),
             refund' # refund
      PROVE  RefundOK(q)'
  <2> DEFINE p == cmd[c].pay
             r == cmd[c].ref
  <2>1. p \in Payments /\ r \in RefundIds /\ UNCHANGED returned /\ StepOK(c)
    BY <1>3 DEF IInv, RequestRefund, SettleRefund, CallOK
  <2>2. \/ Outstanding(p) = {} /\ refund' = [refund EXCEPT ![p][r] = "pending"]
        \/ refund[p][r] = "pending" /\ refund' = [refund EXCEPT ![p][r] = "failed"]
        \/ /\ refund[p][r] = "pending" /\ refund' = [refund EXCEPT ![p][r] = "succeeded"]
           /\ returned[p] = r
    BY <1>3, <2>1 DEF RequestRefund, SettleRefund, StepOK, At
  <2>3. \A x \in RefundIds : refund[q][x] = "succeeded" => returned[q] = x
    BY <1>0 DEF RefundOK
  <2>4. ASSUME NEW x \in RefundIds, refund'[q][x] = "succeeded"
        PROVE  returned'[q] = x
    <3>0. refund[q] \in [RefundIds -> RefundStatus] /\ refund[p] \in [RefundIds -> RefundStatus]
      BY <1>0, <2>1 DEF TypeOK
    <3>1. CASE q = p /\ x = r
      <4>1. refund' # [refund EXCEPT ![p][r] = "pending"]
        BY <1>0, <2>1, <2>4, <3>0, <3>1 DEF TypeOK
      <4>2. refund' # [refund EXCEPT ![p][r] = "failed"]
        BY <1>0, <2>1, <2>4, <3>0, <3>1 DEF TypeOK
      <4>3. returned[p] = r
        BY <2>2, <4>1, <4>2
      <4> QED
        BY <2>1, <3>1, <4>3
    <3>2. CASE ~(q = p /\ x = r)
      <4>1. refund'[q][x] = refund[q][x]
        BY <1>0, <2>1, <2>2, <3>0, <3>2 DEF TypeOK
      <4> QED
        BY <2>1, <2>3, <2>4, <4>1
    <3> QED
      BY <3>1, <3>2
  <2>5. \A x, y \in Outstanding(q)' : x = y
    <3>1. \A x, y \in Outstanding(q) : x = y
      BY <1>0 DEF RefundOK
    <3>2. CASE q # p
      <4>1. refund'[q] = refund[q]
        BY <1>0, <2>1, <2>2, <3>2 DEF TypeOK
      <4> QED
        BY <3>1, <4>1 DEF Outstanding
    <3>3. CASE q = p
      <4>1. \A x \in RefundIds \ {r} : refund'[q][x] = refund[q][x]
        BY <1>0, <2>1, <2>2, <3>3 DEF TypeOK
      <4>2. Outstanding(q) = {} \/ r \in Outstanding(q)
        BY <2>1, <2>2, <3>3 DEF Outstanding
      <4>3. Outstanding(q)' \subseteq Outstanding(q) \cup {r}
        BY <4>1 DEF Outstanding
      <4> QED
        BY <3>1, <4>2, <4>3
    <3> QED
      BY <3>2, <3>3
  <2>6. \A x \in RefundIds : refund'[q][x] # "none" => pay'[q] \in {"captured", "refunded"}
    <3>1. pay[q] \in {"captured", "refunded"} => pay'[q] \in {"captured", "refunded"}
      BY <1>0 DEF Stable
    <3>2. \A x \in RefundIds : refund[q][x] # "none" => pay[q] \in {"captured", "refunded"}
      BY <1>0 DEF RefundOK
    <3>3. CASE q # p
      BY <1>0, <2>1, <2>2, <3>1, <3>2, <3>3 DEF TypeOK
    <3>4. CASE q = p /\ refund[p][r] # "none"
      BY <2>1, <3>1, <3>2, <3>4
    <3>5. CASE q = p /\ refund[p][r] = "none"
      BY <1>3, <2>1, <3>1, <3>5 DEF RequestRefund, SettleRefund
    <3> QED
      BY <3>3, <3>4, <3>5
  <2> QED
    BY <1>0, <2>1, <2>4, <2>5, <2>6 DEF RefundOK, Stable, TypeOK
<1>4. CASE /\ [Next]_vars
           /\ ~(\E c \in Callers : ProviderRefund(c) \/ RequestRefund(c) \/ SettleRefund(c))
  <2>1. ASSUME NEW c \in Callers, Step(c) PROVE UNCHANGED <<returned, refund>>
    BY <1>4, <2>1 DEF Step, Create, Capture, Cancel, Refund, Initiate, CreateIntent, FailPayment,
         AttachIntent, LoadForCapture, CaptureLookup, ProviderCapture, CommitCapture,
         LoadForCancel, ProviderCancel, CommitCancel, LoadForRefund
  <2>2. ASSUME NEW c \in Callers, Return(c) \/ Crash(c) PROVE UNCHANGED <<returned, refund>>
    BY <2>2 DEF Return, Crash, Forget
  <2>3. ASSUME NEW p \in Payments, Expose(p) \/ Provider(p) PROVE UNCHANGED <<returned, refund>>
    BY <2>3 DEF Expose, Provider, Approve, Decline, Confirm, GivenUp, LoseWebhook, BuyerLeaves, HandlerEnds,
         Webhook, WebhookAuthorized, WebhookFailed, LateVoid
  <2>4. ASSUME NEW c \in Callers, NEW p \in Payments, Request(c, p)
        PROVE  UNCHANGED <<returned, refund>>
    BY <2>4, RequestStarts
  <2>5. CASE UNCHANGED vars
    BY <1>1, <2>5 DEF vars
  <2> QED
    BY <1>1, <1>4, <2>1, <2>2, <2>3, <2>4, <2>5 DEF Next
<1>5. ASSUME NEW c \in Callers, RequestRefund(c) \/ SettleRefund(c), refund' = refund
      PROVE  UNCHANGED <<returned, refund>>
  BY <1>5 DEF RequestRefund, SettleRefund
<1> QED
  BY <1>1, <1>2, <1>3, <1>4, <1>5

(* A creation starts only when none of the same payment is in flight, and  *)
(* a command that has left its labels does not return to them.             *)
LEMMA OneCreatorInvariant ==
    ASSUME IInv, [Next]_vars
    PROVE  OneCreator'
<1>0. TypeOK /\ OneCreator
  BY DEF IInv
<1>1. ASSUME NEW c \in Callers, Step(c) PROVE OneCreator'
  <2>1. cmd' = cmd /\ pc[c] \in Labels /\ \E l \in Labels \cup Results : Goto(c, l)
    BY <1>1, StepMoves DEF IInv
  <2>2. \A d \in Callers : pc'[d] \in Labels => pc[d] \in Labels
    BY <1>0, <2>1 DEF Goto, TypeOK
  <2> QED
    BY <1>0, <2>1, <2>2 DEF OneCreator
<1>2. ASSUME NEW c \in Callers, Return(c) \/ Crash(c) PROVE OneCreator'
  <2>1. /\ \A d \in Callers \ {c} : cmd'[d] = cmd[d] /\ pc'[d] = pc[d]
        /\ pc'[c] = "idle"
    BY <1>0, <1>2 DEF Return, Crash, Forget, TypeOK
  <2> QED
    BY <1>0, <2>1 DEF OneCreator, Labels
<1>3. ASSUME NEW c \in Callers, NEW p \in Payments, Request(c, p) PROVE OneCreator'
  <2>1. PICK op \in {"create", "capture", "cancel", "refund"},
             r \in RefundIds \cup {None}, l \in {"initiate", "load"} :
          /\ cmd' = [cmd EXCEPT ![c] = [op |-> op, pay |-> p, ref |-> r]]
          /\ pc' = [pc EXCEPT ![c] = l]
          /\ op = "create" => ~InFlight("create", p)
    BY <1>3, RequestStarts
  <2>2. /\ \A d \in Callers \ {c} : cmd'[d] = cmd[d] /\ pc'[d] = pc[d]
        /\ cmd'[c].op = op /\ cmd'[c].pay = p
    BY <1>0, <2>1 DEF TypeOK
  <2> QED
    BY <1>0, <2>1, <2>2 DEF OneCreator, InFlight
<1>4. CASE UNCHANGED <<cmd, pc>>
  BY <1>0, <1>4 DEF OneCreator
<1>5. ASSUME NEW p \in Payments, Expose(p) \/ Provider(p) PROVE UNCHANGED <<cmd, pc>>
  BY <1>5 DEF Expose, Provider, Approve, Decline, Confirm, GivenUp, LoseWebhook, BuyerLeaves, HandlerEnds,
       Webhook, WebhookAuthorized, WebhookFailed, LateVoid
<1> QED
  BY <1>1, <1>2, <1>3, <1>4, <1>5 DEF Next, vars

(* While a creation is in flight only a cancellation moves its payment on. *)
LEMMA CreationUndisturbed ==
    ASSUME IInv, [Next]_vars, NEW d \in Callers,
           cmd[d].op = "create", pc[d] \in Labels,
           pay[cmd[d].pay] \in {"created", "cancelled"},
           ~Step(d)
    PROVE  pay'[cmd[d].pay] \in {"created", "cancelled"}
<1> DEFINE p == cmd[d].pay
<1>0. TypeOK /\ p \in Payments /\ PayOK(p) /\ OneCreator /\ Stable(p)
  BY Stability DEF IInv, CallOK
<1>1. ASSUME NEW c \in Callers, Step(c) PROVE pay'[p] \in {"created", "cancelled"}
  <2>1. cmd[c].pay \in Payments /\ pc[c] \in Labels /\ StepOK(c) /\ c # d
    BY <1>1, StepMoves DEF IInv
  <2>2. CASE pay' = pay
    BY <2>2
  <2>3. CASE Initiate(c) \/ FailPayment(c) \/ AttachIntent(c)
    <3>1. cmd[c].op = "create"
      BY <2>3 DEF Initiate, FailPayment, AttachIntent, At
    <3>2. cmd[c].pay # p
      BY <1>0, <2>1, <3>1 DEF OneCreator
    <3> QED
      BY <1>0, <2>3, <3>2 DEF Initiate, FailPayment, AttachIntent, TypeOK
  <2>4. CASE CommitCapture(c)
    BY <1>0, <2>4 DEF CommitCapture, Allows, TypeOK
  <2>5. CASE CommitCancel(c)
    BY <1>0, <2>5 DEF CommitCancel, TypeOK
  <2>6. CASE SettleRefund(c)
    BY <1>0, <2>1, <2>6 DEF SettleRefund, StepOK, At, PayOK, TypeOK
  <2>7. CASE CreateIntent(c) \/ LoadForCapture(c) \/ CaptureLookup(c) \/ ProviderCapture(c)
             \/ LoadForCancel(c) \/ ProviderCancel(c)
    BY <2>2, <2>7 DEF CreateIntent, LoadForCapture, CaptureLookup, ProviderCapture,
         LoadForCancel, ProviderCancel
  <2>8. CASE LoadForRefund(c) \/ RequestRefund(c) \/ ProviderRefund(c)
    BY <2>2, <2>8 DEF LoadForRefund, RequestRefund, ProviderRefund
  <2> QED
    BY <1>1, <2>3, <2>4, <2>5, <2>6, <2>7, <2>8 DEF Step, Create, Capture, Cancel, Refund
<1>2. ASSUME NEW x \in Payments, Provider(x) PROVE pay'[p] \in {"created", "cancelled"}
  <2>1. ASSUME NEW n \in 1..Attempts, WebhookAuthorized(x, n)
        PROVE  pay'[p] \in {"created", "cancelled"}
    BY <1>0, <2>1 DEF WebhookAuthorized, TypeOK
  <2>2. ASSUME NEW n \in 1..Attempts, WebhookFailed(x, n)
        PROVE  pay'[p] \in {"created", "cancelled"}
    BY <1>0, <2>2 DEF WebhookFailed, PayOK, Allows, TypeOK
  <2>3. CASE \/ Approve(x) \/ Decline(x) \/ GivenUp(x)
             \/ \E n \in 1..Attempts : LateVoid(x, n)
    BY <2>3 DEF Approve, Decline, Confirm, GivenUp, LoseWebhook, BuyerLeaves, HandlerEnds, LateVoid
  <2> QED
    BY <1>2, <2>1, <2>2, <2>3 DEF Provider, Webhook
<1>3. ASSUME NEW c \in Callers, Return(c) \/ Crash(c) PROVE pay' = pay
  BY <1>3 DEF Return, Crash, Forget
<1>4. ASSUME NEW c \in Callers, NEW x \in Payments, Request(c, x) PROVE pay' = pay
  BY <1>4, RequestStarts
<1>5. ASSUME NEW x \in Payments, Expose(x) PROVE pay' = pay
  BY <1>5 DEF Expose
<1> QED
  BY <1>1, <1>2, <1>3, <1>4, <1>5 DEF Next, vars

(* A cancellation in flight keeps the redirect URL from being handed out.  *)
LEMMA NotExposedByOthers ==
    ASSUME IInv, [Next]_vars, NEW d \in Callers,
           cmd[d].op = "cancel", pc[d] \in Labels, cmd[d].pay \notin exposed
    PROVE  cmd[d].pay \notin exposed'
<1>1. ASSUME NEW c \in Callers, Step(c) PROVE exposed' = exposed
  BY <1>1, StepMoves DEF IInv
<1>2. ASSUME NEW c \in Callers, Return(c) \/ Crash(c) PROVE exposed' = exposed
  BY <1>2 DEF Return, Crash, Forget
<1>3. ASSUME NEW c \in Callers, NEW x \in Payments, Request(c, x) PROVE exposed' = exposed
  BY <1>3, RequestStarts
<1>4. ASSUME NEW x \in Payments, Expose(x) PROVE cmd[d].pay \notin exposed'
  BY <1>4 DEF Expose, InFlight
<1>5. ASSUME NEW x \in Payments, Provider(x) PROVE exposed' = exposed
  BY <1>5 DEF Provider, Approve, Decline, Confirm, GivenUp, LoseWebhook, BuyerLeaves, HandlerEnds,
       Webhook, WebhookAuthorized, WebhookFailed, LateVoid
<1> QED
  BY <1>1, <1>2, <1>3, <1>4, <1>5 DEF Next, vars

(* A command that does not move keeps what it relies on.                   *)
LEMMA OthersKeep ==
    ASSUME IInv, [Next]_vars, NEW d \in Callers,
           cmd'[d] = cmd[d], pc'[d] = pc[d], ~Step(d)
    PROVE  StepOK(d)'
<1>1. CASE cmd[d].op = "none"
  BY <1>1 DEF StepOK, At
<1>2. CASE cmd[d].op # "none"
  <2> DEFINE p == cmd[d].pay
  <2>1. /\ p \in Payments /\ StepOK(d) /\ Stable(p)
        /\ cmd[d].op = "refund" => cmd[d].ref \in RefundIds
    BY <1>2, Stability DEF IInv, CallOK
  <2>2. cmd[d].op = "create" /\ pc[d] \in {"intent", "attach", "fail"}
           => pay'[p] \in {"created", "cancelled"}
    BY <2>1, CreationUndisturbed DEF StepOK, Labels
  <2>3. At(d, "cancel", "commit") /\ p \notin exposed => p \notin exposed'
    BY NotExposedByOthers DEF At, Labels
  <2>4. At(d, "cancel", "commit")
           => \/ pay'[p] \in {"captured", "refunded"}
              \/ p \notin exposed'
              \/ intent'[p] \in {"cancelled", "failed"}
    BY <2>1, <2>3 DEF StepOK, Stable
  <2> QED
    BY <2>1, <2>2, <2>4 DEF StepOK, Stable, At
<1> QED
  BY <1>1, <1>2

(* A command that moves establishes what its next label relies on.         *)
LEMMA MoverEstablishes ==
    ASSUME IInv, [Next]_vars, NEW c \in Callers, Step(c)
    PROVE  StepOK(c)'
<1> DEFINE p == cmd[c].pay
<1>0. /\ TypeOK /\ p \in Payments /\ PayOK(p) /\ StepOK(c) /\ Stable(p)
      /\ cmd' = cmd /\ exposed' = exposed
      /\ cmd[c].op = "refund" => cmd[c].ref \in RefundIds
  BY StepMoves, Stability DEF IInv
<1>1. CASE Initiate(c)
  BY <1>0, <1>1 DEF Initiate, Goto, StepOK, PayOK, At, TypeOK
<1>2. CASE CreateIntent(c)
  BY <1>0, <1>2 DEF CreateIntent, Goto, StepOK, PayOK, At, TypeOK, OpenIntent
<1>3. CASE FailPayment(c)
  BY <1>0, <1>3 DEF FailPayment, Goto, StepOK, PayOK, At, TypeOK
<1>4. CASE AttachIntent(c)
  BY <1>0, <1>4 DEF AttachIntent, Goto, StepOK, PayOK, At, TypeOK, Refusal, IsTerminal
<1>5. CASE LoadForCapture(c)
  BY <1>0, <1>5 DEF LoadForCapture, Goto, StepOK, PayOK, At, TypeOK
<1>6. CASE CaptureLookup(c)
  BY <1>0, <1>6 DEF CaptureLookup, Goto, StepOK, PayOK, At, TypeOK
<1>7. CASE ProviderCapture(c)
  BY <1>0, <1>7 DEF ProviderCapture, Goto, StepOK, PayOK, At, TypeOK
<1>8. CASE CommitCapture(c)
  BY <1>0, <1>8 DEF CommitCapture, Goto, StepOK, PayOK, At, TypeOK, Refusal, IsTerminal
<1>9. CASE LoadForCancel(c)
  BY <1>0, <1>9 DEF LoadForCancel, Goto, StepOK, PayOK, At, TypeOK
<1>10. CASE ProviderCancel(c)
  BY <1>0, <1>10 DEF ProviderCancel, Goto, StepOK, PayOK, At, TypeOK, Voided, IntentStatus
<1>11. CASE CommitCancel(c)
  BY <1>0, <1>11 DEF CommitCancel, Goto, StepOK, PayOK, At, TypeOK, Refusal, IsTerminal
<1>12. CASE LoadForRefund(c)
  BY <1>0, <1>12 DEF LoadForRefund, Goto, StepOK, PayOK, At, TypeOK
<1>13. CASE RequestRefund(c)
  BY <1>0, <1>13 DEF RequestRefund, Goto, StepOK, PayOK, At, TypeOK
<1>14. CASE ProviderRefund(c)
  BY <1>0, <1>14 DEF ProviderRefund, Goto, StepOK, PayOK, At, TypeOK
<1>15. CASE SettleRefund(c)
  <2> DEFINE r == cmd[c].ref
  <2>1. /\ cmd[c].op = "refund" /\ r \in RefundIds /\ pc'[c] \in {"ok", "error"}
        /\ refund[p][r] \in RefundStatus
    BY <1>0, <1>15 DEF SettleRefund, Goto, TypeOK
  <2>2. pc'[c] = "ok" => refund'[p][r] \in {"succeeded", "failed"}
    <3>1. CASE refund[p][r] = "pending"
      BY <1>0, <1>15, <2>1, <3>1 DEF SettleRefund, Goto, TypeOK
    <3>2. CASE refund[p][r] # "pending"
      <4>1. refund' = refund /\ pc[c] \in {"settled", "unsettled"}
        BY <1>15, <3>2 DEF SettleRefund
      <4>2. refund[p][r] # "none"
        BY <1>0, <2>1, <4>1 DEF StepOK
      <4> QED
        BY <2>1, <3>2, <4>1, <4>2 DEF RefundStatus
    <3> QED
      BY <3>1, <3>2
  <2> QED
    BY <1>0, <2>1, <2>2 DEF StepOK, At
<1> QED
  BY <1>1, <1>2, <1>3, <1>4, <1>5, <1>6, <1>7, <1>8, <1>9, <1>10, <1>11, <1>12, <1>13,
     <1>14, <1>15
     DEF Step, Create, Capture, Cancel, Refund

(* Every command in flight can still rely on what its label promises, the  *)
(* one that moved and the others alike.                                    *)
LEMMA StepInvariant ==
    ASSUME IInv, [Next]_vars, NEW d \in Callers
    PROVE  StepOK(d)'
<1>0. TypeOK
  BY DEF IInv
<1>1. CASE Step(d)
  BY <1>1, MoverEstablishes
<1>2. CASE ~Step(d) /\ cmd'[d] = cmd[d] /\ pc'[d] = pc[d]
  BY <1>2, OthersKeep
<1>3. ASSUME NEW c \in Callers, Step(c), c # d
      PROVE  cmd'[d] = cmd[d] /\ pc'[d] = pc[d]
  <2>1. cmd' = cmd /\ \E l \in Labels \cup Results : Goto(c, l)
    BY <1>3, StepMoves DEF IInv
  <2> QED
    BY <1>0, <1>3, <2>1 DEF Goto, TypeOK
<1>4. ASSUME NEW c \in Callers, Return(c) \/ Crash(c)
      PROVE  IF c = d THEN cmd'[d] = NoCommand ELSE cmd'[d] = cmd[d] /\ pc'[d] = pc[d]
  BY <1>0, <1>4 DEF Return, Crash, Forget, TypeOK
<1>5. ASSUME NEW c \in Callers, NEW p \in Payments, Request(c, p)
      PROVE  IF c = d THEN pc'[d] \in {"initiate", "load"}
                      ELSE cmd'[d] = cmd[d] /\ pc'[d] = pc[d]
  BY <1>0, <1>5, RequestStarts DEF TypeOK
<1>6. ASSUME NEW p \in Payments, Expose(p) \/ Provider(p)
      PROVE  cmd'[d] = cmd[d] /\ pc'[d] = pc[d]
  BY <1>6 DEF Expose, Provider, Approve, Decline, Confirm, GivenUp, LoseWebhook, BuyerLeaves, HandlerEnds,
       Webhook, WebhookAuthorized, WebhookFailed, LateVoid
<1>7. cmd'[d] = NoCommand \/ pc'[d] \in {"initiate", "load"} => StepOK(d)'
  BY DEF NoCommand, StepOK, At
<1> QED
  BY <1>1, <1>2, <1>3, <1>4, <1>5, <1>6, <1>7 DEF Next, vars

-----------------------------------------------------------------------------
(* What a caller needs to know of the steps of others, beyond stability.   *)

(* A creation that answers without error leaves the payment pending.       *)
LEMMA CreateAnswers ==
    ASSUME IInv, NEW c \in Callers, Step(c), cmd[c].op = "create", pc'[c] = "ok"
    PROVE  pay'[cmd[c].pay] = "pending"
<1>0. TypeOK /\ CallOK(c) /\ cmd[c].pay \in Payments
  BY StepMoves DEF IInv
<1>1. Create(c)
  BY DEF Step, Capture, Cancel, Refund, LoadForCapture, CaptureLookup, ProviderCapture,
     CommitCapture, LoadForCancel, ProviderCancel, CommitCancel, LoadForRefund, RequestRefund,
     ProviderRefund, SettleRefund, At
<1>2. CASE Initiate(c)
  BY <1>0, <1>2 DEF Initiate, Goto, TypeOK
<1>3. CASE AttachIntent(c)
  BY <1>0, <1>3 DEF AttachIntent, Goto, TypeOK, Refusal, IsTerminal
<1>4. CASE CreateIntent(c) \/ FailPayment(c)
  BY <1>0, <1>4 DEF CreateIntent, FailPayment, Goto, TypeOK
<1> QED
  BY <1>1, <1>2, <1>3, <1>4 DEF Create

(* Before its URL is handed out, only its own creation and a cancellation  *)
(* move a pending payment.                                                 *)
LEMMA PendingKept ==
    ASSUME IInv, NEW q \in Payments, pay[q] = "pending", q \notin exposed,
           ~InFlight("create", q), ~InFlight("cancel", q),
           (\E c \in Callers : Step(c)) \/ (\E p \in Payments : Provider(p))
    PROVE  pay'[q] = "pending"
<1>0. TypeOK /\ PayOK(q) /\ RefundOK(q)
  BY DEF IInv
<1>1. ASSUME NEW c \in Callers, Step(c) PROVE pay'[q] = "pending"
  <2>1. cmd[c].pay \in Payments /\ pc[c] \in Labels /\ StepOK(c)
    BY <1>1, StepMoves DEF IInv
  <2>2. CASE pay' = pay
    BY <2>2
  <2>3. CASE Initiate(c) \/ FailPayment(c) \/ AttachIntent(c)
    <3>1. cmd[c].pay # q
      BY <2>1, <2>3 DEF Initiate, FailPayment, AttachIntent, At, InFlight
    <3> QED
      BY <1>0, <2>3, <3>1 DEF Initiate, FailPayment, AttachIntent, TypeOK
  <2>4. CASE CommitCapture(c)
    BY <1>0, <2>4 DEF CommitCapture, Allows, TypeOK
  <2>5. CASE CommitCancel(c)
    <3>1. cmd[c].pay # q
      BY <2>1, <2>5 DEF CommitCancel, At, InFlight
    <3> QED
      BY <1>0, <2>5, <3>1 DEF CommitCancel, TypeOK
  <2>6. CASE SettleRefund(c)
    BY <1>0, <2>1, <2>6 DEF SettleRefund, StepOK, At, PayOK, TypeOK
  <2>7. CASE CreateIntent(c) \/ LoadForCapture(c) \/ CaptureLookup(c) \/ ProviderCapture(c)
             \/ LoadForCancel(c) \/ ProviderCancel(c)
    BY <2>2, <2>7 DEF CreateIntent, LoadForCapture, CaptureLookup, ProviderCapture,
         LoadForCancel, ProviderCancel
  <2>8. CASE LoadForRefund(c) \/ RequestRefund(c) \/ ProviderRefund(c)
    BY <2>2, <2>8 DEF LoadForRefund, RequestRefund, ProviderRefund
  <2> QED
    BY <1>1, <2>3, <2>4, <2>5, <2>6, <2>7, <2>8 DEF Step, Create, Capture, Cancel, Refund
<1>2. ASSUME NEW x \in Payments, Provider(x) PROVE pay'[q] = "pending"
  <2>1. ASSUME NEW n \in 1..Attempts, WebhookAuthorized(x, n) \/ WebhookFailed(x, n)
        PROVE  pay'[q] = "pending"
    <3>1. left[x] > 0 \/ Handled(x)
      BY <2>1 DEF WebhookAuthorized, WebhookFailed, Attends, Delivering, Handled
    <3>2. x # q
      BY <1>0, <3>1 DEF PayOK
    <3> QED
      BY <1>0, <2>1, <3>2 DEF WebhookAuthorized, WebhookFailed, TypeOK
  <2>2. CASE \/ Approve(x) \/ Decline(x) \/ GivenUp(x)
             \/ \E n \in 1..Attempts : LateVoid(x, n)
    BY <2>2 DEF Approve, Decline, Confirm, GivenUp, LoseWebhook, BuyerLeaves, HandlerEnds, LateVoid
  <2> QED
    BY <1>2, <2>1, <2>2 DEF Provider, Webhook
<1> QED
  BY <1>1, <1>2

(* Without a refund under way, what is captured stays so.                  *)
LEMMA ChargeKept ==
    ASSUME IInv, [Next]_vars, NEW q \in Payments, \A c \in Callers : cmd[c].op # "refund"
    PROVE  /\ pay[q] = "captured" => pay'[q] = "captured"
           /\ intent[q] # "refunded" => intent'[q] # "refunded"
<1>0. TypeOK /\ PayOK(q)
  BY DEF IInv
<1>1. ASSUME NEW c \in Callers, Step(c)
      PROVE  /\ pay[q] = "captured" => pay'[q] = "captured"
             /\ intent[q] # "refunded" => intent'[q] # "refunded"
  <2>1. cmd[c].pay \in Payments /\ StepOK(c)
    BY <1>1, StepMoves DEF IInv
  <2>2. CASE Create(c)
    BY <1>0, <2>1, <2>2 DEF Create, Initiate, CreateIntent, OpenIntent, FailPayment, AttachIntent,
       Allows, TypeOK
  <2>3. CASE Capture(c)
    BY <1>0, <2>1, <2>3 DEF Capture, LoadForCapture, CaptureLookup, ProviderCapture,
       CommitCapture, Allows, TypeOK
  <2>4. CASE Cancel(c)
    BY <1>0, <2>1, <2>4 DEF Cancel, LoadForCancel, ProviderCancel, CommitCancel, Voided,
       Allows, TypeOK
  <2>5. CASE Refund(c)
    BY <2>5 DEF Refund, LoadForRefund, RequestRefund, ProviderRefund, SettleRefund, At
  <2> QED
    BY <1>1, <2>2, <2>3, <2>4, <2>5 DEF Step
<1>2. ASSUME NEW x \in Payments, Provider(x)
      PROVE  /\ pay[q] = "captured" => pay'[q] = "captured"
             /\ intent[q] # "refunded" => intent'[q] # "refunded"
  BY <1>0, <1>2 DEF Provider, Approve, Decline, Confirm, GivenUp, LoseWebhook, BuyerLeaves, HandlerEnds,
     Webhook, WebhookAuthorized, WebhookFailed, LateVoid, Voided, Allows, TypeOK
<1>3. ASSUME \/ \E c \in Callers : Return(c) \/ Crash(c)
             \/ \E c \in Callers, x \in Payments : Request(c, x)
             \/ \E x \in Payments : Expose(x)
             \/ UNCHANGED vars
      PROVE  UNCHANGED <<pay, intent>>
  BY <1>3, RequestStarts DEF Return, Crash, Forget, Expose, vars
<1> QED
  BY <1>1, <1>2, <1>3 DEF Next

-----------------------------------------------------------------------------
(* The invariant holds before the first payment.                           *)
LEMMA Initially == Init => IInv
<1> SUFFICES ASSUME Init PROVE IInv
  OBVIOUS
<1> USE PaymentAssumption
<1>1. TypeOK
  BY DEF Init, TypeOK, Status, RefundStatus, IntentStatus, Command, NoCommand
<1>2. \A c \in Callers : CallOK(c) /\ StepOK(c)
  BY DEF Init, CallOK, StepOK, At, NoCommand
<1>3. \A p \in Payments : PayOK(p) /\ RefundOK(p)
  BY DEF Init, PayOK, Handled, RefundOK, Outstanding
<1>4. OneCreator
  BY DEF Init, OneCreator, NoCommand
<1> QED
  BY <1>1, <1>2, <1>3, <1>4 DEF IInv

(* The invariant is inductive: every step of the payment context keeps it. *)
LEMMA Inductive == IInv /\ [Next]_vars => IInv'
<1> SUFFICES ASSUME IInv, [Next]_vars PROVE IInv'
  OBVIOUS
<1>1. TypeOK' /\ \A c \in Callers : CallOK(c)'
  BY TypeInvariant DEF IInv
<1>2. \A p \in Payments : PayOK(p)' /\ RefundOK(p)'
  BY PayInvariant, RefundInvariant
<1>3. OneCreator'
  BY OneCreatorInvariant
<1>4. \A c \in Callers : StepOK(c)'
  BY StepInvariant
<1> QED
  BY <1>1, <1>2, <1>3, <1>4 DEF IInv

(* It therefore holds in every reachable state.                            *)
LEMMA Invariance == Spec => []IInv
  BY Initially, Inductive, PTL DEF Spec

(* What the invariant says of the five safety properties of the module.    *)
LEMMA Consequences ==
    IInv => LedgerAgrees /\ CancelReleasesHold /\ CaptureCharges
            /\ RefundedOnce /\ ChargeFollowsEvent
<1> SUFFICES ASSUME IInv
             PROVE  LedgerAgrees /\ CancelReleasesHold /\ CaptureCharges
                    /\ RefundedOnce /\ ChargeFollowsEvent
  OBVIOUS
<1>0. /\ TypeOK /\ PaymentAssumption
      /\ \A p \in Payments : PayOK(p) /\ RefundOK(p)
      /\ \A c \in Callers : CallOK(c) /\ StepOK(c)
  BY PaymentAssumption DEF IInv
<1>1. LedgerAgrees
  BY <1>0 DEF LedgerAgrees, PayOK
<1>2. CancelReleasesHold
  <2> SUFFICES ASSUME NEW c \in Callers, At(c, "cancel", "ok")
               PROVE  intent[cmd[c].pay] \notin {"authorized", "captured", "refunded"}
    BY DEF CancelReleasesHold
  <2>1. cmd[c].pay \in Payments /\ pay[cmd[c].pay] \in {"cancelled", "failed"}
    BY <1>0 DEF CallOK, StepOK, At
  <2> QED
    BY <1>0, <2>1 DEF PayOK
<1>3. CaptureCharges
  <2> SUFFICES ASSUME NEW c \in Callers, At(c, "capture", "ok")
               PROVE  /\ pay[cmd[c].pay] \in {"captured", "refunded"}
                      /\ intent[cmd[c].pay] \in {"captured", "refunded"}
    BY DEF CaptureCharges
  <2>1. cmd[c].pay \in Payments /\ pay[cmd[c].pay] \in {"captured", "refunded"}
    BY <1>0 DEF CallOK, StepOK, At
  <2> QED
    BY <1>0, <2>1 DEF PayOK
<1>4. RefundedOnce
  <2> SUFFICES ASSUME NEW p \in Payments, NEW r \in RefundIds, NEW q \in RefundIds
               PROVE  /\ refund[p][r] = "succeeded" => returned[p] = r
                      /\ {refund[p][r], refund[p][q]} \subseteq {"pending", "succeeded"} => r = q
    BY DEF RefundedOnce
  <2>1. refund[p][r] = "succeeded" => returned[p] = r
    BY <1>0 DEF RefundOK
  <2>2. ASSUME {refund[p][r], refund[p][q]} \subseteq {"pending", "succeeded"}
        PROVE  r = q
    <3>1. r \in Outstanding(p) /\ q \in Outstanding(p)
      BY <2>2 DEF Outstanding
    <3> QED
      BY <3>1, <1>0 DEF RefundOK
  <2> QED
    BY <2>1, <2>2
<1>5. ChargeFollowsEvent
  BY <1>0 DEF ChargeFollowsEvent, PayOK
<1> QED
  BY <1>1, <1>2, <1>3, <1>4, <1>5

(* Every variable stays in its range, for every number of payments,        *)
(* refunds, callers, delivery attempts and faults.                         *)
THEOREM TypeCorrect == Spec => []TypeOK
<1>1. IInv => TypeOK
  BY DEF IInv
<1> QED
  BY Invariance, <1>1, PTL

(* mutate and the handlers around it never record money that the provider  *)
(* does not have, nor forget money it has taken.                           *)
THEOREM LedgerAlwaysAgrees == Spec => []LedgerAgrees
  BY Invariance, Consequences, PTL

(* CancelHandler.Handle, answering without error, leaves no hold behind:   *)
(* what settlePayment relies on when it closes a compensated checkout.     *)
THEOREM CancelAlwaysReleases == Spec => []CancelReleasesHold
  BY Invariance, Consequences, PTL

(* CaptureHandler.Handle, answering without error, has charged the buyer.  *)
THEOREM CaptureAlwaysCharges == Spec => []CaptureCharges
  BY Invariance, Consequences, PTL

(* RefundHandler.Handle pays a payment out at most once, whoever asks and  *)
(* under whatever refund ids.                                              *)
THEOREM AlwaysRefundedOnce == Spec => []RefundedOnce
  BY Invariance, Consequences, PTL

(* Only an approval announced to ordering is ever charged.                 *)
THEOREM ChargeAlwaysFollowsEvent == Spec => []ChargeFollowsEvent
  BY Invariance, Consequences, PTL
=============================================================================
