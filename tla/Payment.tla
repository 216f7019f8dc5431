------------------------------ MODULE Payment ------------------------------
(***************************************************************************)
(* The payment context: the payment aggregate, the four multi-step         *)
(* handlers that drive it (each a transaction, a call to the provider and  *)
(* a second transaction), the webhook handler, and the payment service     *)
(* provider with its pay page and its webhook delivery.                    *)
(*                                                                         *)
(* Amounts are not modelled.  Ordering, the only caller, captures the      *)
(* whole authorised amount and asks for refund amount 0, "all that is      *)
(* refundable"; the provider authorises the amount of the intent.  So a    *)
(* refund is of everything or of nothing, and "nothing" is the amount an   *)
(* empty refundable balance yields.                                        *)
(***************************************************************************)
EXTENDS Naturals

CONSTANTS
    Payments,   \* payment ids; the caller chooses a fresh one per attempt
    RefundIds,  \* refund ids, per payment
    Callers,    \* goroutines that run a payment command
    Attempts,   \* webhook delivery attempts of the provider
    MaxFaults,  \* bound on lost calls, lost answers and crashed callers
    None        \* no payment, no refund

ASSUME PaymentAssumption ==
    /\ None \notin Payments \cup RefundIds
    /\ Attempts \in Nat \ {0}
    /\ MaxFaults \in Nat

VARIABLES
    pay,        \* payment -> status of its row, "absent" before the insert
    refund,     \* payment -> refund id -> status of the refund row
    outbox,     \* payments with a payment.authorized event in the outbox
    cmd,        \* caller -> the command it runs: operation, payment, refund
    pc,         \* caller -> the step it is at, or the result of the command
    intent,     \* payment -> status of its intent at the provider
    returned,   \* payment -> the refund the provider has paid out, or None
    exposed,    \* payments whose redirect URL the buyer can know
    left,       \* payment -> deliveries left of the webhook of its intent
    recorded,   \* payments whose webhook event id is in the webhook log
    handling,   \* webhook handlers at work: payment, delivery, next step
    gone,       \* payments whose buyer left the pay page during a delivery
    faults      \* faults injected so far

deliveries == <<left, recorded, handling, gone>>
vars == <<pay, refund, outbox, cmd, pc, intent, returned, exposed, deliveries, faults>>

Status == {"absent", "created", "pending", "authorized", "captured",
           "failed", "cancelled", "refunded"}
RefundStatus == {"none", "pending", "succeeded", "failed"}
IntentStatus == {"none", "requires_confirmation", "authorized", "captured",
                 "failed", "cancelled", "refunded"}
Labels == {"initiate", "intent", "attach", "fail", "load", "lookup", "provider",
           "commit", "request", "request_nothing", "settled", "unsettled"}
Results == {"ok", "error", "not_found", "transition", "terminal", "invalid",
            "exceeds", "rejected", "internal"}

IsTerminal(s) == s \in {"failed", "cancelled", "refunded"}

(* The table of allowed status changes.                                    *)
Allows(s, t) ==
    \/ s = "created"    /\ t \in {"pending", "failed", "cancelled"}
    \/ s = "pending"    /\ t \in {"authorized", "failed", "cancelled"}
    \/ s = "authorized" /\ t \in {"captured", "cancelled"}
    \/ s = "captured"   /\ t = "refunded"

(* The error of a change that is not allowed.                              *)
Refusal(s) == IF IsTerminal(s) THEN "terminal" ELSE "transition"

NoCommand == [op |-> "none", pay |-> None, ref |-> None]

Init ==
    /\ pay = [p \in Payments |-> "absent"]
    /\ refund = [p \in Payments |-> [r \in RefundIds |-> "none"]]
    /\ outbox = {}
    /\ cmd = [c \in Callers |-> NoCommand]
    /\ pc = [c \in Callers |-> "idle"]
    /\ intent = [p \in Payments |-> "none"]
    /\ returned = [p \in Payments |-> None]
    /\ exposed = {}
    /\ left = [p \in Payments |-> 0]
    /\ recorded = {}
    /\ handling = {}
    /\ gone = {}
    /\ faults = 0

-----------------------------------------------------------------------------
(* Calling conventions.                                                    *)

At(c, op, l) == cmd[c].op = op /\ pc[c] = l
Goto(c, l) == pc' = [pc EXCEPT ![c] = l]

Fault == faults < MaxFaults /\ faults' = faults + 1

(* Some caller is between the first and the last step of op on p.          *)
InFlight(op, p) ==
    \E c \in Callers : cmd[c].op = op /\ cmd[c].pay = p /\ pc[c] \in Labels

Start(c, op, p, r, l) ==
    /\ pc[c] = "idle"
    /\ cmd' = [cmd EXCEPT ![c] = [op |-> op, pay |-> p, ref |-> r]]
    /\ pc' = [pc EXCEPT ![c] = l]
    /\ UNCHANGED <<pay, refund, outbox, intent, returned, exposed, deliveries, faults>>

StartCreate(c, p) == Start(c, "create", p, None, "initiate")
StartCapture(c, p) == Start(c, "capture", p, None, "load")
StartCancel(c, p) == Start(c, "cancel", p, None, "load")
StartRefund(c, p, r) == Start(c, "refund", p, r, "load")

Forget(c) ==
    /\ cmd' = [cmd EXCEPT ![c] = NoCommand]
    /\ pc' = [pc EXCEPT ![c] = "idle"]
    /\ UNCHANGED <<pay, refund, outbox, intent, returned, exposed, deliveries>>

(* The caller has read the result.                                         *)
Return(c) == pc[c] \in Results /\ Forget(c) /\ UNCHANGED faults

(* The process that runs the command stops before it has used the result.  *)
Crash(c) == pc[c] # "idle" /\ Fault /\ Forget(c)

-----------------------------------------------------------------------------
(* CreatePayment.                                                          *)

(* First transaction: find the payment or insert it.  A payment that is    *)
(* past "created" is returned as it is.                                    *)
Initiate(c) ==
    /\ At(c, "create", "initiate")
    /\ LET p == cmd[c].pay IN
       \/ /\ pay[p] \in {"absent", "created"}
          /\ pay' = [pay EXCEPT ![p] = "created"]
          /\ Goto(c, "intent")
       \/ /\ pay[p] = "pending"
          /\ Goto(c, "ok")
          /\ UNCHANGED pay
       \/ /\ pay[p] \notin {"absent", "created", "pending"}
          /\ Goto(c, "error")
          /\ UNCHANGED pay
    /\ UNCHANGED <<refund, outbox, cmd, intent, returned, exposed, deliveries, faults>>

(* The idempotency key of the call makes a repetition find the intent.     *)
OpenIntent(p) ==
    intent' = [intent EXCEPT ![p] = IF @ = "none" THEN "requires_confirmation" ELSE @]

CreateIntent(c) ==
    /\ At(c, "create", "intent")
    /\ \/ /\ OpenIntent(cmd[c].pay)
          /\ Goto(c, "attach")
          /\ UNCHANGED faults
       \/ /\ Fault
          /\ OpenIntent(cmd[c].pay) \/ UNCHANGED intent
          /\ Goto(c, "fail")
    /\ UNCHANGED <<pay, refund, outbox, cmd, returned, exposed, deliveries>>

(* Second transaction after a provider error: Fail.                        *)
FailPayment(c) ==
    /\ At(c, "create", "fail")
    /\ LET p == cmd[c].pay IN
       pay' = [pay EXCEPT ![p] = IF Allows(@, "failed") THEN "failed" ELSE @]
    /\ Goto(c, "error")
    /\ UNCHANGED <<refund, outbox, cmd, intent, returned, exposed, deliveries, faults>>

(* Second transaction after an answer: AttachIntent.  The same intent      *)
(* attached twice is no error.                                             *)
AttachIntent(c) ==
    /\ At(c, "create", "attach")
    /\ LET p == cmd[c].pay IN
       \/ /\ pay[p] = "pending" \/ Allows(pay[p], "pending")
          /\ pay' = [pay EXCEPT ![p] = "pending"]
          /\ Goto(c, "ok")
       \/ /\ pay[p] # "pending" /\ ~Allows(pay[p], "pending")
          /\ Goto(c, Refusal(pay[p]))
          /\ UNCHANGED pay
    /\ UNCHANGED <<refund, outbox, cmd, intent, returned, exposed, deliveries, faults>>

-----------------------------------------------------------------------------

(* Faulty: an authorised payment is marked captured without the provider.  *)
CaptureUnasked(c) ==
    /\ At(c, "capture", "load")
    /\ pay[cmd[c].pay] = "authorized"
    /\ Goto(c, "commit")
    /\ UNCHANGED <<pay, refund, outbox, cmd, intent, returned, exposed, deliveries, faults>>

(* CapturePayment.                                                         *)
LoadForCapture(c) ==
    /\ At(c, "capture", "load")
    /\ LET p == cmd[c].pay IN
       \/ pay[p] = "absent" /\ Goto(c, "not_found")
       \/ pay[p] = "captured" /\ Goto(c, "ok")
       \/ pay[p] = "authorized" /\ Goto(c, "lookup")
       \/ pay[p] \notin {"absent", "captured", "authorized"} /\ Goto(c, "transition")
    /\ UNCHANGED <<pay, refund, outbox, cmd, intent, returned, exposed, deliveries, faults>>

(* The provider looks the idempotency key up before, and not together      *)
(* with, the capture itself: a second capture with the same key that       *)
(* misses the stored answer meets a captured intent.                       *)
CaptureLookup(c) ==
    /\ At(c, "capture", "lookup")
    /\ LET p == cmd[c].pay IN
       \/ /\ intent[p] \in {"captured", "refunded"}
          /\ Goto(c, "commit")
          /\ UNCHANGED faults
       \/ /\ intent[p] \notin {"captured", "refunded"}
          /\ Goto(c, "provider")
          /\ UNCHANGED faults
       \/ /\ Fault
          /\ Goto(c, "internal")
    /\ UNCHANGED <<pay, refund, outbox, cmd, intent, returned, exposed, deliveries>>

ProviderCapture(c) ==
    /\ At(c, "capture", "provider")
    /\ LET p == cmd[c].pay IN
       \/ /\ intent[p] = "authorized"
          /\ intent' = [intent EXCEPT ![p] = "captured"]
          /\ \/ Goto(c, "commit") /\ UNCHANGED faults
             \/ Goto(c, "internal") /\ Fault
       \/ /\ intent[p] # "authorized"
          /\ Goto(c, "rejected")
          /\ UNCHANGED <<intent, faults>>
    /\ UNCHANGED <<pay, refund, outbox, cmd, returned, exposed, deliveries>>

CommitCapture(c) ==
    /\ At(c, "capture", "commit")
    /\ LET p == cmd[c].pay IN
       \/ /\ pay[p] = "captured" \/ Allows(pay[p], "captured")
          /\ pay' = [pay EXCEPT ![p] = "captured"]
          /\ Goto(c, "ok")
       \/ /\ pay[p] # "captured" /\ ~Allows(pay[p], "captured")
          /\ Goto(c, Refusal(pay[p]))
          /\ UNCHANGED pay
    /\ UNCHANGED <<refund, outbox, cmd, intent, returned, exposed, deliveries, faults>>

-----------------------------------------------------------------------------
(* CancelPayment.                                                          *)

(* Faulty: only a pending payment is cancelled at the provider.            *)
CancelUnasked(c) ==
    /\ At(c, "cancel", "load")
    /\ Goto(c, IF pay[cmd[c].pay] = "pending" THEN "provider" ELSE "commit")
    /\ UNCHANGED <<pay, refund, outbox, cmd, intent, returned, exposed, deliveries, faults>>

(* Only a payment that was pending or authorised when it was read is       *)
(* cancelled at the provider first.                                        *)
LoadForCancel(c) ==
    /\ At(c, "cancel", "load")
    /\ LET p == cmd[c].pay IN
       \/ pay[p] = "absent" /\ Goto(c, "not_found")
       \/ pay[p] \in {"cancelled", "failed"} /\ Goto(c, "ok")
       \/ pay[p] \in {"pending", "authorized"} /\ Goto(c, "provider")
       \/ pay[p] \in {"created", "captured", "refunded"} /\ Goto(c, "commit")
    /\ UNCHANGED <<pay, refund, outbox, cmd, intent, returned, exposed, deliveries, faults>>

Voided(s) == IF s \in {"requires_confirmation", "authorized"} THEN "cancelled" ELSE s

ProviderCancel(c) ==
    /\ At(c, "cancel", "provider")
    /\ LET p == cmd[c].pay IN
       \/ /\ intent[p] \notin {"captured", "refunded"}
          /\ intent' = [intent EXCEPT ![p] = Voided(@)]
          /\ \/ Goto(c, "commit") /\ UNCHANGED faults
             \/ Goto(c, "internal") /\ Fault
       \/ /\ intent[p] \in {"captured", "refunded"}
          /\ Goto(c, "rejected")
          /\ UNCHANGED <<intent, faults>>
       \/ /\ Fault
          /\ Goto(c, "internal")
          /\ UNCHANGED intent
    /\ UNCHANGED <<pay, refund, outbox, cmd, returned, exposed, deliveries>>

CommitCancel(c) ==
    /\ At(c, "cancel", "commit")
    /\ LET p == cmd[c].pay IN
       \/ /\ pay[p] = "cancelled" \/ Allows(pay[p], "cancelled")
          /\ pay' = [pay EXCEPT ![p] = "cancelled"]
          /\ Goto(c, "ok")
       \/ /\ pay[p] # "cancelled" /\ ~Allows(pay[p], "cancelled")
          /\ Goto(c, Refusal(pay[p]))
          /\ UNCHANGED pay
    /\ UNCHANGED <<refund, outbox, cmd, intent, returned, exposed, deliveries, faults>>

-----------------------------------------------------------------------------

(* Faulty: a refund under way does not count.                              *)
PaidOut(p) == {r \in RefundIds : refund[p][r] = "succeeded"}

(* RefundPayment.                                                          *)
Outstanding(p) == {r \in RefundIds : refund[p][r] \in {"pending", "succeeded"}}

(* The amount is what was refundable when the payment was read: everything *)
(* of a captured payment without an outstanding refund, nothing otherwise. *)
LoadForRefund(c) ==
    /\ At(c, "refund", "load")
    /\ LET p == cmd[c].pay IN
       \/ /\ pay[p] = "absent"
          /\ Goto(c, "not_found")
       \/ /\ pay[p] # "absent"
          /\ Goto(c, IF pay[p] = "captured" /\ Outstanding(p) = {}
                        THEN "request" ELSE "request_nothing")
    /\ UNCHANGED <<pay, refund, outbox, cmd, intent, returned, exposed, deliveries, faults>>

(* A known refund id is answered with the refund as it is, whatever its    *)
(* status, and only a pending one goes on to the provider.                 *)
RequestRefund(c) ==
    /\ cmd[c].op = "refund" /\ pc[c] \in {"request", "request_nothing"}
    /\ LET p == cmd[c].pay
           r == cmd[c].ref IN
       \/ /\ refund[p][r] = "pending"
          /\ Goto(c, "provider")
          /\ UNCHANGED refund
       \/ /\ refund[p][r] \in {"succeeded", "failed"}
          /\ Goto(c, "ok")
          /\ UNCHANGED refund
       \/ /\ refund[p][r] = "none" /\ pay[p] # "captured"
          /\ Goto(c, "transition")
          /\ UNCHANGED refund
       \/ /\ refund[p][r] = "none" /\ pay[p] = "captured" /\ pc[c] = "request_nothing"
          /\ Goto(c, "invalid")
          /\ UNCHANGED refund
       \/ /\ refund[p][r] = "none" /\ pay[p] = "captured" /\ pc[c] = "request"
          /\ IF Outstanding(p) = {}
               THEN /\ refund' = [refund EXCEPT ![p][r] = "pending"]
                    /\ Goto(c, "provider")
               ELSE /\ Goto(c, "exceeds")
                    /\ UNCHANGED refund
    /\ UNCHANGED <<pay, outbox, cmd, intent, returned, exposed, deliveries, faults>>

(* The provider knows a refund by its reference and repeats the answer.    *)
ProviderRefund(c) ==
    /\ At(c, "refund", "provider")
    /\ LET p == cmd[c].pay
           r == cmd[c].ref IN
       \/ /\ returned[p] = r \/ intent[p] = "captured"
          /\ intent' = [intent EXCEPT ![p] = "refunded"]
          /\ returned' = [returned EXCEPT ![p] = r]
          /\ \/ Goto(c, "settled") /\ UNCHANGED faults
             \/ Goto(c, "unsettled") /\ Fault
       \/ /\ returned[p] # r /\ intent[p] # "captured"
          /\ Goto(c, "unsettled")
          /\ UNCHANGED <<intent, returned, faults>>
       \/ /\ Fault
          /\ Goto(c, "unsettled")
          /\ UNCHANGED <<intent, returned>>
    /\ UNCHANGED <<pay, refund, outbox, cmd, exposed, deliveries>>

(* CompleteRefund and FailRefund act on a pending refund only; everything  *)
(* refunded makes the payment refunded.                                    *)
SettleRefund(c) ==
    /\ cmd[c].op = "refund"
    /\ LET p == cmd[c].pay
           r == cmd[c].ref IN
       \/ /\ pc[c] = "settled" /\ refund[p][r] = "pending"
          /\ refund' = [refund EXCEPT ![p][r] = "succeeded"]
          /\ pay' = [pay EXCEPT ![p] = "refunded"]
          /\ Goto(c, "ok")
       \/ /\ pc[c] = "unsettled" /\ refund[p][r] = "pending"
          /\ refund' = [refund EXCEPT ![p][r] = "failed"]
          /\ Goto(c, "error")
          /\ UNCHANGED pay
       \/ /\ pc[c] \in {"settled", "unsettled"} /\ refund[p][r] # "pending"
          /\ Goto(c, IF pc[c] = "settled" THEN "ok" ELSE "error")
          /\ UNCHANGED <<pay, refund>>
    /\ UNCHANGED <<outbox, cmd, intent, returned, exposed, deliveries, faults>>

-----------------------------------------------------------------------------
(* The provider's pay page and its webhooks.                               *)

Confirm(p, s) ==
    /\ p \in exposed
    /\ intent[p] = "requires_confirmation"
    /\ intent' = [intent EXCEPT ![p] = s]
    /\ left' = [left EXCEPT ![p] = Attempts]
    /\ UNCHANGED <<pay, refund, outbox, cmd, pc, returned, exposed, recorded, handling, gone,
                   faults>>

Approve(p) == Confirm(p, "authorized")
Decline(p) == Confirm(p, "failed")

(* A delivery is known by the number that are left with it.  The one under *)
(* way has no entry in handling before its transaction; it gets one when   *)
(* it is about to void, or when the provider gives it up.                  *)
Delivering(p) == left[p] > 0 /\ <<p, left[p], "void">> \notin handling

(* The handler of delivery n is before its transaction.                    *)
Attends(p, n) ==
    \/ n = left[p] /\ Delivering(p)
    \/ <<p, n, "process">> \in handling

(* A 2xx answer stops the deliveries and any other counts one; a lost      *)
(* answer is another, and that to a delivery given up reaches nobody.      *)
Accept(p, n) ==
    \/ left[p] = n /\ left' = [left EXCEPT ![p] = 0] /\ UNCHANGED faults
    \/ left[p] = n /\ left' = [left EXCEPT ![p] = n - 1] /\ Fault
    \/ left[p] # n /\ UNCHANGED <<left, faults>>
Refuse(p, n) == left' = [left EXCEPT ![p] = IF @ = n THEN n - 1 ELSE @]

Acknowledge(p, n) ==
    /\ recorded' = recorded \cup {p}
    /\ handling' = handling \ {<<p, n, "process">>}
    /\ Accept(p, n)

(* One transaction: Authorize, record the event id, save.  A payment that  *)
(* can no longer be authorised is voided at the provider afterwards, and   *)
(* the event id is not recorded.  The event says "authorized" unless the   *)
(* buyer declined, after which the intent stays failed.                    *)
WebhookAuthorized(p, n) ==
    /\ Attends(p, n)
    /\ intent[p] # "failed"
    /\ \/ /\ IsTerminal(pay[p])
          /\ handling' = (handling \ {<<p, n, "process">>}) \cup {<<p, n, "void">>}
          /\ UNCHANGED <<pay, outbox, left, recorded, faults>>
       \/ /\ pay[p] = "pending" /\ p \notin recorded
          /\ pay' = [pay EXCEPT ![p] = "authorized"]
          /\ outbox' = outbox \cup {p}
          /\ Acknowledge(p, n)
       \/ /\ pay[p] \in {"authorized", "captured"}
          /\ Acknowledge(p, n)
          /\ UNCHANGED <<pay, outbox>>
    /\ UNCHANGED <<refund, cmd, pc, intent, returned, exposed, gone>>

WebhookFailed(p, n) ==
    /\ Attends(p, n)
    /\ intent[p] = "failed"
    /\ pay' = [pay EXCEPT ![p] =
                 IF Allows(@, "failed") /\ p \notin recorded THEN "failed" ELSE @]
    /\ Acknowledge(p, n)
    /\ UNCHANGED <<refund, outbox, cmd, pc, intent, returned, exposed, gone>>

(* Faulty: a void that fails counts a delivery, awaited or given up.       *)
VoidRecounted(p, n) ==
    /\ <<p, n, "void">> \in handling
    /\ handling' = handling \ {<<p, n, "void">>}
    /\ left' = [left EXCEPT ![p] = @ - 1]
    /\ IF left[p] = n THEN Fault ELSE UNCHANGED faults
    /\ UNCHANGED <<pay, refund, outbox, cmd, pc, intent, returned, exposed, recorded, gone>>

(* The cancel at the provider that follows a late authorisation.  If it    *)
(* fails, or its answer is lost, the endpoint answers an error.  The       *)
(* context of a handler that was given up is cancelled, under its call.    *)
LateVoid(p, n) ==
    /\ <<p, n, "void">> \in handling
    /\ handling' = handling \ {<<p, n, "void">>}
    /\ \/ /\ intent[p] \notin {"captured", "refunded"}
          /\ intent' = [intent EXCEPT ![p] = Voided(@)]
          /\ Accept(p, n)
       \/ /\ intent[p] \in {"captured", "refunded"}
          /\ Refuse(p, n)
          /\ UNCHANGED <<intent, faults>>
       \/ /\ Refuse(p, n)
          /\ IF left[p] = n THEN Fault ELSE UNCHANGED faults
          /\ UNCHANGED intent
    /\ UNCHANGED <<pay, refund, outbox, cmd, pc, returned, exposed, recorded, gone>>

(* The delivery under way has not reached the endpoint, or its handler     *)
(* goes on without the provider.                                           *)
Abandon(p) ==
    \/ UNCHANGED handling
    \/ Delivering(p) /\ handling' = handling \cup {<<p, left[p], "process">>}

(* The handler of a delivery given up ends with its context, before its    *)
(* transaction is committed.                                               *)
HandlerEnds(p, n) ==
    /\ <<p, n, "process">> \in handling
    /\ handling' = handling \ {<<p, n, "process">>}
    /\ UNCHANGED <<pay, refund, outbox, cmd, pc, intent, returned, exposed, left, recorded, gone,
                   faults>>

(* Faulty: a lost delivery is not attempted again.                         *)
LoseForGood(p) ==
    /\ left[p] > 0 /\ Fault
    /\ left' = [left EXCEPT ![p] = 0]
    /\ Abandon(p)
    /\ UNCHANGED <<pay, refund, outbox, cmd, pc, intent, returned, exposed, recorded, gone>>

(* A delivery is lost, or not answered in time, and the next one begins.   *)
LoseWebhook(p) ==
    /\ left[p] > 0 /\ Fault
    /\ left' = [left EXCEPT ![p] = @ - 1]
    /\ Abandon(p)
    /\ UNCHANGED <<pay, refund, outbox, cmd, pc, intent, returned, exposed, recorded, gone>>

(* The buyer closes the pay page before its answer: the deliveries run in  *)
(* that request, the one under way breaks off and none follows.            *)
BuyerLeaves(p) ==
    /\ left[p] > 0 /\ Fault
    /\ left' = [left EXCEPT ![p] = 0]
    /\ gone' = gone \cup {p}
    /\ Abandon(p)
    /\ UNCHANGED <<pay, refund, outbox, cmd, pc, intent, returned, exposed, recorded>>

-----------------------------------------------------------------------------
(* The callers.  Ordering gives every attempt a fresh payment id, so one   *)
(* creation of it is in flight at a time, and it hands the redirect URL    *)
(* out in a transaction that fails once a compensation, the only source of *)
(* cancellations of a payment not yet handed out, has begun.               *)

Expose(p) ==
    /\ pay[p] = "pending"
    /\ ~InFlight("cancel", p)
    /\ exposed' = exposed \cup {p}
    /\ UNCHANGED <<pay, refund, outbox, cmd, pc, intent, returned, deliveries, faults>>

Request(c, p) ==
    \/ ~InFlight("create", p) /\ StartCreate(c, p)
    \/ StartCapture(c, p)
    \/ StartCancel(c, p)
    \/ \E r \in RefundIds : StartRefund(c, p, r)

Create(c) == Initiate(c) \/ CreateIntent(c) \/ FailPayment(c) \/ AttachIntent(c)
Capture(c) ==
    LoadForCapture(c) \/ CaptureLookup(c) \/ ProviderCapture(c) \/ CommitCapture(c)
Cancel(c) == LoadForCancel(c) \/ ProviderCancel(c) \/ CommitCancel(c)
Refund(c) ==
    LoadForRefund(c) \/ RequestRefund(c) \/ ProviderRefund(c) \/ SettleRefund(c)

Step(c) == Create(c) \/ Capture(c) \/ Cancel(c) \/ Refund(c)
Webhook(p) ==
    \E n \in 1..Attempts : WebhookAuthorized(p, n) \/ WebhookFailed(p, n) \/ LateVoid(p, n)
GivenUp(p) ==
    LoseWebhook(p) \/ BuyerLeaves(p) \/ \E n \in 1..Attempts : HandlerEnds(p, n)
Provider(p) == Approve(p) \/ Decline(p) \/ Webhook(p) \/ GivenUp(p)

Next ==
    \/ \E c \in Callers : Step(c) \/ Return(c) \/ Crash(c)
    \/ \E c \in Callers, p \in Payments : Request(c, p)
    \/ \E p \in Payments : Expose(p) \/ Provider(p)

Fairness ==
    /\ \A c \in Callers : WF_vars(Step(c))
    /\ \A p \in Payments : WF_vars(Webhook(p))

Spec == Init /\ [][Next]_vars /\ Fairness

-----------------------------------------------------------------------------
Command == [op : {"none", "create", "capture", "cancel", "refund"},
            pay : Payments \cup {None}, ref : RefundIds \cup {None}]

(* Every variable stays in its range.                                      *)
TypeOK ==
    /\ pay \in [Payments -> Status]
    /\ refund \in [Payments -> [RefundIds -> RefundStatus]]
    /\ outbox \subseteq Payments
    /\ cmd \in [Callers -> Command]
    /\ pc \in [Callers -> Labels \cup Results \cup {"idle"}]
    /\ intent \in [Payments -> IntentStatus]
    /\ returned \in [Payments -> RefundIds \cup {None}]
    /\ exposed \subseteq Payments
    /\ left \in [Payments -> 0..Attempts]
    /\ recorded \subseteq Payments
    /\ handling \subseteq Payments \X (1..Attempts) \X {"process", "void"}
    /\ gone \subseteq Payments
    /\ faults \in 0..MaxFaults

(* The row never claims money that the provider does not have: a payment   *)
(* recorded as captured was captured there, one recorded as refunded was   *)
(* refunded there by one of its own refunds, and one recorded as cancelled *)
(* or failed is not charged, however commands, webhooks and lost answers   *)
(* interleave.                                                             *)
LedgerAgrees ==
    \A p \in Payments :
       /\ pay[p] = "captured" => intent[p] \in {"captured", "refunded"}
       /\ pay[p] = "refunded" => intent[p] = "refunded"
       /\ pay[p] \in {"cancelled", "failed"} => intent[p] \notin {"captured", "refunded"}

(* A cancellation that reports success leaves neither a hold nor a charge  *)
(* at the provider, so a checkout that ends there costs the buyer nothing. *)
CancelReleasesHold ==
    \A c \in Callers :
       At(c, "cancel", "ok")
          => intent[cmd[c].pay] \notin {"authorized", "captured", "refunded"}

(* A capture that reports success has charged the buyer, whether the       *)
(* command did it, repeated it or found it done.                           *)
CaptureCharges ==
    \A c \in Callers :
       At(c, "capture", "ok")
          => /\ pay[cmd[c].pay] \in {"captured", "refunded"}
             /\ intent[cmd[c].pay] \in {"captured", "refunded"}

(* A payment is refunded at most once, under whatever refund ids and by    *)
(* however many callers: a refund recorded as successful is the one the    *)
(* provider paid out, and no two refunds are both pending or successful,   *)
(* which would promise the buyer more than was paid.                       *)
RefundedOnce ==
    \A p \in Payments : \A r, q \in RefundIds :
       /\ refund[p][r] = "succeeded" => returned[p] = r
       /\ {refund[p][r], refund[p][q]} \subseteq {"pending", "succeeded"} => r = q

(* Nobody is charged on an approval the marketplace has not recorded: a    *)
(* charge at the provider follows the payment.authorized event, written    *)
(* with the status change it announces.                                    *)
ChargeFollowsEvent ==
    \A p \in Payments : intent[p] \in {"captured", "refunded"} => p \in outbox

(* Every approval of the buyer who waits for the answer of the pay page    *)
(* reaches the payment: as long as fewer deliveries are lost or given up   *)
(* than the provider attempts, the payment leaves "pending".  It need not  *)
(* when the buyer leaves.                                                  *)
ApprovalArrives ==
    \A p \in Payments : intent[p] = "authorized" ~> pay[p] # "pending" \/ p \in gone
=============================================================================
