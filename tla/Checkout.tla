------------------------------ MODULE Checkout ------------------------------
(***************************************************************************)
(* The checkout of one order: the saga that ordering runs over the stock   *)
(* reservation, the promo code and the payment, with its compensation.     *)
(*                                                                         *)
(* Workers are goroutines.  Each runs one handler at a time, step by step: *)
(* a step is one transaction of ordering, one call to inventory or pricing *)
(* (atomic there), or the start or the answer of a payment command, whose  *)
(* own steps are those of module Payment.  Any two workers interleave      *)
(* between steps; a worker may stop at any of them.                        *)
(*                                                                         *)
(* Time is abstract: a job may take any time between its query and its     *)
(* work, back-offs and the stall timeout may elapse at any moment, and     *)
(* "late" says that the payment deadline, which is also the end of the     *)
(* reservation's TTL, has passed.                                          *)
(***************************************************************************)
EXTENDS Naturals, FiniteSets

CONSTANTS
    Workers,      \* goroutines
    Roles,        \* worker -> the handlers it may run
    HasPromo,     \* the cart has a promo code
    MaxAttempts,  \* Policy.CompensationAttempts
    MaxTroubles,  \* bound on failed calls, lost answers and stopped workers
    Payments, Attempts, MaxFaults, None,  \* as in module Payment
    first,        \* the payment id chosen when the saga starts
    refundId      \* the refund id chosen when the compensation begins

Handlers == {"place", "event", "expire", "compensate", "stalled",
             "cancel", "retry", "resume"}
Jobs == {"event", "expire", "compensate", "stalled"}

ASSUME CheckoutAssumption ==
    /\ Roles \in [Workers -> SUBSET Handlers]
    /\ HasPromo \in BOOLEAN
    /\ MaxAttempts \in Nat \ {0} /\ MaxTroubles \in Nat
    /\ Attempts \in Nat \ {0} /\ MaxFaults \in Nat
    /\ first \in Payments /\ None \notin Payments \cup {refundId}

VARIABLES
    order,     \* status of the order, "none" before it is saved
    status,    \* status of the saga
    step,      \* step of the saga
    captured,  \* the saga knows that the payment is captured
    done,      \* compensations done
    attempts,  \* failed attempts to compensate
    payment,   \* the payment id of the saga
    stock,     \* state of the reservation
    promo,     \* the redemption of the promo code for this order exists
    late,      \* the deadline has passed
    acked,     \* payments whose payment.authorized event has been consumed
    role,      \* worker -> the handler it runs
    at,        \* worker -> the step of the handler it is at
    subject,   \* worker -> the payment the handler is about
    doing,     \* worker -> the compensation it has read and executes
    troubles,  \* troubles so far
    pay, refund, outbox, cmd, pc, intent, returned, exposed, left, recorded,
    handling, gone, faults  \* as in module Payment

Pay == INSTANCE Payment WITH Callers <- Workers, RefundIds <- {refundId}
Stock == INSTANCE Reservation WITH
            Reservations <- {"reservation"}, state <- [r \in {"reservation"} |-> stock]

sagaVars == <<status, step, captured, done, attempts, payment>>
worker == <<role, at, subject, doing>>
others == <<stock, promo, late, acked, troubles>>
payVars == <<pay, refund, outbox, cmd, pc, intent, returned, exposed, left, recorded,
             handling, gone, faults>>
vars == <<order, sagaVars, others, worker, payVars>>

OrderStatus == {"none", "created", "awaiting_payment", "paid", "shipped",
                "delivered", "completed", "cancelled", "failed"}
SagaStatus == {"none", "running", "completed", "compensating", "compensated", "manual"}
SagaSteps == {"stock_reserved", "promo_redeemed", "awaiting_payment",
              "committing_stock", "stock_committed", "payment_captured", "completed"}
Compensations == {"settle_payment", "return_stock", "release_promo", "close_order"}

Init ==
    /\ order = "none"
    /\ status = "none"
    /\ step = "stock_reserved"
    /\ captured = FALSE
    /\ done = {}
    /\ attempts = 0
    /\ payment = first
    /\ stock = "none"
    /\ promo = FALSE
    /\ late = FALSE
    /\ acked = {}
    /\ role = [w \in Workers |-> "none"]
    /\ at = [w \in Workers |-> "idle"]
    /\ subject = [w \in Workers |-> None]
    /\ doing = [w \in Workers |-> "none"]
    /\ troubles = 0
    /\ Pay!Init

-----------------------------------------------------------------------------
(* The saga aggregate.                                                     *)

Committing == status = "running"
              /\ step \in {"committing_stock", "stock_committed", "payment_captured"}
Expired == status = "running" /\ ~Committing /\ late

Pending == IF status # "compensating" THEN {}
             ELSE (IF HasPromo THEN Compensations ELSE Compensations \ {"release_promo"}) \ done

(* The first of the pending compensations, in the order of the plan.       *)
FirstPending ==
    CASE "settle_payment" \in Pending -> "settle_payment"
      [] "settle_payment" \notin Pending /\ "return_stock" \in Pending -> "return_stock"
      [] Pending \subseteq {"release_promo", "close_order"} /\ "release_promo" \in Pending
            -> "release_promo"
      [] OTHER -> "close_order"

(* A saga that compensates, is compensated or waits for support is left as *)
(* it is.                                                                  *)
BeginCompensation ==
    /\ IF status \in {"running", "completed"}
         THEN status' = "compensating" /\ attempts' = 0
         ELSE UNCHANGED <<status, attempts>>
    /\ UNCHANGED <<step, captured, done, payment>>

Advanced(s) == step' = s /\ UNCHANGED <<status, done, attempts, payment>>

-----------------------------------------------------------------------------
(* Workers.                                                                *)

Goto(w, l) == at' = [at EXCEPT ![w] = l]
MoveTo(w, l) == Goto(w, l) /\ UNCHANGED <<role, subject, doing>>

(* Faulty: the lock of the job is never given back.                        *)
RestLocked(w) ==
    /\ at' = [at EXCEPT ![w] = "idle"]
    /\ subject' = [subject EXCEPT ![w] = None]
    /\ UNCHANGED <<role, doing>>

Rest(w) ==
    /\ role' = [role EXCEPT ![w] = "none"]
    /\ at' = [at EXCEPT ![w] = "idle"]
    /\ subject' = [subject EXCEPT ![w] = None]
    /\ doing' = [doing EXCEPT ![w] = "none"]

Trouble == troubles < MaxTroubles /\ troubles' = troubles + 1

(* A handler of the event that returns no error acknowledges it; any other *)
(* outcome leaves the event to be delivered again.                         *)
Succeed(w) ==
    /\ Rest(w)
    /\ acked' = IF role[w] = "event" THEN acked \cup {subject[w]} ELSE acked
GiveUp(w) == Rest(w) /\ UNCHANGED acked

(* An idle worker takes up a handler; jobs and the event relay are held by *)
(* one worker at a time under an advisory lock.                            *)
TakeUp(w, h, l, p) ==
    /\ at[w] = "idle"
    /\ h \in Roles[w]
    /\ h \in Jobs => \A v \in Workers : role[v] # h
    /\ role' = [role EXCEPT ![w] = h]
    /\ at' = [at EXCEPT ![w] = l]
    /\ subject' = [subject EXCEPT ![w] = p]
    /\ UNCHANGED doing

(* The worker stops; a payment command it runs stops with it.              *)
Stop(w) ==
    /\ at[w] # "idle"
    /\ Rest(w)
    /\ \/ pc[w] = "idle" /\ Trouble /\ UNCHANGED payVars
       \/ Pay!Crash(w) /\ UNCHANGED troubles
    /\ UNCHANGED <<order, sagaVars, stock, promo, late, acked>>

Running(w, l) == at[w] = l /\ pc[w] = "idle"
Answered(w, l) == at[w] = l /\ pc[w] \in Pay!Results

-----------------------------------------------------------------------------
(* PlaceOrder.                                                             *)

Reserve(w) ==
    /\ order = "none" /\ stock = "none"
    /\ TakeUp(w, "place", "save", None)
    /\ stock' = "held"
    /\ UNCHANGED <<order, sagaVars, promo, late, acked, troubles, payVars>>

(* One transaction saves the order and its saga.                           *)
SaveOrder(w) ==
    /\ Running(w, "save")
    /\ \/ /\ order' = "created"
          /\ status' = "running"
          /\ MoveTo(w, IF HasPromo THEN "redeem" ELSE "create")
          /\ UNCHANGED troubles
       \/ /\ Trouble
          /\ MoveTo(w, "unreserve")
          /\ UNCHANGED <<order, status>>
    /\ UNCHANGED <<step, captured, done, attempts, payment, stock, promo, late, acked, payVars>>

Unreserve(w) ==
    /\ Running(w, "unreserve")
    /\ Rest(w)
    /\ \/ /\ stock' = IF stock = "held" THEN "released" ELSE stock
          /\ UNCHANGED troubles
       \/ Trouble /\ UNCHANGED stock
    /\ UNCHANGED <<order, sagaVars, promo, late, acked, payVars>>

(* Pricing may refuse the code: its limits can be used up since the quote. *)
Redeem(w) ==
    /\ Running(w, "redeem")
    /\ \/ promo' = TRUE /\ MoveTo(w, "redeemed") /\ UNCHANGED troubles
       \/ UNCHANGED promo /\ MoveTo(w, "abort") /\ UNCHANGED troubles
       \/ promo' = TRUE /\ MoveTo(w, "abort") /\ Trouble
    /\ UNCHANGED <<order, sagaVars, stock, late, acked, payVars>>

PromoRedeemed(w) ==
    /\ Running(w, "redeemed")
    /\ \/ /\ status = "running"
          /\ Advanced("promo_redeemed")
          /\ MoveTo(w, "create")
       \/ /\ status # "running"
          /\ Rest(w)
          /\ UNCHANGED <<status, step, done, attempts, payment>>
    /\ UNCHANGED <<order, captured, others, payVars>>

CreatePayment(w) ==
    /\ Running(w, "create")
    /\ Pay!StartCreate(w, payment)
    /\ MoveTo(w, "creating")
    /\ UNCHANGED <<order, sagaVars, others>>

PaymentCreated(w) ==
    /\ Answered(w, "creating")
    /\ MoveTo(w, IF pc[w] = "ok" THEN "await" ELSE "abort")
    /\ Pay!Return(w)
    /\ UNCHANGED <<order, sagaVars, others>>

(* Faulty: the order is looked at, the saga is not.                        *)
AwaitUnchecked(w) ==
    /\ Running(w, "await")
    /\ order \in {"created", "awaiting_payment"}
    /\ order' = "awaiting_payment"
    /\ Advanced("awaiting_payment")
    /\ exposed' = exposed \cup {payment}
    /\ Rest(w)
    /\ UNCHANGED <<captured, others, pay, refund, outbox, cmd, pc, intent, returned,
                   left, recorded, handling, gone, faults>>

(* Order.AwaitPayment and CheckoutSaga.AwaitPayment in one transaction;    *)
(* with it the buyer sees the payment and its redirect URL.                *)
AwaitPayment(w) ==
    /\ Running(w, "await")
    /\ \/ /\ status = "running" /\ order \in {"created", "awaiting_payment"}
          /\ order' = "awaiting_payment"
          /\ Advanced("awaiting_payment")
          /\ exposed' = exposed \cup {payment}
       \/ /\ ~(status = "running" /\ order \in {"created", "awaiting_payment"})
          /\ UNCHANGED <<order, status, step, done, attempts, payment, exposed>>
    /\ Rest(w)
    /\ UNCHANGED <<captured, others, pay, refund, outbox, cmd, pc, intent, returned,
                   left, recorded, handling, gone, faults>>

-----------------------------------------------------------------------------
(* PaymentAuthorized, ResumeStalled and advance.                           *)

Proceeds(p) == status = "running" /\ payment = p
               /\ (Committing \/ step = "awaiting_payment")

(* BeginCommit.  An authorisation of another payment than the saga's is    *)
(* cancelled; one that comes too late or too early is ignored.             *)
PaymentAuthorized(w, p) ==
    /\ p \in outbox \ acked
    /\ \/ /\ payment # p
          /\ TakeUp(w, "event", "stray", p)
          /\ UNCHANGED <<sagaVars, acked>>
       \/ /\ Proceeds(p)
          /\ TakeUp(w, "event", "advance", p)
          /\ Advanced(IF step = "awaiting_payment" THEN "committing_stock" ELSE step)
          /\ UNCHANGED <<captured, acked>>
       \/ /\ payment = p /\ ~Proceeds(p)
          /\ at[w] = "idle" /\ "event" \in Roles[w] /\ \A v \in Workers : role[v] # "event"
          /\ acked' = acked \cup {p}
          /\ UNCHANGED <<sagaVars, worker>>
    /\ UNCHANGED <<order, stock, promo, late, troubles, payVars>>

(* Faulty: the authorisation of a superseded payment is only acknowledged. *)
DropStray(w) ==
    /\ Running(w, "stray")
    /\ Succeed(w)
    /\ UNCHANGED <<order, sagaVars, stock, promo, late, troubles, payVars>>

CancelStray(w) ==
    /\ Running(w, "stray")
    /\ Pay!StartCancel(w, subject[w])
    /\ MoveTo(w, "straying")
    /\ UNCHANGED <<order, sagaVars, others>>

StrayCancelled(w) ==
    /\ Answered(w, "straying")
    /\ Pay!Return(w)
    /\ IF pc[w] = "ok" THEN Succeed(w) ELSE GiveUp(w)
    /\ UNCHANGED <<order, sagaVars, stock, promo, late, troubles>>

ResumeStalled(w) ==
    /\ Committing
    /\ TakeUp(w, "stalled", "advance", None)
    /\ UNCHANGED <<order, sagaVars, others, payVars>>

(* advance looks at the step of the saga, not at its status.               *)
Advance(w) ==
    /\ Running(w, "advance")
    /\ \/ /\ step \in {"committing_stock", "stock_committed", "payment_captured"}
          /\ MoveTo(w, CASE step = "committing_stock" -> "commit_stock"
                         [] step = "stock_committed"  -> "capture"
                         [] step = "payment_captured" -> "complete")
          /\ UNCHANGED acked
       \/ /\ step \notin {"committing_stock", "stock_committed", "payment_captured"}
          /\ Succeed(w)
    /\ UNCHANGED <<order, sagaVars, stock, promo, late, troubles, payVars>>

(* Faulty: a reservation that no longer stands counts as committed.        *)
CommitLapsed(w) ==
    /\ Running(w, "commit_stock")
    /\ stock' = IF stock = "held" THEN "committed" ELSE stock
    /\ MoveTo(w, "stock_committed")
    /\ UNCHANGED <<order, sagaVars, promo, late, acked, troubles, payVars>>

(* Faulty: a reservation is committed whatever has become of it.           *)
CommitAnyhow(w) ==
    /\ Running(w, "commit_stock")
    /\ stock' = "committed"
    /\ MoveTo(w, "stock_committed")
    /\ UNCHANGED <<order, sagaVars, promo, late, acked, troubles, payVars>>

CommitStock(w) ==
    /\ Running(w, "commit_stock")
    /\ \/ /\ stock \in {"held", "committed"}
          /\ stock' = "committed"
          /\ MoveTo(w, "stock_committed")
          /\ UNCHANGED <<acked, troubles>>
       \/ /\ stock \notin {"held", "committed"}
          /\ MoveTo(w, "abort")
          /\ UNCHANGED <<stock, acked, troubles>>
       \/ /\ Trouble
          /\ GiveUp(w)
          /\ UNCHANGED stock
    /\ UNCHANGED <<order, sagaVars, promo, late, payVars>>

StockCommitted(w) ==
    /\ Running(w, "stock_committed")
    /\ \/ /\ status = "running"
          /\ Advanced("stock_committed")
          /\ MoveTo(w, "capture")
       \/ /\ status # "running"
          /\ GiveUp(w)
          /\ UNCHANGED <<status, step, done, attempts, payment>>
    /\ UNCHANGED <<order, captured, others, payVars>>

CapturePayment(w) ==
    /\ Running(w, "capture")
    /\ Pay!StartCapture(w, payment)
    /\ MoveTo(w, "capturing")
    /\ UNCHANGED <<order, sagaVars, others>>

(* Faulty: an internal error of the capture is passed over.                *)
AnsweredAnyhow(w) ==
    /\ Answered(w, "capturing")
    /\ Pay!Return(w)
    /\ MoveTo(w, IF pc[w] \in {"ok", "internal"} THEN "captured" ELSE "abort")
    /\ UNCHANGED <<order, sagaVars, others>>

(* Only an internal error leaves the saga to the stalled job.              *)
PaymentAnswered(w) ==
    /\ Answered(w, "capturing")
    /\ Pay!Return(w)
    /\ \/ pc[w] = "ok" /\ MoveTo(w, "captured")
       \/ pc[w] = "internal" /\ GiveUp(w)
       \/ pc[w] \notin {"ok", "internal"} /\ MoveTo(w, "abort")
    /\ UNCHANGED <<order, sagaVars, others>>

PaymentCaptured(w) ==
    /\ Running(w, "captured")
    /\ \/ /\ status = "running"
          /\ captured' = TRUE
          /\ Advanced("payment_captured")
          /\ MoveTo(w, "complete")
       \/ /\ status # "running"
          /\ GiveUp(w)
          /\ UNCHANGED sagaVars
    /\ UNCHANGED <<order, others, payVars>>

(* Order.MarkPaid and CheckoutSaga.Complete in one transaction; an order   *)
(* that can no longer be paid aborts the checkout, whatever its saga says. *)
Complete(w) ==
    /\ Running(w, "complete")
    /\ \/ /\ order \in {"awaiting_payment", "paid"} /\ status \in {"running", "completed"}
          /\ order' = "paid"
          /\ status' = "completed"
          /\ step' = "completed"
          /\ attempts' = IF status = "running" THEN 0 ELSE attempts
          /\ Succeed(w)
       \/ /\ order \in {"awaiting_payment", "paid"} /\ status \notin {"running", "completed"}
          /\ GiveUp(w)
          /\ UNCHANGED <<order, status, step, attempts>>
       \/ /\ order \notin {"awaiting_payment", "paid"}
          /\ MoveTo(w, "abort")
          /\ UNCHANGED <<order, status, step, attempts, acked>>
    /\ UNCHANGED <<captured, done, payment, stock, promo, late, troubles, payVars>>

-----------------------------------------------------------------------------
(* Compensator.                                                            *)

Abort(w) ==
    /\ Running(w, "abort")
    /\ BeginCompensation
    /\ MoveTo(w, "run")
    /\ UNCHANGED <<order, others, payVars>>

(* The loop of Run: read the saga, take its first pending compensation.    *)
Run(w) ==
    /\ Running(w, "run")
    /\ \/ /\ Pending # {}
          /\ Goto(w, FirstPending)
          /\ doing' = [doing EXCEPT ![w] = FirstPending]
          /\ UNCHANGED <<role, subject, acked>>
       \/ /\ Pending = {}
          /\ Succeed(w)
    /\ UNCHANGED <<order, sagaVars, stock, promo, late, troubles, payVars>>

(* Faulty: an approved payment is left alone.                              *)
NotApproved == {"created", "pending"}

(* The statuses settlePayment answers with a cancellation.                 *)
Uncharged == {"created", "pending", "authorized"}

(* settlePayment: what it does depends on the payment it has looked up.    *)
SettlePayment(w) ==
    /\ Running(w, "settle_payment")
    /\ \/ /\ pay[payment] \notin Uncharged \cup {"captured"}
          /\ MoveTo(w, "executed")
          /\ UNCHANGED troubles
       \/ /\ pay[payment] \in Uncharged
          /\ MoveTo(w, "cancel_payment")
          /\ UNCHANGED troubles
       \/ /\ pay[payment] = "captured"
          /\ MoveTo(w, "refund_payment")
          /\ UNCHANGED troubles
       \/ /\ Trouble
          /\ MoveTo(w, "not_executed")
    /\ UNCHANGED <<order, sagaVars, stock, promo, late, acked, payVars>>

CancelPayment(w) ==
    /\ Running(w, "cancel_payment")
    /\ Pay!StartCancel(w, payment)
    /\ MoveTo(w, "cancelling")
    /\ UNCHANGED <<order, sagaVars, others>>

(* A payment that has moved on meanwhile is refunded instead.              *)
PaymentCancelled(w) ==
    /\ Answered(w, "cancelling")
    /\ Pay!Return(w)
    /\ MoveTo(w, CASE pc[w] = "ok"         -> "executed"
                   [] pc[w] = "transition" -> "refund_payment"
                   [] OTHER                -> "not_executed")
    /\ UNCHANGED <<order, sagaVars, others>>

RefundPayment(w) ==
    /\ Running(w, "refund_payment")
    /\ Pay!StartRefund(w, payment, refundId)
    /\ MoveTo(w, "refunding")
    /\ UNCHANGED <<order, sagaVars, others>>

PaymentRefunded(w) ==
    /\ Answered(w, "refunding")
    /\ Pay!Return(w)
    /\ MoveTo(w, IF pc[w] = "ok" THEN "executed" ELSE "not_executed")
    /\ UNCHANGED <<order, sagaVars, others>>

(* returnStock: a reservation that cannot be released may have been sold.  *)
ReleaseStock(w) ==
    /\ Running(w, "return_stock")
    /\ \/ /\ stock \in {"none", "held", "released"}
          /\ stock' = IF stock = "held" THEN "released" ELSE stock
          /\ MoveTo(w, "executed")
          /\ UNCHANGED troubles
       \/ /\ stock \in {"committed", "restored", "lapsed"}
          /\ MoveTo(w, "restore_stock")
          /\ UNCHANGED <<stock, troubles>>
       \/ /\ Trouble
          /\ MoveTo(w, "not_executed")
          /\ UNCHANGED stock
    /\ UNCHANGED <<order, sagaVars, promo, late, acked, payVars>>

RestoreStock(w) ==
    /\ Running(w, "restore_stock")
    /\ \/ /\ stock' = IF stock = "committed" THEN "restored" ELSE stock
          /\ MoveTo(w, "executed")
          /\ UNCHANGED troubles
       \/ /\ Trouble
          /\ MoveTo(w, "not_executed")
          /\ UNCHANGED stock
    /\ UNCHANGED <<order, sagaVars, promo, late, acked, payVars>>

ReleasePromo(w) ==
    /\ Running(w, "release_promo")
    /\ \/ promo' = FALSE /\ MoveTo(w, "executed") /\ UNCHANGED troubles
       \/ Trouble /\ MoveTo(w, "not_executed") /\ UNCHANGED promo
    /\ UNCHANGED <<order, sagaVars, stock, late, acked, payVars>>

CloseOrder(w) ==
    /\ Running(w, "close_order")
    /\ \/ /\ order' = IF order \in {"created", "awaiting_payment"} THEN "failed" ELSE order
          /\ MoveTo(w, "executed")
          /\ UNCHANGED troubles
       \/ /\ Trouble
          /\ MoveTo(w, "not_executed")
          /\ UNCHANGED order
    /\ UNCHANGED <<sagaVars, stock, promo, late, acked, payVars>>

Compensated(w) ==
    /\ Running(w, "executed")
    /\ done' = done \cup {doing[w]}
    /\ status' = IF status = "compensating" /\ Pending \subseteq {doing[w]}
                   THEN "compensated" ELSE status
    /\ Goto(w, "run")
    /\ doing' = [doing EXCEPT ![w] = "none"]
    /\ UNCHANGED <<role, subject, order, step, captured, attempts, payment, others, payVars>>

(* The status is not looked at: whoever fails too often hands the saga to  *)
(* support.                                                                *)
CompensationFailed(w) ==
    /\ Running(w, "not_executed")
    /\ attempts' = IF attempts < MaxAttempts THEN attempts + 1 ELSE attempts
    /\ status' = IF attempts + 1 >= MaxAttempts THEN "manual" ELSE status
    /\ GiveUp(w)
    /\ UNCHANGED <<order, step, captured, done, payment, stock, promo, late, troubles, payVars>>

-----------------------------------------------------------------------------
(* The jobs that compensate, and the buyer's and support's requests.       *)

(* The query of ExpireCheckouts and, later, its decision on the locked row.*)
ExpireCheckouts(w) ==
    /\ Expired
    /\ TakeUp(w, "expire", "expire", None)
    /\ UNCHANGED <<order, sagaVars, others, payVars>>

ExpireCheckout(w) ==
    /\ Running(w, "expire")
    /\ \/ Expired /\ BeginCompensation /\ MoveTo(w, "run")
       \/ ~Expired /\ Rest(w) /\ UNCHANGED sagaVars
    /\ UNCHANGED <<order, others, payVars>>

(* Faulty: only a compensation that has not failed yet is run.             *)
RunUnfailed(w) ==
    /\ status = "compensating" /\ attempts = 0
    /\ TakeUp(w, "compensate", "run", None)
    /\ UNCHANGED <<order, sagaVars, others, payVars>>

RunCompensations(w) ==
    /\ status = "compensating"
    /\ TakeUp(w, "compensate", "run", None)
    /\ UNCHANGED <<order, sagaVars, others, payVars>>

CancelOrder(w) ==
    /\ order \in {"created", "awaiting_payment", "paid", "cancelled"}
    /\ ~Committing
    /\ TakeUp(w, "cancel", "run", None)
    /\ order' = "cancelled"
    /\ BeginCompensation
    /\ UNCHANGED <<others, payVars>>

ResumeSaga(w) ==
    /\ status = "manual"
    /\ TakeUp(w, "resume", "run", None)
    /\ status' = "compensating"
    /\ attempts' = 0
    /\ UNCHANGED <<order, step, captured, done, payment, others, payVars>>

FreshPayments ==
    {p \in Payments \ {first} : pay[p] = "absent" /\ \A v \in Workers : subject[v] # p}

(* RetryPayment: the buyer asks to pay again.  Only a declined payment is  *)
(* replaced; a pending one is answered with the URL it already has.  The   *)
(* payments left bound the number of attempts.                             *)
RetryPayment(w) ==
    /\ status = "running" /\ step = "awaiting_payment" /\ ~Expired
    /\ Cardinality(FreshPayments)
          > Cardinality({v \in Workers : at[v] \in {"look_up", "recreate"}})
    /\ TakeUp(w, "retry", "look_up", payment)
    /\ UNCHANGED <<order, sagaVars, others, payVars>>

LookUpPayment(w) ==
    /\ Running(w, "look_up")
    /\ IF pay[subject[w]] \in {"failed", "cancelled"} THEN MoveTo(w, "recreate") ELSE Rest(w)
    /\ UNCHANGED <<order, sagaVars, others, payVars>>

RecreatePayment(w) ==
    /\ Running(w, "recreate")
    /\ \E p \in FreshPayments :
          /\ Pay!StartCreate(w, p)
          /\ subject' = [subject EXCEPT ![w] = p]
    /\ Goto(w, "recreating")
    /\ UNCHANGED <<order, sagaVars, others, role, doing>>

PaymentRecreated(w) ==
    /\ Answered(w, "recreating")
    /\ Pay!Return(w)
    /\ IF pc[w] = "ok" THEN MoveTo(w, "change") ELSE Rest(w)
    /\ UNCHANGED <<order, sagaVars, others>>

ChangePayment(w) ==
    /\ Running(w, "change")
    /\ LET accepted == /\ status = "running" /\ step = "awaiting_payment"
                       /\ order = "awaiting_payment" IN
       \/ /\ accepted
          /\ payment' = subject[w]
          /\ exposed' = exposed \cup {subject[w]}
          /\ Rest(w)
       \/ /\ ~accepted
          /\ MoveTo(w, "cancel_retry")
          /\ UNCHANGED <<payment, exposed>>
    /\ UNCHANGED <<order, status, step, captured, done, attempts, others, pay, refund, outbox,
                   cmd, pc, intent, returned, left, recorded, handling, gone, faults>>

CancelRetry(w) ==
    /\ Running(w, "cancel_retry")
    /\ Pay!StartCancel(w, subject[w])
    /\ MoveTo(w, "retry_cancelling")
    /\ UNCHANGED <<order, sagaVars, others>>

RetryCancelled(w) ==
    /\ Answered(w, "retry_cancelling")
    /\ Pay!Return(w)
    /\ Rest(w)
    /\ UNCHANGED <<order, sagaVars, others>>

-----------------------------------------------------------------------------
(* The seller, the clock, inventory's expiry job and the payment context.  *)

Deliver(from, to) == order = from /\ order' = to
Fulfil ==
    /\ Deliver("paid", "shipped") \/ Deliver("shipped", "delivered")
          \/ Deliver("delivered", "completed")
    /\ UNCHANGED <<sagaVars, others, worker, payVars>>

DeadlinePasses ==
    /\ ~late /\ stock # "none"
    /\ late' = TRUE
    /\ UNCHANGED <<order, sagaVars, stock, promo, acked, troubles, worker, payVars>>

Lapse ==
    /\ late
    /\ stock = "held" /\ stock' = "lapsed"
    /\ UNCHANGED <<order, sagaVars, promo, late, acked, troubles, worker, payVars>>

CommandStep(w) == Pay!Step(w) /\ UNCHANGED <<order, sagaVars, others, worker>>
Webhook(p) == Pay!Webhook(p) /\ UNCHANGED <<order, sagaVars, others, worker>>
Provider(p) == Pay!Provider(p) /\ UNCHANGED <<order, sagaVars, others, worker>>

Place(w) ==
    SaveOrder(w) \/ Unreserve(w) \/ Redeem(w) \/ PromoRedeemed(w) \/ CreatePayment(w)
    \/ PaymentCreated(w) \/ AwaitPayment(w)
Progress(w) ==
    CancelStray(w) \/ StrayCancelled(w) \/ Advance(w) \/ CommitStock(w) \/ StockCommitted(w)
    \/ CapturePayment(w) \/ PaymentAnswered(w) \/ PaymentCaptured(w) \/ Complete(w)
Compensate(w) ==
    Abort(w) \/ Run(w) \/ SettlePayment(w) \/ CancelPayment(w) \/ PaymentCancelled(w)
    \/ RefundPayment(w) \/ PaymentRefunded(w) \/ ReleaseStock(w) \/ RestoreStock(w)
    \/ ReleasePromo(w) \/ CloseOrder(w) \/ Compensated(w) \/ CompensationFailed(w)
    \/ ExpireCheckout(w)
Retry(w) ==
    LookUpPayment(w) \/ RecreatePayment(w) \/ PaymentRecreated(w) \/ ChangePayment(w)
    \/ CancelRetry(w) \/ RetryCancelled(w)

Work(w) == Place(w) \/ Progress(w) \/ Compensate(w) \/ Retry(w)
Job(w) ==
    \/ \E p \in Payments : PaymentAuthorized(w, p)
    \/ ResumeStalled(w) \/ ExpireCheckouts(w) \/ RunCompensations(w)
Request(w) == Reserve(w) \/ CancelOrder(w) \/ ResumeSaga(w) \/ RetryPayment(w)

Next ==
    \/ \E w \in Workers : Work(w) \/ Job(w) \/ Request(w) \/ CommandStep(w) \/ Stop(w)
    \/ \E p \in Payments : Provider(p)
    \/ Fulfil \/ DeadlinePasses \/ Lapse

(* Handlers go on; the outbox relay and the scheduler of the worker        *)
(* process start their work again and again; the clock advances, and the   *)
(* provider calls back.  Nothing makes a buyer pay, cancel or retry, a     *)
(* seller ship, or support resume a saga.                                  *)
Fairness ==
    /\ \A w \in Workers : WF_vars(Work(w)) /\ WF_vars(CommandStep(w))
    /\ \A p \in Payments : WF_vars(Webhook(p))
    /\ \A p \in Payments : SF_vars(\E w \in Workers : PaymentAuthorized(w, p))
    /\ SF_vars(\E w \in Workers : ResumeStalled(w))
    /\ SF_vars(\E w \in Workers : ExpireCheckouts(w))
    /\ SF_vars(\E w \in Workers : RunCompensations(w))
    /\ WF_vars(DeadlinePasses) /\ WF_vars(Lapse)

Spec == Init /\ [][Next]_vars /\ Fairness

-----------------------------------------------------------------------------
Steps == {"idle", "save", "unreserve", "redeem", "redeemed", "create", "creating", "await",
          "stray", "straying", "advance", "commit_stock", "stock_committed", "capture",
          "capturing", "captured", "complete", "abort", "run", "cancel_payment", "cancelling",
          "refund_payment", "refunding", "restore_stock", "executed", "not_executed", "expire",
          "look_up", "recreate", "recreating", "change", "cancel_retry", "retry_cancelling"}
         \cup Compensations

(* Every variable stays in its range, and only a worker with a handler has *)
(* a step to go on with.                                                   *)
TypeOK ==
    /\ order \in OrderStatus
    /\ status \in SagaStatus
    /\ step \in SagaSteps
    /\ captured \in BOOLEAN
    /\ done \subseteq Compensations
    /\ attempts \in 0..MaxAttempts
    /\ payment \in Payments
    /\ stock \in {"none", "held", "committed", "released", "lapsed", "restored"}
    /\ promo \in BOOLEAN /\ late \in BOOLEAN
    /\ acked \subseteq Payments
    /\ role \in [Workers -> Handlers \cup {"none"}]
    /\ at \in [Workers -> Steps]
    /\ subject \in [Workers -> Payments \cup {None}]
    /\ doing \in [Workers -> Compensations \cup {"none"}]
    /\ troubles \in 0..MaxTroubles
    /\ \A w \in Workers : role[w] = "none" <=> at[w] = "idle"
    /\ Pay!TypeOK

(* The checkout uses the contexts it calls as they assume it: one creation *)
(* of a payment at a time, a redirect URL handed out only while the        *)
(* payment is pending and nobody is cancelling it, and a reservation that  *)
(* moves along its life only, whichever handlers of ordering run side by   *)
(* side.                                                                   *)
UsesContexts ==
    /\ Pay!Init /\ [][Pay!Next]_payVars
    /\ Stock!Init /\ [][Stock!Next]_stock

(* A checkout that is reported complete has charged the buyer, sold the    *)
(* units and used the promo code, and its order is paid or further on, as  *)
(* long as no compensation has begun.                                      *)
CompletedMeansPaid ==
    status = "completed" =>
       /\ order \in {"paid", "shipped", "delivered", "completed"}
       /\ pay[payment] = "captured" /\ intent[payment] = "captured"
       /\ stock = "committed"
       /\ promo = HasPromo

(* A compensated checkout holds no unit and no authorisation, its order is *)
(* neither open nor awaiting payment, and money is left at the provider    *)
(* only if the payment context has recorded the refund as failed.          *)
CompensatedSettles ==
    status = "compensated" =>
       /\ stock \notin {"held", "committed"}
       /\ order \notin {"created", "awaiting_payment"}
       /\ intent[payment] # "authorized"
       /\ intent[payment] = "captured" => refund[payment][refundId] = "failed"

(* A closed order is not left with a checkout that could still charge for  *)
(* it: cancelling or failing the order and turning the saga round are one  *)
(* decision.                                                               *)
ClosedMeansCompensating ==
    order \in {"cancelled", "failed"} => status \in {"compensating", "compensated", "manual"}

(* An order the seller may ship, or has shipped, is paid for and its units *)
(* are sold.                                                               *)
PaidIsKept ==
    order \in {"paid", "shipped", "delivered", "completed"} =>
       intent[payment] = "captured" /\ stock = "committed"

(* Order, saga, payment and stock agree on who won: cancelling the order   *)
(* or paying for it, whatever ran at the same time.                        *)
OrderMatchesSaga == ClosedMeansCompensating /\ PaidIsKept

(* Money goes back to the buyer before an order is handed over to the      *)
(* delivery, never after: what is shipped stays charged and sold.          *)
ShippedIsKept ==
    order \in {"shipped", "delivered", "completed"} =>
       intent[payment] = "captured" /\ stock = "committed"

(* What has been compensated stays so.  Goroutines that are still at an    *)
(* older step of the checkout - a second compensation, a commit, a         *)
(* capture, the expiry - take no unit, no money and no order for it again; *)
(* a slow one that fails may only hand it to support.                      *)
CompensationIsFinal ==
    [][Compensations \ {"release_promo"} \subseteq done =>
          /\ status' \in {status, "compensated", "compensating", "manual"}
          /\ stock' = stock
          /\ order' = "paid" => order = "paid"
          /\ intent'[payment] \in {"authorized", "captured"} => UNCHANGED intent]_vars

(* A compensated checkout leaves no money of the buyer at the provider.    *)
MoneyBack ==
    status = "compensated" => intent[payment] \notin {"authorized", "captured"}

(* A compensated checkout gives the use of the promo code back.            *)
PromoBack == status = "compensated" => ~promo

(* Every checkout comes to an end: it completes, is compensated or is      *)
(* handed to support, whether the buyer pays, declines or leaves, and      *)
(* whichever worker stops at whichever step.                               *)
CheckoutsEnd ==
    status \in {"running", "compensating"} ~> status \in {"completed", "compensated", "manual"}

(* No reservation is held forever, not even one whose order was never      *)
(* saved.                                                                  *)
UnitsSettle == stock = "held" ~> stock # "held"

(* Neither the money nor the units of a buyer stay bound for ever.         *)
Settles == CheckoutsEnd /\ UnitsSettle

(* No authorisation is left hanging on the buyer's account: each is        *)
(* captured or voided, including that of a payment a retry has superseded. *)
AuthorisationsSettle ==
    \A p \in Payments : intent[p] = "authorized" ~> intent[p] # "authorized"
=============================================================================
