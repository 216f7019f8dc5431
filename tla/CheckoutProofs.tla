--------------------------- MODULE CheckoutProofs ---------------------------
(***************************************************************************)
(* Proofs about the checkout, for any workers and roles, any number of     *)
(* payments, attempts and faults: it uses payment and inventory as they    *)
(* assume, a checkout that is complete is charged and sold, one that is    *)
(* compensated leaves nothing bound, and order and saga agree on who won   *)
(* as long as one worker advances the saga.                                *)
(*                                                                         *)
(* The invariant has two halves.  CInv says what the saga and the workers  *)
(* may rely on at each of their steps.  The other half is that of module   *)
(* PaymentProofs, of which each needs the other: the payment context keeps *)
(* its invariant because the workers call it as they do, and the workers   *)
(* rely on what its answers mean.  Hence one induction over both.          *)
(***************************************************************************)
EXTENDS Checkout, TLAPS

(* Where a worker is: placing the order, on the way to charging for it,    *)
(* undoing it, or replacing a declined payment.                            *)
PlaceAt == {"save", "unreserve", "redeem", "redeemed", "create", "creating", "await"}
CommitAt == {"commit_stock", "stock_committed", "capture", "capturing", "captured", "complete"}
SettleAt == {"settle_payment", "cancel_payment", "cancelling", "refund_payment", "refunding"}
StockAt == {"return_stock", "restore_stock"}
UndoAt == SettleAt \cup StockAt
          \cup {"release_promo", "close_order", "executed", "not_executed"}
RetryAt == {"recreating", "change", "cancel_retry", "retry_cancelling"}

Early == {"stock_reserved", "promo_redeemed"}
Charging == {"committing_stock", "stock_committed", "payment_captured"}
Paid == {"paid", "shipped", "delivered", "completed"}

(* The saga has turned round, for good.                                    *)
Turned == status \in {"compensating", "compensated", "manual"}

(* The payment command of a worker is the one of the step it is at.        *)
CommandOK(w) ==
    /\ at[w] \in {"creating", "recreating"} <=> cmd[w].op = "create"
    /\ at[w] \in {"straying", "cancelling", "retry_cancelling"} <=> cmd[w].op = "cancel"
    /\ at[w] = "capturing" <=> cmd[w].op = "capture"
    /\ at[w] = "refunding" <=> cmd[w].op = "refund"
    /\ at[w] = "creating" => cmd[w].pay = first
    /\ at[w] \in {"recreating", "straying", "retry_cancelling"} => cmd[w].pay = subject[w]
    /\ at[w] \in {"cancelling", "capturing", "refunding"} => cmd[w].pay = payment
    /\ at[w] = "refunding" => cmd[w].ref = refundId

(* Until the order is placed nobody but its request is at work on it.      *)
PlaceOK(w) ==
    at[w] \in PlaceAt =>
       /\ stock # "none" /\ payment = first /\ first \notin exposed
       /\ step \in Early
       /\ at[w] \in {"save", "unreserve"} <=> order = "none"
       /\ at[w] \in {"redeem", "redeemed"} => HasPromo
       /\ at[w] \in {"redeemed", "create", "creating", "await"} /\ ~Turned => (promo <=> HasPromo)
       /\ at[w] = "await" \/ (at[w] = "creating" /\ pc[w] = "ok")
             => status # "running" \/ pay[first] = "pending"

OnePlaces ==
    \A v, w \in Workers : at[v] \in PlaceAt /\ at[w] \in PlaceAt => v = w

(* Order and saga are saved together, and the order is open until it is    *)
(* paid or the saga turns round.                                           *)
SagaOK ==
    /\ status = "none" <=> order = "none"
    /\ order # "none" => stock # "none"
    /\ status = "completed" <=> step = "completed" /\ ~Turned
    /\ status \in {"none", "running"} => order \in {"none", "created", "awaiting_payment"}
    /\ status = "none" => step = "stock_reserved" /\ payment = first /\ first \notin exposed
    /\ status = "completed" => order \in Paid
    /\ promo => HasPromo
    /\ payment = first \/ payment \in exposed

(* What each step on the way to the charge has achieved, while the saga    *)
(* has not turned.                                                         *)
HasCommitted ==
    \/ step \in {"stock_committed", "payment_captured", "completed"}
    \/ \E w \in Workers : at[w] \in CommitAt \ {"commit_stock"}
HasCaptured ==
    \/ step \in {"payment_captured", "completed"}
    \/ \E w \in Workers : at[w] \in {"captured", "complete"}

ProgressOK ==
    /\ \A w \in Workers : at[w] \in CommitAt => step \in Charging \cup {"completed"}
    /\ ~Turned =>
         /\ HasCommitted => stock = "committed"
         /\ HasCaptured => pay[payment] = "captured"
         /\ step # "stock_reserved" => (promo <=> HasPromo)
         /\ \A p \in Payments : intent[p] # "refunded"

(* A compensation that is done has had its effect, and keeps it.           *)
EffectOK(c) ==
    /\ c = "settle_payment" =>
          \/ payment \notin exposed
          \/ pay[payment] \in {"cancelled", "failed"}
          \/ intent[payment] = "refunded"
          \/ refund[payment][refundId] = "failed"
    /\ c = "return_stock" => stock \notin {"held", "committed"}
    /\ c = "close_order" => order \notin {"created", "awaiting_payment"}

UndoOK(w) ==
    /\ at[w] \in UndoAt => Turned
    /\ at[w] \in SettleAt => doing[w] = "settle_payment"
    /\ at[w] \in StockAt => doing[w] = "return_stock"
    /\ at[w] \in {"release_promo", "close_order"} => doing[w] = at[w]
    /\ at[w] = "restore_stock" => stock \in {"committed", "restored", "lapsed"}
    /\ at[w] = "executed" => doing[w] \in Compensations /\ EffectOK(doing[w])

DoneOK ==
    /\ done # {} => Turned
    /\ \A c \in done : EffectOK(c)
    /\ status = "compensated" => {"settle_payment", "return_stock", "close_order"} \subseteq done

(* A payment that a retry has created is its own until it is handed out.   *)
RetryOK(w) ==
    /\ role[w] = "event" => subject[w] \in Payments
    /\ at[w] \in {"stray", "straying"} => subject[w] \in outbox
    /\ at[w] \in RetryAt =>
         /\ subject[w] \in Payments \ {first} /\ subject[w] \notin exposed
         /\ \A v \in Workers \ {w} : at[v] \in RetryAt => subject[v] # subject[w]
         /\ at[w] = "change" \/ (at[w] = "recreating" /\ pc[w] = "ok")
               => pay[subject[w]] = "pending"

CInv ==
    /\ TypeOK
    /\ \A w \in Workers : CommandOK(w)
    /\ \A w \in Workers : PlaceOK(w)
    /\ OnePlaces
    /\ SagaOK
    /\ ProgressOK
    /\ \A w \in Workers : UndoOK(w)
    /\ DoneOK
    /\ \A w \in Workers : RetryOK(w)
    /\ ClosedMeansCompensating


-----------------------------------------------------------------------------
(* The payment context with its theorems, as the checkout uses it.  Its    *)
(* operators are those of Pay, under other names, as SamePayment shows.    *)
PP == INSTANCE PaymentProofs WITH Callers <- Workers, RefundIds <- {refundId}

(* PP is Pay, definition by definition.                                    *)
LEMMA SamePayment ==
    /\ Pay!Init => PP!Init
    /\ [Pay!Next]_payVars => [PP!Next]_(PP!vars)
    /\ \A w \in Workers : Pay!Step(w) => PP!Step(w)
    /\ \A p \in Payments : Pay!Provider(p) => PP!Provider(p)
    /\ \A p \in Payments : PP!InFlight("create", p) => Pay!InFlight("create", p)
    /\ \A p \in Payments : PP!InFlight("cancel", p) => Pay!InFlight("cancel", p)
    /\ PP!TypeOK <=> Pay!TypeOK
    /\ PP!Labels = Pay!Labels /\ PP!Results = Pay!Results
<1> USE DEF Pay!NoCommand, PP!NoCommand, Pay!At, PP!At, Pay!Goto, PP!Goto, Pay!Fault, PP!Fault,
           Pay!InFlight, PP!InFlight, Pay!Start, PP!Start, Pay!StartCreate, PP!StartCreate,
           Pay!StartCapture, PP!StartCapture, Pay!StartCancel, PP!StartCancel, Pay!StartRefund,
           PP!StartRefund, Pay!Forget, PP!Forget, Pay!Return, PP!Return, Pay!Crash, PP!Crash,
           Pay!Initiate, PP!Initiate, Pay!OpenIntent, PP!OpenIntent, Pay!CreateIntent,
           PP!CreateIntent, Pay!FailPayment, PP!FailPayment, Pay!AttachIntent, PP!AttachIntent,
           Pay!LoadForCapture, PP!LoadForCapture, Pay!CaptureLookup, PP!CaptureLookup,
           Pay!ProviderCapture, PP!ProviderCapture, Pay!CommitCapture, PP!CommitCapture,
           Pay!LoadForCancel, PP!LoadForCancel, Pay!Voided, PP!Voided, Pay!ProviderCancel,
           PP!ProviderCancel, Pay!CommitCancel, PP!CommitCancel, Pay!Outstanding, PP!Outstanding,
           Pay!LoadForRefund, PP!LoadForRefund, Pay!RequestRefund, PP!RequestRefund,
           Pay!ProviderRefund, PP!ProviderRefund, Pay!SettleRefund, PP!SettleRefund, Pay!Confirm,
           PP!Confirm, Pay!Approve, PP!Approve, Pay!Decline, PP!Decline, Pay!Delivering,
           PP!Delivering, Pay!Acknowledge, PP!Acknowledge, Pay!WebhookAuthorized,
           PP!WebhookAuthorized, Pay!WebhookFailed, PP!WebhookFailed, Pay!LateVoid, PP!LateVoid,
           Pay!LoseWebhook, PP!LoseWebhook, Pay!Attends, PP!Attends, Pay!Accept, PP!Accept,
           Pay!Refuse, PP!Refuse, Pay!Abandon, PP!Abandon, Pay!HandlerEnds, PP!HandlerEnds,
           Pay!BuyerLeaves, PP!BuyerLeaves, Pay!GivenUp, PP!GivenUp, Pay!Expose, PP!Expose, Pay!Request, PP!Request,
           Pay!Create, PP!Create, Pay!Capture, PP!Capture, Pay!Cancel, PP!Cancel, Pay!Refund,
           PP!Refund, Pay!Step, PP!Step, Pay!Webhook, PP!Webhook, Pay!Provider, PP!Provider,
           Pay!Next, PP!Next, Pay!Init, PP!Init, Pay!TypeOK, PP!TypeOK, Pay!Command, PP!Command,
           Pay!Status, PP!Status, Pay!RefundStatus, PP!RefundStatus, Pay!IntentStatus,
           PP!IntentStatus, Pay!deliveries, PP!deliveries, Pay!Labels, PP!Labels, Pay!Results,
           PP!Results, Pay!Allows, PP!Allows, Pay!IsTerminal, PP!IsTerminal, Pay!Refusal,
           PP!Refusal
<1>1. Pay!Init => PP!Init
  OBVIOUS
<1>2. Pay!Next => PP!Next
  OBVIOUS
<1>3. ASSUME NEW w \in Workers, Pay!Step(w) PROVE PP!Step(w)
  BY <1>3
<1>4. ASSUME NEW p \in Payments, Pay!Provider(p) PROVE PP!Provider(p)
  BY <1>4
<1>5. \A op, p : PP!InFlight(op, p) => Pay!InFlight(op, p)
  OBVIOUS
<1>6. PP!TypeOK <=> Pay!TypeOK
  OBVIOUS
<1>7. PP!Labels = Pay!Labels /\ PP!Results = Pay!Results
  OBVIOUS
<1>8. UNCHANGED payVars <=> UNCHANGED PP!vars
  BY DEF payVars, PP!vars
<1> QED
  BY <1>1, <1>2, <1>3, <1>4, <1>5, <1>6, <1>7, <1>8

-----------------------------------------------------------------------------
(* The inductive invariant of the checkout and the payments it uses.       *)
IInv == CInv /\ PP!IInv

(* What the parts of the invariant say of one worker.                      *)
LEMMA Unfold ==
    ASSUME IInv
    PROVE  /\ TypeOK /\ OnePlaces /\ SagaOK /\ ProgressOK /\ DoneOK /\ ClosedMeansCompensating
           /\ \A w \in Workers :
                 CommandOK(w) /\ PlaceOK(w) /\ UndoOK(w) /\ RetryOK(w) /\ PP!CallOK(w)
           /\ \A p \in Payments : PP!PayOK(p) /\ PP!RefundOK(p)
           /\ \A w \in Workers : PP!StepOK(w)
  BY DEF IInv, CInv, PP!IInv

(* Nobody else creates the payment of the order that is being placed, nor  *)
(* one that a retry has chosen.                                            *)
LEMMA NoCreator ==
    ASSUME IInv, NEW w \in Workers
    PROVE  /\ at[w] = "create" => ~Pay!InFlight("create", first)
           /\ at[w] = "await" => ~Pay!InFlight("create", first)
           /\ at[w] = "change" => ~Pay!InFlight("create", subject[w])
           /\ \A p \in FreshPayments : ~Pay!InFlight("create", p)
<1>1. \A v \in Workers : cmd[v].op = "create"
         => \/ at[v] = "creating" /\ cmd[v].pay = first
            \/ at[v] = "recreating" /\ cmd[v].pay = subject[v] /\ subject[v] # first
  BY Unfold DEF CommandOK, RetryOK, RetryAt
<1>2. at[w] \in {"create", "await"} => ~Pay!InFlight("create", first)
  BY <1>1, Unfold DEF OnePlaces, PlaceAt, Pay!InFlight
<1>3. at[w] = "change" => ~Pay!InFlight("create", subject[w])
  BY <1>1, Unfold DEF RetryOK, RetryAt, Pay!InFlight
<1>4. ASSUME NEW p \in FreshPayments PROVE ~Pay!InFlight("create", p)
  BY <1>1 DEF FreshPayments, Pay!InFlight
<1> QED
  BY <1>2, <1>3, <1>4

(* Nobody cancels a payment that is about to be handed out.                *)
LEMMA NoCanceller ==
    ASSUME IInv, NEW w \in Workers
    PROVE  /\ at[w] \in {"creating", "await"} /\ ~Turned => ~Pay!InFlight("cancel", first)
           /\ at[w] \in {"recreating", "change"} => ~Pay!InFlight("cancel", subject[w])
<1>1. \A v \in Workers : cmd[v].op = "cancel"
         => \/ at[v] = "cancelling" /\ cmd[v].pay = payment /\ Turned
            \/ at[v] = "straying" /\ cmd[v].pay = subject[v] /\ subject[v] \in outbox
            \/ at[v] = "retry_cancelling" /\ cmd[v].pay = subject[v] /\ subject[v] # first
  BY Unfold DEF CommandOK, RetryOK, RetryAt, UndoOK, UndoAt, SettleAt
<1>2. outbox \subseteq exposed
  BY Unfold DEF PP!PayOK, PP!IInv, PP!TypeOK, IInv
<1>3. ASSUME at[w] \in {"creating", "await"}, ~Turned PROVE ~Pay!InFlight("cancel", first)
  <2>1. first \notin exposed
    BY <1>3, Unfold DEF PlaceOK, PlaceAt
  <2> QED
    BY <1>1, <1>2, <1>3, <2>1 DEF Pay!InFlight
<1>4. ASSUME at[w] \in {"recreating", "change"} PROVE ~Pay!InFlight("cancel", subject[w])
  <2>1. /\ subject[w] \notin exposed /\ subject[w] # first /\ payment \in {first} \cup exposed
        /\ \A v \in Workers \ {w} : at[v] \in RetryAt => subject[v] # subject[w]
    BY <1>4, Unfold DEF RetryOK, RetryAt, SagaOK
  <2>2. \A v \in Workers : at[v] = "retry_cancelling" => v # w /\ subject[v] # subject[w]
    BY <1>4, <2>1 DEF RetryAt
  <2> QED
    BY <1>1, <1>2, <2>1, <2>2 DEF Pay!InFlight
<1> QED
  BY <1>3, <1>4

(* The handlers call the payment context as it assumes to be called.       *)
LEMMA PayMoves ==
    ASSUME IInv, [Next]_vars
    PROVE  [Pay!Next]_payVars
<1>0. TypeOK /\ first \in Payments
  BY Unfold, CheckoutAssumption
<1>1. ASSUME NEW w \in Workers, Place(w) PROVE [Pay!Next]_payVars
  <2>1. CASE SaveOrder(w) \/ Unreserve(w) \/ Redeem(w) \/ PromoRedeemed(w)
    BY <2>1 DEF SaveOrder, Unreserve, Redeem, PromoRedeemed
  <2>2. CASE CreatePayment(w)
    <3>1. payment = first /\ ~Pay!InFlight("create", first)
      BY <2>2, Unfold, NoCreator DEF CreatePayment, Running, PlaceOK, PlaceAt
    <3> QED
      BY <1>0, <2>2, <3>1 DEF CreatePayment, Pay!Next, Pay!Request
  <2>3. CASE PaymentCreated(w)
    BY <2>3 DEF PaymentCreated, Pay!Next
  <2>4. CASE AwaitPayment(w)
    <3>1. CASE exposed' = exposed
      BY <2>4, <3>1 DEF AwaitPayment, payVars
    <3>2. CASE exposed' # exposed
      <4>1. status = "running" /\ at[w] = "await" /\ exposed' = exposed \cup {payment}
        BY <2>4, <3>2 DEF AwaitPayment, Running
      <4>2. payment = first /\ pay[first] = "pending"
        BY <4>1, Unfold DEF PlaceOK, PlaceAt
      <4>3. ~Pay!InFlight("cancel", first)
        BY <4>1, NoCanceller DEF Turned
      <4> QED
        BY <1>0, <2>4, <4>1, <4>2, <4>3 DEF AwaitPayment, Pay!Next, Pay!Expose, Pay!deliveries
    <3> QED
      BY <3>1, <3>2
  <2> QED
    BY <1>1, <2>1, <2>2, <2>3, <2>4 DEF Place
<1>2. ASSUME NEW w \in Workers, Progress(w) PROVE [Pay!Next]_payVars
  <2>1. CASE CancelStray(w)
    <3>1. subject[w] \in Payments
      BY <2>1, Unfold DEF CancelStray, Running, RetryOK, IInv, PP!IInv, PP!TypeOK
    <3> QED
      BY <2>1, <3>1 DEF CancelStray, Pay!Next, Pay!Request
  <2>2. CASE CapturePayment(w)
    BY <1>0, <2>2 DEF CapturePayment, TypeOK, Pay!Next, Pay!Request
  <2>3. CASE StrayCancelled(w) \/ PaymentAnswered(w)
    BY <2>3 DEF StrayCancelled, PaymentAnswered, Pay!Next
  <2>4. CASE Advance(w) \/ CommitStock(w) \/ StockCommitted(w) \/ PaymentCaptured(w)
             \/ Complete(w)
    BY <2>4 DEF Advance, CommitStock, StockCommitted, PaymentCaptured, Complete
  <2> QED
    BY <1>2, <2>1, <2>2, <2>3, <2>4 DEF Progress
<1>3. ASSUME NEW w \in Workers, Compensate(w) PROVE [Pay!Next]_payVars
  <2>1. CASE CancelPayment(w) \/ RefundPayment(w)
    BY <1>0, <2>1 DEF CancelPayment, RefundPayment, TypeOK, Pay!Next, Pay!Request
  <2>2. CASE PaymentCancelled(w) \/ PaymentRefunded(w)
    BY <2>2 DEF PaymentCancelled, PaymentRefunded, Pay!Next
  <2>3. CASE Abort(w) \/ Run(w) \/ SettlePayment(w) \/ ReleaseStock(w) \/ RestoreStock(w)
             \/ ReleasePromo(w) \/ CloseOrder(w) \/ Compensated(w) \/ CompensationFailed(w)
             \/ ExpireCheckout(w)
    BY <2>3 DEF Abort, Run, SettlePayment, ReleaseStock, RestoreStock, ReleasePromo, CloseOrder,
       Compensated, CompensationFailed, ExpireCheckout
  <2> QED
    BY <1>3, <2>1, <2>2, <2>3 DEF Compensate
<1>4. ASSUME NEW w \in Workers, Retry(w) PROVE [Pay!Next]_payVars
  <2>1. CASE LookUpPayment(w)
    BY <2>1 DEF LookUpPayment
  <2>2. CASE RecreatePayment(w)
    BY <2>2, NoCreator DEF RecreatePayment, FreshPayments, Pay!Next, Pay!Request
  <2>3. CASE PaymentRecreated(w) \/ RetryCancelled(w)
    BY <2>3 DEF PaymentRecreated, RetryCancelled, Pay!Next
  <2>4. CASE ChangePayment(w)
    <3>1. CASE exposed' = exposed
      BY <2>4, <3>1 DEF ChangePayment, payVars
    <3>2. CASE exposed' # exposed
      <4>1. at[w] = "change" /\ exposed' = exposed \cup {subject[w]}
        BY <2>4, <3>2 DEF ChangePayment, Running
      <4>2. subject[w] \in Payments /\ pay[subject[w]] = "pending"
        BY <4>1, Unfold DEF RetryOK, RetryAt
      <4>3. ~Pay!InFlight("cancel", subject[w])
        BY <4>1, NoCanceller
      <4> QED
        BY <2>4, <4>1, <4>2, <4>3 DEF ChangePayment, Pay!Next, Pay!Expose, Pay!deliveries
    <3> QED
      BY <3>1, <3>2
  <2>5. CASE CancelRetry(w)
    <3>1. subject[w] \in Payments
      BY <2>5, Unfold DEF CancelRetry, Running, RetryOK, RetryAt
    <3> QED
      BY <2>5, <3>1 DEF CancelRetry, Pay!Next, Pay!Request
  <2> QED
    BY <1>4, <2>1, <2>2, <2>3, <2>4, <2>5 DEF Retry
<1>5. ASSUME NEW w \in Workers, Job(w) \/ Request(w) PROVE [Pay!Next]_payVars
  BY <1>5 DEF Job, PaymentAuthorized, ResumeStalled, ExpireCheckouts, RunCompensations, Request,
     Reserve, CancelOrder, ResumeSaga, RetryPayment
<1>6. ASSUME NEW w \in Workers, CommandStep(w) \/ Stop(w) PROVE [Pay!Next]_payVars
  BY <1>6 DEF CommandStep, Stop, Pay!Next
<1>7. ASSUME NEW p \in Payments, Provider(p) PROVE [Pay!Next]_payVars
  BY <1>7 DEF Provider, Pay!Next
<1>8. CASE Fulfil \/ DeadlinePasses \/ Lapse \/ UNCHANGED vars
  BY <1>8 DEF Fulfil, DeadlinePasses, Lapse, vars
<1> QED
  BY <1>1, <1>2, <1>3, <1>4, <1>5, <1>6, <1>7, <1>8 DEF Next, Work

(* A reservation only moves along its life.                                *)
LEMMA StockMoves ==
    ASSUME [Next]_vars
    PROVE  /\ \/ UNCHANGED stock
              \/ stock = "none" /\ stock' = "held"
              \/ stock = "held" /\ stock' \in {"committed", "released", "lapsed"}
              \/ stock = "committed" /\ stock' = "restored"
           /\ [Stock!Next]_stock
<1> DEFINE Moves == \/ UNCHANGED stock
                    \/ stock = "none" /\ stock' = "held"
                    \/ stock = "held" /\ stock' \in {"committed", "released", "lapsed"}
                    \/ stock = "committed" /\ stock' = "restored"
<1>1. ASSUME NEW w \in Workers, Work(w) PROVE Moves
  <2>1. CASE Unreserve(w) \/ CommitStock(w) \/ ReleaseStock(w) \/ RestoreStock(w)
    BY <2>1 DEF Unreserve, CommitStock, ReleaseStock, RestoreStock
  <2>2. CASE Place(w) /\ ~Unreserve(w)
    BY <2>2 DEF Place, SaveOrder, Redeem, PromoRedeemed, CreatePayment, PaymentCreated,
       AwaitPayment, others
  <2>3. CASE Progress(w) /\ ~CommitStock(w)
    BY <2>3 DEF Progress, CancelStray, StrayCancelled, Advance, StockCommitted, CapturePayment,
       PaymentAnswered, PaymentCaptured, Complete, others
  <2>4. CASE Compensate(w) /\ ~ReleaseStock(w) /\ ~RestoreStock(w)
    BY <2>4 DEF Compensate, Abort, Run, SettlePayment, CancelPayment, PaymentCancelled,
       RefundPayment, PaymentRefunded, ReleasePromo, CloseOrder, Compensated,
       CompensationFailed, ExpireCheckout, others
  <2>5. CASE Retry(w)
    BY <2>5 DEF Retry, LookUpPayment, RecreatePayment, PaymentRecreated, ChangePayment,
       CancelRetry, RetryCancelled, others
  <2> QED
    BY <1>1, <2>1, <2>2, <2>3, <2>4, <2>5 DEF Work
<1>2. ASSUME NEW w \in Workers, Job(w) PROVE Moves
  BY <1>2 DEF Job, PaymentAuthorized, ResumeStalled, ExpireCheckouts, RunCompensations, others
<1>3. ASSUME NEW w \in Workers, Request(w) PROVE Moves
  BY <1>3 DEF Request, Reserve, CancelOrder, ResumeSaga, RetryPayment, others
<1>4. ASSUME NEW w \in Workers, CommandStep(w) \/ Stop(w) PROVE Moves
  BY <1>4 DEF CommandStep, Stop, others
<1>5. ASSUME \/ \E p \in Payments : Provider(p)
             \/ Fulfil \/ DeadlinePasses \/ Lapse \/ UNCHANGED vars
      PROVE  Moves
  BY <1>5 DEF Provider, Fulfil, DeadlinePasses, Lapse, vars, others
<1>6. Moves
  BY <1>1, <1>2, <1>3, <1>4, <1>5 DEF Next
<1>7. [Stock!Next]_stock
  <2> DEFINE r == "reservation"
             whole(s) == [x \in {r} |-> s]
  <2>1. ASSUME NEW s, NEW t PROVE whole(t) = [whole(s) EXCEPT ![r] = t]
    OBVIOUS
  <2>2. stock = "none" /\ stock' = "held" => Stock!Take(r)
    BY <2>1 DEF Stock!Take, Stock!Move
  <2>3. stock = "held" /\ stock' = "committed" => Stock!Commit(r)
    BY <2>1 DEF Stock!Commit, Stock!Move
  <2>4. stock = "held" /\ stock' = "released" => Stock!Release(r)
    BY <2>1 DEF Stock!Release, Stock!Move
  <2>5. stock = "committed" /\ stock' = "restored" => Stock!Restore(r)
    BY <2>1 DEF Stock!Restore, Stock!Move
  <2>6. stock = "held" /\ stock' = "lapsed" => Stock!Lapse({r})
    BY DEF Stock!Lapse
  <2>7. {r} \in (SUBSET {"reservation"}) \ {{}}
    OBVIOUS
  <2> QED
    BY <1>6, <2>2, <2>3, <2>4, <2>5, <2>6, <2>7 DEF Stock!Next
<1> QED
  BY <1>6, <1>7

-----------------------------------------------------------------------------
(* What the answers of the payment context and its rows mean.              *)
LEMMA PayFacts ==
    ASSUME IInv
    PROVE  /\ \A w \in Workers : pc[w] = "ok" =>
                 /\ at[w] = "capturing" => pay[payment] \in {"captured", "refunded"}
                 /\ at[w] = "cancelling" => pay[payment] \in {"cancelled", "failed"}
                 /\ at[w] = "refunding" => refund[payment][refundId] \in {"succeeded", "failed"}
           /\ \A p \in Payments :
                 /\ pay[p] = "absent" => p \notin exposed
                 /\ pay[p] = "refunded" \/ refund[p][refundId] = "succeeded"
                       => intent[p] = "refunded"
           /\ outbox \subseteq exposed /\ outbox \subseteq Payments
<1>1. ASSUME NEW w \in Workers, pc[w] = "ok"
      PROVE  /\ at[w] = "capturing" => pay[payment] \in {"captured", "refunded"}
             /\ at[w] = "cancelling" => pay[payment] \in {"cancelled", "failed"}
             /\ at[w] = "refunding" => refund[payment][refundId] \in {"succeeded", "failed"}
  BY <1>1, Unfold DEF CommandOK, PP!StepOK, PP!At
<1>2. ASSUME NEW p \in Payments
      PROVE  /\ pay[p] = "absent" => p \notin exposed
             /\ pay[p] = "refunded" \/ refund[p][refundId] = "succeeded"
                   => intent[p] = "refunded"
  <2>1. PP!PayOK(p) /\ PP!RefundOK(p)
    BY Unfold
  <2> QED
    BY <2>1, CheckoutAssumption DEF PP!PayOK, PP!RefundOK
<1>3. outbox \subseteq exposed /\ outbox \subseteq Payments
  BY Unfold DEF PP!PayOK, PP!IInv, PP!TypeOK, IInv
<1> QED
  BY <1>1, <1>2, <1>3

(* The loop of Run takes one of the plan's compensations.                  *)
LEMMA FirstIsPending == Pending # {} => FirstPending \in Pending
  BY DEF Pending, FirstPending, Compensations

-----------------------------------------------------------------------------
(* The theorems about the payment context, for the checkout's use of it.   *)
LEMMA PayKept ==
    ASSUME IInv, [Next]_vars
    PROVE  /\ PP!IInv' /\ Pay!TypeOK'
           /\ \A p \in Payments : PP!Stable(p)
           /\ (\A w \in Workers : cmd[w].op # "refund")
                 => \A p \in Payments :
                       /\ pay[p] = "captured" => pay'[p] = "captured"
                       /\ intent[p] # "refunded" => intent'[p] # "refunded"
<1>1. PP!IInv /\ [PP!Next]_(PP!vars)
  BY PayMoves, SamePayment DEF IInv
<1>2. PP!IInv'
  BY <1>1, PP!Inductive, CheckoutAssumption
<1>3. Pay!TypeOK'
  BY <1>2, SamePayment, PTL DEF PP!IInv
<1>4. ASSUME NEW p \in Payments PROVE PP!Stable(p)
  BY <1>1, PP!Stability, CheckoutAssumption
<1>5. ASSUME \A w \in Workers : cmd[w].op # "refund", NEW p \in Payments
      PROVE  /\ pay[p] = "captured" => pay'[p] = "captured"
             /\ intent[p] # "refunded" => intent'[p] # "refunded"
  BY <1>1, <1>5, PP!ChargeKept, CheckoutAssumption
<1> QED
  BY <1>2, <1>3, <1>4, <1>5
(* Order, saga, stock and code stay in their ranges: the attempts are      *)
(* capped by the policy, the compensations done are those of the plan.     *)
LEMMA SagaTypes ==
    ASSUME IInv, NEW w \in Workers, Work(w) \/ Job(w) \/ Request(w) \/ Stop(w)
    PROVE  /\ order' \in OrderStatus /\ status' \in SagaStatus /\ step' \in SagaSteps
           /\ captured' \in BOOLEAN /\ done' \subseteq Compensations /\ attempts' \in 0..MaxAttempts
           /\ payment' \in Payments /\ promo' \in BOOLEAN /\ late' \in BOOLEAN
           /\ stock' \in {"none", "held", "committed", "released", "lapsed", "restored"}
           /\ acked' \subseteq Payments /\ troubles' \in 0..MaxTroubles
<1> USE DEF Running, Answered, MoveTo, Goto, Rest, TakeUp, Succeed, GiveUp, Trouble, Advanced,
        BeginCompensation, others, sagaVars, worker, payVars, Pay!StartCreate, Pay!StartCapture,
        Pay!StartCancel, Pay!StartRefund, Pay!Start, Pay!Return, Pay!Crash, Pay!Forget,
        Pay!NoCommand, Pay!deliveries, TypeOK, OrderStatus, SagaStatus, SagaSteps, UndoOK,
        RetryOK, RetryAt
<1>0. /\ TypeOK /\ \A v \in Workers : UndoOK(v) /\ RetryOK(v)
      /\ Pending \subseteq Compensations /\ (Pending # {} => FirstPending \in Pending)
  BY Unfold, FirstIsPending DEF Pending
<1>1. CASE Place(w)
  <2>1. CASE SaveOrder(w)
    BY <1>0, PayFacts, CheckoutAssumption, <2>1 DEF SaveOrder
  <2>2. CASE Unreserve(w)
    BY <1>0, PayFacts, CheckoutAssumption, <2>2 DEF Unreserve
  <2>3. CASE Redeem(w)
    <3>1. promo' \in BOOLEAN
      BY <1>0, <2>3, Zenon DEF Redeem
    <3> QED
      BY <1>0, <2>3, <3>1, CheckoutAssumption DEF Redeem
  <2>4. CASE PromoRedeemed(w)
    BY <1>0, PayFacts, CheckoutAssumption, <2>4 DEF PromoRedeemed
  <2>5. CASE CreatePayment(w)
    BY <1>0, PayFacts, CheckoutAssumption, <2>5 DEF CreatePayment
  <2>6. CASE PaymentCreated(w)
    BY <1>0, PayFacts, CheckoutAssumption, <2>6 DEF PaymentCreated
  <2>7. CASE AwaitPayment(w)
    BY <1>0, PayFacts, CheckoutAssumption, <2>7 DEF AwaitPayment
  <2> QED
    BY <1>1, <2>1, <2>2, <2>3, <2>4, <2>5, <2>6, <2>7 DEF Place
<1>2. CASE Progress(w)
  <2>1. CASE CancelStray(w)
    BY <1>0, PayFacts, CheckoutAssumption, <2>1 DEF CancelStray
  <2>2. CASE StrayCancelled(w)
    BY <1>0, PayFacts, CheckoutAssumption, <2>2 DEF StrayCancelled
  <2>3. CASE Advance(w)
    BY <1>0, PayFacts, CheckoutAssumption, <2>3 DEF Advance
  <2>4. CASE CommitStock(w)
    BY <1>0, PayFacts, CheckoutAssumption, <2>4 DEF CommitStock
  <2>5. CASE StockCommitted(w)
    BY <1>0, PayFacts, CheckoutAssumption, <2>5 DEF StockCommitted
  <2>6. CASE CapturePayment(w)
    BY <1>0, PayFacts, CheckoutAssumption, <2>6 DEF CapturePayment
  <2>7. CASE PaymentAnswered(w)
    BY <1>0, PayFacts, CheckoutAssumption, <2>7 DEF PaymentAnswered
  <2>8. CASE PaymentCaptured(w)
    <3>1. captured' \in BOOLEAN
      BY <1>0, <2>8, Zenon DEF PaymentCaptured
    <3> QED
      BY <1>0, <2>8, <3>1, CheckoutAssumption DEF PaymentCaptured
  <2>9. CASE Complete(w)
    BY <1>0, PayFacts, CheckoutAssumption, <2>9 DEF Complete
  <2> QED
    BY <1>2, <2>1, <2>2, <2>3, <2>4, <2>5, <2>6, <2>7, <2>8, <2>9 DEF Progress
<1>3. CASE Compensate(w)
  <2>1. CASE Abort(w)
    BY <1>0, PayFacts, CheckoutAssumption, <2>1 DEF Abort
  <2>2. CASE Run(w)
    BY <1>0, PayFacts, CheckoutAssumption, <2>2 DEF Run
  <2>3. CASE SettlePayment(w)
    BY <1>0, PayFacts, CheckoutAssumption, <2>3 DEF SettlePayment
  <2>4. CASE CancelPayment(w)
    BY <1>0, PayFacts, CheckoutAssumption, <2>4 DEF CancelPayment
  <2>5. CASE PaymentCancelled(w)
    BY <1>0, PayFacts, CheckoutAssumption, <2>5 DEF PaymentCancelled
  <2>6. CASE RefundPayment(w)
    BY <1>0, PayFacts, CheckoutAssumption, <2>6 DEF RefundPayment
  <2>7. CASE PaymentRefunded(w)
    BY <1>0, PayFacts, CheckoutAssumption, <2>7 DEF PaymentRefunded
  <2>8. CASE ReleaseStock(w)
    BY <1>0, PayFacts, CheckoutAssumption, <2>8 DEF ReleaseStock
  <2>9. CASE RestoreStock(w)
    BY <1>0, PayFacts, CheckoutAssumption, <2>9 DEF RestoreStock
  <2>10. CASE ReleasePromo(w)
    <3>1. promo' \in BOOLEAN
      BY <1>0, <2>10, Zenon DEF ReleasePromo
    <3> QED
      BY <1>0, <2>10, <3>1, CheckoutAssumption DEF ReleasePromo
  <2>11. CASE CloseOrder(w)
    BY <1>0, PayFacts, CheckoutAssumption, <2>11 DEF CloseOrder
  <2>12. CASE Compensated(w)
    BY <1>0, PayFacts, CheckoutAssumption, <2>12 DEF Compensated
  <2>13. CASE CompensationFailed(w)
    BY <1>0, PayFacts, CheckoutAssumption, <2>13 DEF CompensationFailed
  <2>14. CASE ExpireCheckout(w)
    BY <1>0, PayFacts, CheckoutAssumption, <2>14 DEF ExpireCheckout
  <2> QED
    BY <1>3, <2>1, <2>2, <2>3, <2>4, <2>5, <2>6, <2>7, <2>8, <2>9, <2>10, <2>11, <2>12, <2>13,
       <2>14 DEF Compensate
<1>4. CASE Retry(w)
  BY <1>0, PayFacts, CheckoutAssumption, <1>4 DEF Retry, LookUpPayment, RecreatePayment,
     PaymentRecreated, ChangePayment, CancelRetry, RetryCancelled
<1>5. CASE Job(w)
  BY <1>0, PayFacts, CheckoutAssumption, <1>5 DEF Job, PaymentAuthorized, ResumeStalled,
     ExpireCheckouts, RunCompensations
<1>6. CASE Request(w)
  BY <1>0, PayFacts, CheckoutAssumption, <1>6 DEF Request, Reserve, CancelOrder, ResumeSaga,
     RetryPayment
<1>7. CASE Stop(w)
  BY <1>0, CheckoutAssumption, <1>7 DEF Stop
<1> QED
  BY <1>1, <1>2, <1>3, <1>4, <1>5, <1>6, <1>7 DEF Work

(* A worker stays at a step of the handler it runs.                        *)
LEMMA WorkerTypes ==
    ASSUME IInv, NEW w \in Workers, Work(w) \/ Job(w) \/ Request(w) \/ Stop(w)
    PROVE  /\ role' \in [Workers -> Handlers \cup {"none"}] /\ at' \in [Workers -> Steps]
           /\ subject' \in [Workers -> Payments \cup {None}]
           /\ doing' \in [Workers -> Compensations \cup {"none"}]
           /\ \A v \in Workers : role'[v] = "none" <=> at'[v] = "idle"
<1> USE DEF Running, Answered, MoveTo, Goto, Rest, TakeUp, Succeed, GiveUp, Trouble, Advanced,
        BeginCompensation, others, sagaVars, worker, payVars, Pay!StartCreate, Pay!StartCapture,
        Pay!StartCancel, Pay!StartRefund, Pay!Start, Pay!Return, Pay!Crash, Pay!Forget,
        Pay!NoCommand, Pay!deliveries, TypeOK, Handlers, Jobs, Steps, Compensations,
        FreshPayments
<1>0. /\ TypeOK /\ \A v \in Workers : UndoOK(v) /\ RetryOK(v)
      /\ Pending \subseteq Compensations /\ (Pending # {} => FirstPending \in Pending)
  BY Unfold, FirstIsPending DEF Pending
<1>1. CASE Place(w)
  BY <1>0, PayFacts, CheckoutAssumption, <1>1 DEF Place, SaveOrder, Unreserve, Redeem,
     PromoRedeemed, CreatePayment, PaymentCreated, AwaitPayment
<1>2. CASE Progress(w)
  BY <1>0, PayFacts, CheckoutAssumption, <1>2 DEF Progress, CancelStray, StrayCancelled, Advance,
     CommitStock, StockCommitted, CapturePayment, PaymentAnswered, PaymentCaptured, Complete
<1>3. CASE Compensate(w)
  <2>1. CASE Abort(w)
    BY <1>0, PayFacts, CheckoutAssumption, <2>1 DEF Abort
  <2>2. CASE Run(w)
    <3>1. /\ at[w] = "run" /\ role[w] # "none" /\ FirstPending # "idle"
          /\ "none" \in Handlers \cup {"none"} /\ "idle" \in Steps
      BY <1>0, <2>2 DEF Run, FirstPending
    <3>2. CASE Pending # {}
      <4>1. /\ UNCHANGED <<role, subject>> /\ FirstPending \in Compensations
            /\ at' = [at EXCEPT ![w] = FirstPending]
            /\ doing' = [doing EXCEPT ![w] = FirstPending]
        BY <1>0, <2>2, <3>2 DEF Run
      <4> HIDE DEF Compensations
      <4>2. FirstPending \in Steps
        BY <4>1 DEF Steps
      <4> HIDE DEF Steps, Handlers
      <4>3. /\ at' \in [Workers -> Steps] /\ at'[w] = FirstPending
            /\ doing' \in [Workers -> Compensations \cup {"none"}]
            /\ \A v \in Workers \ {w} : at'[v] = at[v]
        BY <1>0, <4>1, <4>2
      <4> QED
        BY <1>0, <3>1, <4>1, <4>3
    <3>3. CASE Pending = {}
      BY <1>0, <2>2, <3>1, <3>3 DEF Run
    <3> QED
      BY <3>2, <3>3
  <2>3. CASE SettlePayment(w)
    BY <1>0, PayFacts, CheckoutAssumption, <2>3 DEF SettlePayment
  <2>4. CASE CancelPayment(w)
    BY <1>0, PayFacts, CheckoutAssumption, <2>4 DEF CancelPayment
  <2>5. CASE PaymentCancelled(w)
    BY <1>0, PayFacts, CheckoutAssumption, <2>5 DEF PaymentCancelled
  <2>6. CASE RefundPayment(w)
    BY <1>0, PayFacts, CheckoutAssumption, <2>6 DEF RefundPayment
  <2>7. CASE PaymentRefunded(w)
    BY <1>0, PayFacts, CheckoutAssumption, <2>7 DEF PaymentRefunded
  <2>8. CASE ReleaseStock(w)
    BY <1>0, PayFacts, CheckoutAssumption, <2>8 DEF ReleaseStock
  <2>9. CASE RestoreStock(w)
    BY <1>0, PayFacts, CheckoutAssumption, <2>9 DEF RestoreStock
  <2>10. CASE ReleasePromo(w)
    BY <1>0, PayFacts, CheckoutAssumption, <2>10 DEF ReleasePromo
  <2>11. CASE CloseOrder(w)
    BY <1>0, PayFacts, CheckoutAssumption, <2>11 DEF CloseOrder
  <2>12. CASE Compensated(w)
    BY <1>0, PayFacts, CheckoutAssumption, <2>12 DEF Compensated
  <2>13. CASE CompensationFailed(w)
    BY <1>0, PayFacts, CheckoutAssumption, <2>13 DEF CompensationFailed
  <2>14. CASE ExpireCheckout(w)
    BY <1>0, PayFacts, CheckoutAssumption, <2>14 DEF ExpireCheckout
  <2> QED
    BY <1>3, <2>1, <2>2, <2>3, <2>4, <2>5, <2>6, <2>7, <2>8, <2>9, <2>10, <2>11, <2>12, <2>13,
       <2>14 DEF Compensate
<1>4. CASE Retry(w)
  <2>1. CASE LookUpPayment(w)
    BY <1>0, PayFacts, CheckoutAssumption, <2>1 DEF LookUpPayment
  <2>2. CASE RecreatePayment(w)
    BY <1>0, PayFacts, CheckoutAssumption, <2>2 DEF RecreatePayment
  <2>3. CASE PaymentRecreated(w)
    BY <1>0, PayFacts, CheckoutAssumption, <2>3 DEF PaymentRecreated
  <2>4. CASE ChangePayment(w)
    BY <1>0, PayFacts, CheckoutAssumption, <2>4 DEF ChangePayment
  <2>5. CASE CancelRetry(w)
    BY <1>0, PayFacts, CheckoutAssumption, <2>5 DEF CancelRetry
  <2>6. CASE RetryCancelled(w)
    BY <1>0, PayFacts, CheckoutAssumption, <2>6 DEF RetryCancelled
  <2> QED
    BY <1>4, <2>1, <2>2, <2>3, <2>4, <2>5, <2>6 DEF Retry
<1>5. CASE Job(w)
  BY <1>0, PayFacts, CheckoutAssumption, <1>5 DEF Job, PaymentAuthorized, ResumeStalled,
     ExpireCheckouts, RunCompensations
<1>6. CASE Request(w)
  BY <1>0, PayFacts, CheckoutAssumption, <1>6 DEF Request, Reserve, CancelOrder, ResumeSaga,
     RetryPayment
<1>7. CASE Stop(w)
  BY <1>0, CheckoutAssumption, <1>7 DEF Stop
<1> QED
  BY <1>1, <1>2, <1>3, <1>4, <1>5, <1>6, <1>7 DEF Work

(* The handlers keep order and saga in step with one another: both are     *)
(* written in one transaction, or the order is closed after the saga has   *)
(* turned.                                                                 *)
LEMMA SagaInvariant ==
    ASSUME IInv, NEW w \in Workers,
           Work(w) \/ Job(w) \/ Request(w) \/ Stop(w), TypeOK'
    PROVE  SagaOK'
<1> USE DEF Running, Answered, MoveTo, Goto, Rest, TakeUp, Succeed, GiveUp, Trouble, Advanced,
        BeginCompensation, others, sagaVars, worker, payVars, Pay!StartCreate, Pay!StartCapture,
        Pay!StartCancel, Pay!StartRefund, Pay!Start, Pay!Return, Pay!Crash, Pay!Forget,
        Pay!NoCommand, Pay!deliveries, TypeOK, SagaOK, ProgressOK, UndoOK, PlaceOK, Turned,
        PlaceAt, UndoAt, SettleAt, StockAt, CommitAt, Early, Charging, Paid, Committing, Expired
<1>0. /\ TypeOK /\ OnePlaces /\ SagaOK /\ ProgressOK /\ DoneOK /\ ClosedMeansCompensating
      /\ \A v \in Workers : CommandOK(v) /\ PlaceOK(v) /\ UndoOK(v) /\ RetryOK(v) /\ PP!CallOK(v)
      /\ Pending \subseteq Compensations /\ (Pending # {} => FirstPending \in Pending)
  BY Unfold, FirstIsPending DEF Pending
<1>1. CASE Place(w)
  BY <1>0, <1>1 DEF Place, SaveOrder, Unreserve, Redeem, PromoRedeemed, CreatePayment,
     PaymentCreated, AwaitPayment
<1>2. CASE Progress(w)
  BY <1>0, <1>2 DEF Progress, CancelStray, StrayCancelled, Advance, CommitStock, StockCommitted,
     CapturePayment, PaymentAnswered, PaymentCaptured, Complete
<1>3. CASE Compensate(w)
  BY <1>0, <1>3 DEF Compensate, Abort, Run, SettlePayment, CancelPayment, PaymentCancelled,
     RefundPayment, PaymentRefunded, ReleaseStock, RestoreStock, ReleasePromo, CloseOrder,
     Compensated, CompensationFailed, ExpireCheckout
<1>4. CASE Retry(w)
  BY <1>0, <1>4 DEF Retry, LookUpPayment, RecreatePayment, PaymentRecreated, ChangePayment,
     CancelRetry, RetryCancelled
<1>5. CASE Job(w)
  BY <1>0, <1>5 DEF Job, PaymentAuthorized, ResumeStalled, ExpireCheckouts, RunCompensations
<1>6. CASE Request(w)
  BY <1>0, <1>6 DEF Request, Reserve, CancelOrder, ResumeSaga, RetryPayment
<1>7. CASE Stop(w)
  BY <1>0, <1>7 DEF Stop, Pay!Fault
<1> QED
  BY <1>1, <1>2, <1>3, <1>4, <1>5, <1>6, <1>7 DEF Work

(* A step of the saga is recorded only after the call it stands for has    *)
(* taken effect, and nobody undoes it before the saga turns.               *)
LEMMA ProgressInvariant ==
    ASSUME IInv, NEW w \in Workers,
           Work(w) \/ Job(w) \/ Request(w) \/ Stop(w), TypeOK'
    PROVE  ProgressOK'
<1> USE DEF Running, Answered, MoveTo, Goto, Rest, TakeUp, Succeed, GiveUp, Trouble, Advanced,
        BeginCompensation, others, sagaVars, worker, payVars, Pay!StartCreate, Pay!StartCapture,
        Pay!StartCancel, Pay!StartRefund, Pay!Start, Pay!Return, Pay!Crash, Pay!Forget,
        Pay!NoCommand, Pay!deliveries, TypeOK, SagaOK, ProgressOK, UndoOK, PlaceOK, OnePlaces,
        HasCommitted, HasCaptured, Turned, PlaceAt, UndoAt, SettleAt, StockAt, CommitAt, Early,
        Charging, Committing, Expired, Proceeds, Compensations
<1>0. /\ TypeOK /\ OnePlaces /\ SagaOK /\ ProgressOK /\ DoneOK /\ ClosedMeansCompensating
      /\ \A v \in Workers : CommandOK(v) /\ PlaceOK(v) /\ UndoOK(v) /\ RetryOK(v) /\ PP!CallOK(v)
      /\ Pending \subseteq Compensations /\ (Pending # {} => FirstPending \in Pending)
  BY Unfold, FirstIsPending DEF Pending
<1>1. CASE Place(w)
  BY <1>0, <1>1 DEF Place, SaveOrder, Unreserve, Redeem, PromoRedeemed, CreatePayment,
     PaymentCreated, AwaitPayment
<1>2. CASE Progress(w)
  <2>1. CASE CancelStray(w)
    BY <1>0, PayFacts, CheckoutAssumption, <2>1 DEF CancelStray
  <2>2. CASE StrayCancelled(w)
    BY <1>0, PayFacts, CheckoutAssumption, <2>2 DEF StrayCancelled
  <2>3. CASE Advance(w)
    BY <1>0, PayFacts, CheckoutAssumption, <2>3 DEF Advance
  <2>4. CASE CommitStock(w)
    BY <1>0, PayFacts, CheckoutAssumption, <2>4 DEF CommitStock
  <2>5. CASE StockCommitted(w)
    BY <1>0, PayFacts, CheckoutAssumption, <2>5 DEF StockCommitted
  <2>6. CASE CapturePayment(w)
    BY <1>0, PayFacts, CheckoutAssumption, <2>6 DEF CapturePayment
  <2>7. CASE PaymentAnswered(w)
    BY <1>0, PayFacts, CheckoutAssumption, <2>7 DEF PaymentAnswered
  <2>8. CASE PaymentCaptured(w)
    BY <1>0, PayFacts, CheckoutAssumption, <2>8 DEF PaymentCaptured
  <2>9. CASE Complete(w)
    BY <1>0, PayFacts, CheckoutAssumption, <2>9 DEF Complete
  <2> QED
    BY <1>2, <2>1, <2>2, <2>3, <2>4, <2>5, <2>6, <2>7, <2>8, <2>9 DEF Progress
<1>3. CASE Compensate(w)
  <2>1. CASE Abort(w)
    BY <1>0, PayFacts, CheckoutAssumption, <2>1 DEF Abort
  <2>2. CASE Run(w)
    BY <1>0, PayFacts, CheckoutAssumption, <2>2 DEF Run
  <2>3. CASE SettlePayment(w)
    BY <1>0, PayFacts, CheckoutAssumption, <2>3 DEF SettlePayment
  <2>4. CASE CancelPayment(w)
    BY <1>0, PayFacts, CheckoutAssumption, <2>4 DEF CancelPayment
  <2>5. CASE PaymentCancelled(w)
    BY <1>0, PayFacts, CheckoutAssumption, <2>5 DEF PaymentCancelled
  <2>6. CASE RefundPayment(w)
    BY <1>0, PayFacts, CheckoutAssumption, <2>6 DEF RefundPayment
  <2>7. CASE PaymentRefunded(w)
    BY <1>0, PayFacts, CheckoutAssumption, <2>7 DEF PaymentRefunded
  <2>8. CASE ReleaseStock(w)
    BY <1>0, PayFacts, CheckoutAssumption, <2>8 DEF ReleaseStock
  <2>9. CASE RestoreStock(w)
    BY <1>0, PayFacts, CheckoutAssumption, <2>9 DEF RestoreStock
  <2>10. CASE ReleasePromo(w)
    BY <1>0, PayFacts, CheckoutAssumption, <2>10 DEF ReleasePromo
  <2>11. CASE CloseOrder(w)
    BY <1>0, PayFacts, CheckoutAssumption, <2>11 DEF CloseOrder
  <2>12. CASE Compensated(w)
    BY <1>0, PayFacts, CheckoutAssumption, <2>12 DEF Compensated
  <2>13. CASE CompensationFailed(w)
    BY <1>0, PayFacts, CheckoutAssumption, <2>13 DEF CompensationFailed
  <2>14. CASE ExpireCheckout(w)
    BY <1>0, PayFacts, CheckoutAssumption, <2>14 DEF ExpireCheckout
  <2> QED
    BY <1>3, <2>1, <2>2, <2>3, <2>4, <2>5, <2>6, <2>7, <2>8, <2>9, <2>10, <2>11, <2>12, <2>13,
       <2>14 DEF Compensate
<1>4. CASE Retry(w)
  BY <1>0, <1>4 DEF Retry, LookUpPayment, RecreatePayment, PaymentRecreated, ChangePayment,
     CancelRetry, RetryCancelled
<1>5. CASE Job(w)
  <2>1. ASSUME NEW p \in Payments, PaymentAuthorized(w, p)
        PROVE  ProgressOK'
    BY <1>0, PayFacts, CheckoutAssumption, <2>1 DEF PaymentAuthorized
  <2>2. CASE ResumeStalled(w)
    BY <1>0, PayFacts, CheckoutAssumption, <2>2 DEF ResumeStalled
  <2>3. CASE ExpireCheckouts(w)
    BY <1>0, PayFacts, CheckoutAssumption, <2>3 DEF ExpireCheckouts
  <2>4. CASE RunCompensations(w)
    BY <1>0, PayFacts, CheckoutAssumption, <2>4 DEF RunCompensations
  <2> QED
    BY <1>5, <2>1, <2>2, <2>3, <2>4 DEF Job
<1>6. CASE Request(w)
  BY <1>0, <1>6 DEF Request, Reserve, CancelOrder, ResumeSaga, RetryPayment
<1>7. CASE Stop(w)
  BY <1>0, <1>7 DEF Stop, Pay!Fault
<1> QED
  BY <1>1, <1>2, <1>3, <1>4, <1>5, <1>6, <1>7 DEF Work

(* A compensation is recorded as done only when it has had its effect,     *)
(* and no handler takes that effect away.                                  *)
LEMMA DoneInvariant ==
    ASSUME IInv, NEW w \in Workers,
           Work(w) \/ Job(w) \/ Request(w) \/ Stop(w), TypeOK'
    PROVE  DoneOK'
<1> USE DEF Running, Answered, MoveTo, Goto, Rest, TakeUp, Succeed, GiveUp, Trouble, Advanced,
        BeginCompensation, others, sagaVars, worker, payVars, Pay!StartCreate, Pay!StartCapture,
        Pay!StartCancel, Pay!StartRefund, Pay!Start, Pay!Return, Pay!Crash, Pay!Forget,
        Pay!NoCommand, Pay!deliveries, TypeOK, SagaOK, DoneOK, EffectOK, UndoOK, Turned, UndoAt,
        SettleAt, StockAt, Pending, Compensations, ProgressOK, CommitAt, PlaceOK, PlaceAt
<1>0. /\ TypeOK /\ OnePlaces /\ SagaOK /\ ProgressOK /\ DoneOK /\ ClosedMeansCompensating
      /\ \A v \in Workers : CommandOK(v) /\ PlaceOK(v) /\ UndoOK(v) /\ RetryOK(v) /\ PP!CallOK(v)
      /\ Pending \subseteq Compensations /\ (Pending # {} => FirstPending \in Pending)
  BY Unfold, FirstIsPending DEF Pending
<1>1. CASE Place(w)
  BY <1>0, <1>1 DEF Place, SaveOrder, Unreserve, Redeem, PromoRedeemed, CreatePayment,
     PaymentCreated, AwaitPayment
<1>2. CASE Progress(w)
  BY <1>0, <1>2 DEF Progress, CancelStray, StrayCancelled, Advance, CommitStock, StockCommitted,
     CapturePayment, PaymentAnswered, PaymentCaptured, Complete
<1>3. CASE Compensate(w)
  BY <1>0, <1>3 DEF Compensate, Abort, Run, SettlePayment, CancelPayment, PaymentCancelled,
     RefundPayment, PaymentRefunded, ReleaseStock, RestoreStock, ReleasePromo, CloseOrder,
     Compensated, CompensationFailed, ExpireCheckout
<1>4. CASE Retry(w)
  BY <1>0, <1>4 DEF Retry, LookUpPayment, RecreatePayment, PaymentRecreated, ChangePayment,
     CancelRetry, RetryCancelled
<1>5. CASE Job(w)
  BY <1>0, <1>5 DEF Job, PaymentAuthorized, ResumeStalled, ExpireCheckouts, RunCompensations
<1>6. CASE Request(w)
  BY <1>0, <1>6 DEF Request, Reserve, CancelOrder, ResumeSaga, RetryPayment
<1>7. CASE Stop(w)
  BY <1>0, <1>7 DEF Stop, Pay!Fault
<1> QED
  BY <1>1, <1>2, <1>3, <1>4, <1>5, <1>6, <1>7 DEF Work

(* No handler closes the order without turning the saga.                   *)
LEMMA ClosedInvariant ==
    ASSUME IInv, NEW w \in Workers,
           Work(w) \/ Job(w) \/ Request(w) \/ Stop(w), TypeOK'
    PROVE  ClosedMeansCompensating'
<1> USE DEF Running, Answered, MoveTo, Goto, Rest, TakeUp, Succeed, GiveUp, Trouble, Advanced,
        BeginCompensation, others, sagaVars, worker, payVars, Pay!StartCreate, Pay!StartCapture,
        Pay!StartCancel, Pay!StartRefund, Pay!Start, Pay!Return, Pay!Crash, Pay!Forget,
        Pay!NoCommand, Pay!deliveries, TypeOK, SagaOK, ClosedMeansCompensating, Turned, UndoOK,
        UndoAt, PlaceOK, PlaceAt, Committing, Expired, ProgressOK, CommitAt, Charging, SagaStatus
<1>0. /\ TypeOK /\ OnePlaces /\ SagaOK /\ ProgressOK /\ DoneOK /\ ClosedMeansCompensating
      /\ \A v \in Workers : CommandOK(v) /\ PlaceOK(v) /\ UndoOK(v) /\ RetryOK(v) /\ PP!CallOK(v)
      /\ Pending \subseteq Compensations /\ (Pending # {} => FirstPending \in Pending)
  BY Unfold, FirstIsPending DEF Pending
<1>1. CASE Place(w)
  BY <1>0, <1>1 DEF Place, SaveOrder, Unreserve, Redeem, PromoRedeemed, CreatePayment,
     PaymentCreated, AwaitPayment
<1>2. CASE Progress(w)
  BY <1>0, <1>2 DEF Progress, CancelStray, StrayCancelled, Advance, CommitStock, StockCommitted,
     CapturePayment, PaymentAnswered, PaymentCaptured, Complete
<1>3. CASE Compensate(w)
  BY <1>0, <1>3 DEF Compensate, Abort, Run, SettlePayment, CancelPayment, PaymentCancelled,
     RefundPayment, PaymentRefunded, ReleaseStock, RestoreStock, ReleasePromo, CloseOrder,
     Compensated, CompensationFailed, ExpireCheckout
<1>4. CASE Retry(w)
  BY <1>0, <1>4 DEF Retry, LookUpPayment, RecreatePayment, PaymentRecreated, ChangePayment,
     CancelRetry, RetryCancelled
<1>5. CASE Job(w)
  BY <1>0, <1>5 DEF Job, PaymentAuthorized, ResumeStalled, ExpireCheckouts, RunCompensations
<1>6. CASE Request(w)
  <2>1. CASE Reserve(w)
    BY <1>0, PayFacts, CheckoutAssumption, <2>1 DEF Reserve
  <2>2. CASE CancelOrder(w)
    BY <1>0, PayFacts, CheckoutAssumption, <2>2 DEF CancelOrder
  <2>3. CASE ResumeSaga(w)
    BY <1>0, PayFacts, CheckoutAssumption, <2>3 DEF ResumeSaga
  <2>4. CASE RetryPayment(w)
    BY <1>0, PayFacts, CheckoutAssumption, <2>4 DEF RetryPayment
  <2> QED
    BY <1>6, <2>1, <2>2, <2>3, <2>4 DEF Request
<1>7. CASE Stop(w)
  BY <1>0, <1>7 DEF Stop, Pay!Fault
<1> QED
  BY <1>1, <1>2, <1>3, <1>4, <1>5, <1>6, <1>7 DEF Work

(* A second request to place the order finds the reservation of the        *)
(* first.                                                                  *)
LEMMA OnePlacesInvariant ==
    ASSUME IInv, NEW w \in Workers,
           Work(w) \/ Job(w) \/ Request(w) \/ Stop(w), TypeOK'
    PROVE  OnePlaces'
<1> USE DEF Running, Answered, MoveTo, Goto, Rest, TakeUp, Succeed, GiveUp, Trouble, Advanced,
        BeginCompensation, others, sagaVars, worker, payVars, Pay!StartCreate, Pay!StartCapture,
        Pay!StartCancel, Pay!StartRefund, Pay!Start, Pay!Return, Pay!Crash, Pay!Forget,
        Pay!NoCommand, Pay!deliveries, TypeOK, OnePlaces, PlaceOK, PlaceAt, SagaOK, Jobs,
        Compensations
<1>0. /\ TypeOK /\ OnePlaces /\ SagaOK /\ ProgressOK /\ DoneOK /\ ClosedMeansCompensating
      /\ \A v \in Workers : CommandOK(v) /\ PlaceOK(v) /\ UndoOK(v) /\ RetryOK(v) /\ PP!CallOK(v)
      /\ Pending \subseteq Compensations /\ (Pending # {} => FirstPending \in Pending)
  BY Unfold, FirstIsPending DEF Pending
<1>1. CASE Place(w)
  BY <1>0, <1>1 DEF Place, SaveOrder, Unreserve, Redeem, PromoRedeemed, CreatePayment,
     PaymentCreated, AwaitPayment
<1>2. CASE Progress(w)
  BY <1>0, <1>2 DEF Progress, CancelStray, StrayCancelled, Advance, CommitStock, StockCommitted,
     CapturePayment, PaymentAnswered, PaymentCaptured, Complete
<1>3. CASE Compensate(w)
  <2>1. CASE Abort(w)
    BY <1>0, PayFacts, CheckoutAssumption, <2>1 DEF Abort
  <2>2. CASE Run(w)
    BY <1>0, PayFacts, CheckoutAssumption, <2>2 DEF Run
  <2>3. CASE SettlePayment(w)
    BY <1>0, PayFacts, CheckoutAssumption, <2>3 DEF SettlePayment
  <2>4. CASE CancelPayment(w)
    BY <1>0, PayFacts, CheckoutAssumption, <2>4 DEF CancelPayment
  <2>5. CASE PaymentCancelled(w)
    BY <1>0, PayFacts, CheckoutAssumption, <2>5 DEF PaymentCancelled
  <2>6. CASE RefundPayment(w)
    BY <1>0, PayFacts, CheckoutAssumption, <2>6 DEF RefundPayment
  <2>7. CASE PaymentRefunded(w)
    BY <1>0, PayFacts, CheckoutAssumption, <2>7 DEF PaymentRefunded
  <2>8. CASE ReleaseStock(w)
    BY <1>0, PayFacts, CheckoutAssumption, <2>8 DEF ReleaseStock
  <2>9. CASE RestoreStock(w)
    BY <1>0, PayFacts, CheckoutAssumption, <2>9 DEF RestoreStock
  <2>10. CASE ReleasePromo(w)
    BY <1>0, PayFacts, CheckoutAssumption, <2>10 DEF ReleasePromo
  <2>11. CASE CloseOrder(w)
    BY <1>0, PayFacts, CheckoutAssumption, <2>11 DEF CloseOrder
  <2>12. CASE Compensated(w)
    BY <1>0, PayFacts, CheckoutAssumption, <2>12 DEF Compensated
  <2>13. CASE CompensationFailed(w)
    BY <1>0, PayFacts, CheckoutAssumption, <2>13 DEF CompensationFailed
  <2>14. CASE ExpireCheckout(w)
    BY <1>0, PayFacts, CheckoutAssumption, <2>14 DEF ExpireCheckout
  <2> QED
    BY <1>3, <2>1, <2>2, <2>3, <2>4, <2>5, <2>6, <2>7, <2>8, <2>9, <2>10, <2>11, <2>12, <2>13,
       <2>14 DEF Compensate
<1>4. CASE Retry(w)
  BY <1>0, <1>4 DEF Retry, LookUpPayment, RecreatePayment, PaymentRecreated, ChangePayment,
     CancelRetry, RetryCancelled
<1>5. CASE Job(w)
  <2>1. ASSUME NEW p \in Payments, PaymentAuthorized(w, p)
        PROVE  OnePlaces'
    BY <1>0, PayFacts, CheckoutAssumption, <2>1 DEF PaymentAuthorized
  <2>2. CASE ResumeStalled(w)
    BY <1>0, PayFacts, CheckoutAssumption, <2>2 DEF ResumeStalled
  <2>3. CASE ExpireCheckouts(w)
    BY <1>0, PayFacts, CheckoutAssumption, <2>3 DEF ExpireCheckouts
  <2>4. CASE RunCompensations(w)
    BY <1>0, PayFacts, CheckoutAssumption, <2>4 DEF RunCompensations
  <2> QED
    BY <1>5, <2>1, <2>2, <2>3, <2>4 DEF Job
<1>6. CASE Request(w)
  BY <1>0, <1>6 DEF Request, Reserve, CancelOrder, ResumeSaga, RetryPayment
<1>7. CASE Stop(w)
  BY <1>0, <1>7 DEF Stop, Pay!Fault
<1> QED
  BY <1>1, <1>2, <1>3, <1>4, <1>5, <1>6, <1>7 DEF Work

(* A worker waits for the payment command it has started, about the        *)
(* payment it has read; ChangePayment cannot take that payment away,       *)
(* because it needs a saga that runs and still awaits payment.             *)
LEMMA CommandInvariant ==
    ASSUME IInv, NEW w \in Workers,
           Work(w) \/ Job(w) \/ Request(w) \/ Stop(w), TypeOK'
    PROVE  \A v \in Workers : CommandOK(v)'
<1> USE DEF Running, Answered, MoveTo, Goto, Rest, TakeUp, Succeed, GiveUp, Trouble, Advanced,
        BeginCompensation, others, sagaVars, worker, payVars, Pay!StartCreate, Pay!StartCapture,
        Pay!StartCancel, Pay!StartRefund, Pay!Start, Pay!Return, Pay!Crash, Pay!Forget,
        Pay!NoCommand, Pay!deliveries, TypeOK, CommandOK, PlaceOK, RetryOK, UndoOK, ProgressOK,
        PlaceAt, RetryAt, UndoAt, SettleAt, CommitAt, Turned, Early, Charging, Pay!TypeOK,
        PP!CallOK, Compensations
<1>0. /\ TypeOK /\ OnePlaces /\ SagaOK /\ ProgressOK /\ DoneOK /\ ClosedMeansCompensating
      /\ \A v \in Workers : CommandOK(v) /\ PlaceOK(v) /\ UndoOK(v) /\ RetryOK(v) /\ PP!CallOK(v)
      /\ Pending \subseteq Compensations /\ (Pending # {} => FirstPending \in Pending)
  BY Unfold, FirstIsPending DEF Pending
<1>1. CASE Place(w)
  BY <1>0, <1>1 DEF Place, SaveOrder, Unreserve, Redeem, PromoRedeemed, CreatePayment,
     PaymentCreated, AwaitPayment
<1>2. CASE Progress(w)
  BY <1>0, <1>2 DEF Progress, CancelStray, StrayCancelled, Advance, CommitStock, StockCommitted,
     CapturePayment, PaymentAnswered, PaymentCaptured, Complete
<1>3. CASE Compensate(w)
  BY <1>0, <1>3 DEF Compensate, Abort, Run, SettlePayment, CancelPayment, PaymentCancelled,
     RefundPayment, PaymentRefunded, ReleaseStock, RestoreStock, ReleasePromo, CloseOrder,
     Compensated, CompensationFailed, ExpireCheckout
<1>4. CASE Retry(w)
  <2>1. CASE LookUpPayment(w)
    BY <1>0, PayFacts, CheckoutAssumption, <2>1 DEF LookUpPayment
  <2>2. CASE RecreatePayment(w)
    BY <1>0, PayFacts, CheckoutAssumption, <2>2 DEF RecreatePayment
  <2>3. CASE PaymentRecreated(w)
    BY <1>0, PayFacts, CheckoutAssumption, <2>3 DEF PaymentRecreated
  <2>4. CASE ChangePayment(w)
    <3>1. ASSUME payment' # payment, NEW v \in Workers
          PROVE  at[v] \notin {"cancelling", "capturing", "refunding"}
      <4>1. status = "running" /\ step = "awaiting_payment"
        BY <2>4, <3>1 DEF ChangePayment
      <4>2. UndoOK(v) /\ ProgressOK
        BY <1>0
      <4> QED
        BY <4>1, <4>2
    <3> QED
      BY <1>0, <2>4, <3>1 DEF ChangePayment
  <2>5. CASE CancelRetry(w)
    BY <1>0, PayFacts, CheckoutAssumption, <2>5 DEF CancelRetry
  <2>6. CASE RetryCancelled(w)
    BY <1>0, PayFacts, CheckoutAssumption, <2>6 DEF RetryCancelled
  <2> QED
    BY <1>4, <2>1, <2>2, <2>3, <2>4, <2>5, <2>6 DEF Retry
<1>5. CASE Job(w)
  <2>1. ASSUME NEW p \in Payments, PaymentAuthorized(w, p)
        PROVE  \A v \in Workers : CommandOK(v)'
    BY <1>0, PayFacts, CheckoutAssumption, <2>1 DEF PaymentAuthorized
  <2>2. CASE ResumeStalled(w)
    BY <1>0, PayFacts, CheckoutAssumption, <2>2 DEF ResumeStalled
  <2>3. CASE ExpireCheckouts(w)
    BY <1>0, PayFacts, CheckoutAssumption, <2>3 DEF ExpireCheckouts
  <2>4. CASE RunCompensations(w)
    BY <1>0, PayFacts, CheckoutAssumption, <2>4 DEF RunCompensations
  <2> QED
    BY <1>5, <2>1, <2>2, <2>3, <2>4 DEF Job
<1>6. CASE Request(w)
  BY <1>0, <1>6 DEF Request, Reserve, CancelOrder, ResumeSaga, RetryPayment
<1>7. CASE Stop(w)
  BY <1>0, <1>7 DEF Stop, Pay!Fault
<1> QED
  BY <1>1, <1>2, <1>3, <1>4, <1>5, <1>6, <1>7 DEF Work

(* The worker that places the order stays alone with its payment until it  *)
(* hands the URL out or the saga turns.                                    *)
LEMMA PlaceOKInvariant ==
    ASSUME IInv, NEW w \in Workers,
           Work(w) \/ Job(w) \/ Request(w) \/ Stop(w), TypeOK'
    PROVE  \A v \in Workers : PlaceOK(v)'
<1> USE DEF Running, Answered, MoveTo, Goto, Rest, TakeUp, Succeed, GiveUp, Trouble, Advanced,
        BeginCompensation, others, sagaVars, worker, payVars, Pay!StartCreate, Pay!StartCapture,
        Pay!StartCancel, Pay!StartRefund, Pay!Start, Pay!Return, Pay!Crash, Pay!Forget,
        Pay!NoCommand, Pay!deliveries, TypeOK, CommandOK, PlaceOK, OnePlaces, SagaOK, ProgressOK,
        UndoOK, PlaceAt, UndoAt, SettleAt, StockAt, CommitAt, Turned, Early, Charging,
        Pay!TypeOK, Committing, Proceeds, Expired
<1>0. /\ TypeOK /\ OnePlaces /\ SagaOK /\ ProgressOK /\ DoneOK /\ ClosedMeansCompensating
      /\ \A v \in Workers : CommandOK(v) /\ PlaceOK(v) /\ UndoOK(v) /\ RetryOK(v) /\ PP!CallOK(v)
      /\ Pending \subseteq Compensations /\ (Pending # {} => FirstPending \in Pending)
  BY Unfold, FirstIsPending DEF Pending
<1>1. CASE Place(w)
  <2>1. CASE SaveOrder(w)
    BY <1>0, PayFacts, CheckoutAssumption, <2>1 DEF SaveOrder
  <2>2. CASE Unreserve(w)
    BY <1>0, PayFacts, CheckoutAssumption, <2>2 DEF Unreserve
  <2>3. CASE Redeem(w)
    BY <1>0, PayFacts, CheckoutAssumption, <2>3 DEF Redeem
  <2>4. CASE PromoRedeemed(w)
    BY <1>0, PayFacts, CheckoutAssumption, <2>4 DEF PromoRedeemed
  <2>5. CASE CreatePayment(w)
    BY <1>0, PayFacts, CheckoutAssumption, <2>5 DEF CreatePayment
  <2>6. CASE PaymentCreated(w)
    BY <1>0, PayFacts, CheckoutAssumption, <2>6 DEF PaymentCreated
  <2>7. CASE AwaitPayment(w)
    BY <1>0, PayFacts, CheckoutAssumption, <2>7 DEF AwaitPayment
  <2> QED
    BY <1>1, <2>1, <2>2, <2>3, <2>4, <2>5, <2>6, <2>7 DEF Place
<1>2. CASE Progress(w)
  BY <1>0, <1>2 DEF Progress, CancelStray, StrayCancelled, Advance, CommitStock, StockCommitted,
     CapturePayment, PaymentAnswered, PaymentCaptured, Complete
<1>3. CASE Compensate(w)
  <2>1. CASE Abort(w)
    BY <1>0, PayFacts, CheckoutAssumption, <2>1 DEF Abort
  <2>2. CASE Run(w)
    <3>1. at'[w] \notin PlaceAt
      <4>1. at'[w] \in Compensations \cup {"idle"}
        <5>1. at \in [Workers -> Steps]
          BY <1>0
        <5>2. \/ at' = [at EXCEPT ![w] = FirstPending] /\ FirstPending \in Compensations
              \/ at' = [at EXCEPT ![w] = "idle"]
          BY <1>0, <2>2 DEF Run
        <5> QED
          BY <5>1, <5>2
      <4> QED
        BY <4>1 DEF Compensations
    <3>2. \A v \in Workers \ {w} : at'[v] = at[v] /\ pc'[v] = pc[v]
      BY <1>0, <2>2 DEF Run
    <3> QED
      BY <1>0, <2>2, <3>1, <3>2 DEF Run
  <2>3. CASE SettlePayment(w)
    BY <1>0, PayFacts, CheckoutAssumption, <2>3 DEF SettlePayment
  <2>4. CASE CancelPayment(w)
    BY <1>0, PayFacts, CheckoutAssumption, <2>4 DEF CancelPayment
  <2>5. CASE PaymentCancelled(w)
    BY <1>0, PayFacts, CheckoutAssumption, <2>5 DEF PaymentCancelled
  <2>6. CASE RefundPayment(w)
    BY <1>0, PayFacts, CheckoutAssumption, <2>6 DEF RefundPayment
  <2>7. CASE PaymentRefunded(w)
    BY <1>0, PayFacts, CheckoutAssumption, <2>7 DEF PaymentRefunded
  <2>8. CASE ReleaseStock(w)
    BY <1>0, PayFacts, CheckoutAssumption, <2>8 DEF ReleaseStock
  <2>9. CASE RestoreStock(w)
    BY <1>0, PayFacts, CheckoutAssumption, <2>9 DEF RestoreStock
  <2>10. CASE ReleasePromo(w)
    BY <1>0, PayFacts, CheckoutAssumption, <2>10 DEF ReleasePromo
  <2>11. CASE CloseOrder(w)
    BY <1>0, PayFacts, CheckoutAssumption, <2>11 DEF CloseOrder
  <2>12. CASE Compensated(w)
    BY <1>0, PayFacts, CheckoutAssumption, <2>12 DEF Compensated
  <2>13. CASE CompensationFailed(w)
    BY <1>0, PayFacts, CheckoutAssumption, <2>13 DEF CompensationFailed
  <2>14. CASE ExpireCheckout(w)
    BY <1>0, PayFacts, CheckoutAssumption, <2>14 DEF ExpireCheckout
  <2> QED
    BY <1>3, <2>1, <2>2, <2>3, <2>4, <2>5, <2>6, <2>7, <2>8, <2>9, <2>10, <2>11, <2>12, <2>13,
       <2>14 DEF Compensate
<1>4. CASE Retry(w)
  BY <1>0, <1>4 DEF Retry, LookUpPayment, RecreatePayment, PaymentRecreated, ChangePayment,
     CancelRetry, RetryCancelled
<1>5. CASE Job(w)
  <2>1. ASSUME NEW p \in Payments, PaymentAuthorized(w, p)
        PROVE  \A v \in Workers : PlaceOK(v)'
    BY <1>0, PayFacts, CheckoutAssumption, <2>1 DEF PaymentAuthorized
  <2>2. CASE ResumeStalled(w)
    BY <1>0, PayFacts, CheckoutAssumption, <2>2 DEF ResumeStalled
  <2>3. CASE ExpireCheckouts(w)
    BY <1>0, PayFacts, CheckoutAssumption, <2>3 DEF ExpireCheckouts
  <2>4. CASE RunCompensations(w)
    BY <1>0, PayFacts, CheckoutAssumption, <2>4 DEF RunCompensations
  <2> QED
    BY <1>5, <2>1, <2>2, <2>3, <2>4 DEF Job
<1>6. CASE Request(w)
  <2>1. CASE Reserve(w)
    BY <1>0, PayFacts, CheckoutAssumption, <2>1 DEF Reserve
  <2>2. CASE CancelOrder(w)
    BY <1>0, PayFacts, CheckoutAssumption, <2>2 DEF CancelOrder
  <2>3. CASE ResumeSaga(w)
    BY <1>0, PayFacts, CheckoutAssumption, <2>3 DEF ResumeSaga
  <2>4. CASE RetryPayment(w)
    BY <1>0, PayFacts, CheckoutAssumption, <2>4 DEF RetryPayment
  <2> QED
    BY <1>6, <2>1, <2>2, <2>3, <2>4 DEF Request
<1>7. CASE Stop(w)
  BY <1>0, <1>7 DEF Stop, Pay!Fault
<1> QED
  BY <1>1, <1>2, <1>3, <1>4, <1>5, <1>6, <1>7 DEF Work

(* A compensating worker goes on with the compensation it has read, and    *)
(* what it has executed stays in effect until it is recorded.              *)
LEMMA UndoOKInvariant ==
    ASSUME IInv, NEW w \in Workers,
           Work(w) \/ Job(w) \/ Request(w) \/ Stop(w), TypeOK'
    PROVE  \A v \in Workers : UndoOK(v)'
<1> USE DEF Running, Answered, MoveTo, Goto, Rest, TakeUp, Succeed, GiveUp, Trouble, Advanced,
        BeginCompensation, others, sagaVars, worker, payVars, Pay!StartCreate, Pay!StartCapture,
        Pay!StartCancel, Pay!StartRefund, Pay!Start, Pay!Return, Pay!Crash, Pay!Forget,
        Pay!NoCommand, Pay!deliveries, TypeOK, UndoOK, EffectOK, UndoAt, SettleAt, StockAt,
        Turned, Compensations, Uncharged, SagaOK, PlaceOK, PlaceAt, ProgressOK, CommitAt,
        Expired, Committing
<1>0. /\ TypeOK /\ OnePlaces /\ SagaOK /\ ProgressOK /\ DoneOK /\ ClosedMeansCompensating
      /\ \A v \in Workers : CommandOK(v) /\ PlaceOK(v) /\ UndoOK(v) /\ RetryOK(v) /\ PP!CallOK(v)
      /\ Pending \subseteq Compensations /\ (Pending # {} => FirstPending \in Pending)
  BY Unfold, FirstIsPending DEF Pending
<1>1. CASE Place(w)
  BY <1>0, <1>1 DEF Place, SaveOrder, Unreserve, Redeem, PromoRedeemed, CreatePayment,
     PaymentCreated, AwaitPayment
<1>2. CASE Progress(w)
  BY <1>0, <1>2 DEF Progress, CancelStray, StrayCancelled, Advance, CommitStock, StockCommitted,
     CapturePayment, PaymentAnswered, PaymentCaptured, Complete
<1>3. CASE Compensate(w)
  <2>1. CASE Abort(w)
    BY <1>0, PayFacts, CheckoutAssumption, <2>1 DEF Abort
  <2>2. CASE Run(w)
    <3>1. at[w] = "run" /\ UNCHANGED <<status, stock, payment, pay, intent, refund, exposed, order>>
      BY <2>2 DEF Run
    <3>2. \/ /\ at' = [at EXCEPT ![w] = FirstPending]
             /\ doing' = [doing EXCEPT ![w] = FirstPending]
             /\ FirstPending \in Compensations /\ status = "compensating"
          \/ at' = [at EXCEPT ![w] = "idle"] /\ doing' = [doing EXCEPT ![w] = "none"]
      BY <1>0, <2>2 DEF Run, Pending
    <3> QED
      BY <1>0, <3>1, <3>2
  <2>3. CASE SettlePayment(w)
    <3>1. UNCHANGED <<status, stock, payment, pay, intent, refund, exposed, order, doing>>
      BY <2>3 DEF SettlePayment
    <3>2. /\ at[w] = "settle_payment" /\ doing[w] = "settle_payment" /\ Turned
          /\ \/ /\ at' = [at EXCEPT ![w] = "executed"]
                /\ pay[payment] \notin Uncharged \cup {"captured"}
             \/ \E l \in {"cancel_payment", "refund_payment", "not_executed"} :
                   at' = [at EXCEPT ![w] = l]
      BY <1>0, <2>3 DEF SettlePayment
    <3>3. pay[payment] \notin Uncharged \cup {"captured"} => EffectOK("settle_payment")
      BY <1>0, PayFacts DEF Pay!TypeOK, Pay!Status
    <3> QED
      BY <1>0, <3>1, <3>2, <3>3
  <2>4. CASE CancelPayment(w)
    BY <1>0, PayFacts, CheckoutAssumption, <2>4 DEF CancelPayment
  <2>5. CASE PaymentCancelled(w)
    BY <1>0, PayFacts, CheckoutAssumption, <2>5 DEF PaymentCancelled
  <2>6. CASE RefundPayment(w)
    BY <1>0, PayFacts, CheckoutAssumption, <2>6 DEF RefundPayment
  <2>7. CASE PaymentRefunded(w)
    BY <1>0, PayFacts, CheckoutAssumption, <2>7 DEF PaymentRefunded
  <2>8. CASE ReleaseStock(w)
    BY <1>0, PayFacts, CheckoutAssumption, <2>8 DEF ReleaseStock
  <2>9. CASE RestoreStock(w)
    BY <1>0, PayFacts, CheckoutAssumption, <2>9 DEF RestoreStock
  <2>10. CASE ReleasePromo(w)
    BY <1>0, PayFacts, CheckoutAssumption, <2>10 DEF ReleasePromo
  <2>11. CASE CloseOrder(w)
    BY <1>0, PayFacts, CheckoutAssumption, <2>11 DEF CloseOrder
  <2>12. CASE Compensated(w)
    BY <1>0, PayFacts, CheckoutAssumption, <2>12 DEF Compensated
  <2>13. CASE CompensationFailed(w)
    BY <1>0, PayFacts, CheckoutAssumption, <2>13 DEF CompensationFailed
  <2>14. CASE ExpireCheckout(w)
    BY <1>0, PayFacts, CheckoutAssumption, <2>14 DEF ExpireCheckout
  <2> QED
    BY <1>3, <2>1, <2>2, <2>3, <2>4, <2>5, <2>6, <2>7, <2>8, <2>9, <2>10, <2>11, <2>12, <2>13,
       <2>14 DEF Compensate
<1>4. CASE Retry(w)
  BY <1>0, <1>4 DEF Retry, LookUpPayment, RecreatePayment, PaymentRecreated, ChangePayment,
     CancelRetry, RetryCancelled
<1>5. CASE Job(w)
  <2>1. ASSUME NEW p \in Payments, PaymentAuthorized(w, p)
        PROVE  \A v \in Workers : UndoOK(v)'
    BY <1>0, PayFacts, CheckoutAssumption, <2>1 DEF PaymentAuthorized
  <2>2. CASE ResumeStalled(w)
    BY <1>0, PayFacts, CheckoutAssumption, <2>2 DEF ResumeStalled
  <2>3. CASE ExpireCheckouts(w)
    BY <1>0, PayFacts, CheckoutAssumption, <2>3 DEF ExpireCheckouts
  <2>4. CASE RunCompensations(w)
    BY <1>0, PayFacts, CheckoutAssumption, <2>4 DEF RunCompensations
  <2> QED
    BY <1>5, <2>1, <2>2, <2>3, <2>4 DEF Job
<1>6. CASE Request(w)
  BY <1>0, <1>6 DEF Request, Reserve, CancelOrder, ResumeSaga, RetryPayment
<1>7. CASE Stop(w)
  BY <1>0, <1>7 DEF Stop, Pay!Fault
<1> QED
  BY <1>1, <1>2, <1>3, <1>4, <1>5, <1>6, <1>7 DEF Work

(* Two retries never share a payment: each chooses one nobody has.         *)
LEMMA RetryOKInvariant ==
    ASSUME IInv, NEW w \in Workers,
           Work(w) \/ Job(w) \/ Request(w) \/ Stop(w), TypeOK'
    PROVE  \A v \in Workers : RetryOK(v)'
<1> USE DEF Running, Answered, MoveTo, Goto, Rest, TakeUp, Succeed, GiveUp, Trouble, Advanced,
        BeginCompensation, others, sagaVars, worker, payVars, Pay!StartCreate, Pay!StartCapture,
        Pay!StartCancel, Pay!StartRefund, Pay!Start, Pay!Return, Pay!Crash, Pay!Forget,
        Pay!NoCommand, Pay!deliveries, TypeOK, RetryOK, RetryAt, Compensations, FreshPayments,
        PlaceOK, PlaceAt, SagaOK, ProgressOK, UndoOK
<1>0. /\ TypeOK /\ OnePlaces /\ SagaOK /\ ProgressOK /\ DoneOK /\ ClosedMeansCompensating
      /\ \A v \in Workers : CommandOK(v) /\ PlaceOK(v) /\ UndoOK(v) /\ RetryOK(v) /\ PP!CallOK(v)
      /\ Pending \subseteq Compensations /\ (Pending # {} => FirstPending \in Pending)
  BY Unfold, FirstIsPending DEF Pending
<1>1. CASE Place(w)
  <2>1. CASE SaveOrder(w)
    BY <1>0, PayFacts, CheckoutAssumption, <2>1 DEF SaveOrder
  <2>2. CASE Unreserve(w)
    BY <1>0, PayFacts, CheckoutAssumption, <2>2 DEF Unreserve
  <2>3. CASE Redeem(w)
    BY <1>0, PayFacts, CheckoutAssumption, <2>3 DEF Redeem
  <2>4. CASE PromoRedeemed(w)
    BY <1>0, PayFacts, CheckoutAssumption, <2>4 DEF PromoRedeemed
  <2>5. CASE CreatePayment(w)
    BY <1>0, PayFacts, CheckoutAssumption, <2>5 DEF CreatePayment
  <2>6. CASE PaymentCreated(w)
    BY <1>0, PayFacts, CheckoutAssumption, <2>6 DEF PaymentCreated
  <2>7. CASE AwaitPayment(w)
    BY <1>0, PayFacts, CheckoutAssumption, <2>7 DEF AwaitPayment
  <2> QED
    BY <1>1, <2>1, <2>2, <2>3, <2>4, <2>5, <2>6, <2>7 DEF Place
<1>2. CASE Progress(w)
  <2>1. CASE CancelStray(w)
    BY <1>0, PayFacts, CheckoutAssumption, <2>1 DEF CancelStray
  <2>2. CASE StrayCancelled(w)
    BY <1>0, PayFacts, CheckoutAssumption, <2>2 DEF StrayCancelled
  <2>3. CASE Advance(w)
    BY <1>0, PayFacts, CheckoutAssumption, <2>3 DEF Advance
  <2>4. CASE CommitStock(w)
    BY <1>0, PayFacts, CheckoutAssumption, <2>4 DEF CommitStock
  <2>5. CASE StockCommitted(w)
    BY <1>0, PayFacts, CheckoutAssumption, <2>5 DEF StockCommitted
  <2>6. CASE CapturePayment(w)
    BY <1>0, PayFacts, CheckoutAssumption, <2>6 DEF CapturePayment
  <2>7. CASE PaymentAnswered(w)
    BY <1>0, PayFacts, CheckoutAssumption, <2>7 DEF PaymentAnswered
  <2>8. CASE PaymentCaptured(w)
    BY <1>0, PayFacts, CheckoutAssumption, <2>8 DEF PaymentCaptured
  <2>9. CASE Complete(w)
    BY <1>0, PayFacts, CheckoutAssumption, <2>9 DEF Complete
  <2> QED
    BY <1>2, <2>1, <2>2, <2>3, <2>4, <2>5, <2>6, <2>7, <2>8, <2>9 DEF Progress
<1>3. CASE Compensate(w)
  <2>1. CASE Abort(w)
    BY <1>0, PayFacts, CheckoutAssumption, <2>1 DEF Abort
  <2>2. CASE Run(w)
    BY <1>0, PayFacts, CheckoutAssumption, <2>2 DEF Run
  <2>3. CASE SettlePayment(w)
    BY <1>0, PayFacts, CheckoutAssumption, <2>3 DEF SettlePayment
  <2>4. CASE CancelPayment(w)
    BY <1>0, PayFacts, CheckoutAssumption, <2>4 DEF CancelPayment
  <2>5. CASE PaymentCancelled(w)
    BY <1>0, PayFacts, CheckoutAssumption, <2>5 DEF PaymentCancelled
  <2>6. CASE RefundPayment(w)
    BY <1>0, PayFacts, CheckoutAssumption, <2>6 DEF RefundPayment
  <2>7. CASE PaymentRefunded(w)
    BY <1>0, PayFacts, CheckoutAssumption, <2>7 DEF PaymentRefunded
  <2>8. CASE ReleaseStock(w)
    BY <1>0, PayFacts, CheckoutAssumption, <2>8 DEF ReleaseStock
  <2>9. CASE RestoreStock(w)
    BY <1>0, PayFacts, CheckoutAssumption, <2>9 DEF RestoreStock
  <2>10. CASE ReleasePromo(w)
    BY <1>0, PayFacts, CheckoutAssumption, <2>10 DEF ReleasePromo
  <2>11. CASE CloseOrder(w)
    BY <1>0, PayFacts, CheckoutAssumption, <2>11 DEF CloseOrder
  <2>12. CASE Compensated(w)
    BY <1>0, PayFacts, CheckoutAssumption, <2>12 DEF Compensated
  <2>13. CASE CompensationFailed(w)
    BY <1>0, PayFacts, CheckoutAssumption, <2>13 DEF CompensationFailed
  <2>14. CASE ExpireCheckout(w)
    BY <1>0, PayFacts, CheckoutAssumption, <2>14 DEF ExpireCheckout
  <2> QED
    BY <1>3, <2>1, <2>2, <2>3, <2>4, <2>5, <2>6, <2>7, <2>8, <2>9, <2>10, <2>11, <2>12, <2>13,
       <2>14 DEF Compensate
<1>4. CASE Retry(w)
  <2>1. CASE LookUpPayment(w)
    BY <1>0, PayFacts, CheckoutAssumption, <2>1 DEF LookUpPayment
  <2>2. CASE RecreatePayment(w)
    BY <1>0, PayFacts, CheckoutAssumption, <2>2 DEF RecreatePayment
  <2>3. CASE PaymentRecreated(w)
    BY <1>0, PayFacts, CheckoutAssumption, <2>3 DEF PaymentRecreated
  <2>4. CASE ChangePayment(w)
    BY <1>0, PayFacts, CheckoutAssumption, <2>4 DEF ChangePayment
  <2>5. CASE CancelRetry(w)
    BY <1>0, PayFacts, CheckoutAssumption, <2>5 DEF CancelRetry
  <2>6. CASE RetryCancelled(w)
    BY <1>0, PayFacts, CheckoutAssumption, <2>6 DEF RetryCancelled
  <2> QED
    BY <1>4, <2>1, <2>2, <2>3, <2>4, <2>5, <2>6 DEF Retry
<1>5. CASE Job(w)
  <2>1. ASSUME NEW p \in Payments, PaymentAuthorized(w, p)
        PROVE  \A v \in Workers : RetryOK(v)'
    BY <1>0, PayFacts, CheckoutAssumption, <2>1 DEF PaymentAuthorized
  <2>2. CASE ResumeStalled(w)
    BY <1>0, PayFacts, CheckoutAssumption, <2>2 DEF ResumeStalled
  <2>3. CASE ExpireCheckouts(w)
    BY <1>0, PayFacts, CheckoutAssumption, <2>3 DEF ExpireCheckouts
  <2>4. CASE RunCompensations(w)
    BY <1>0, PayFacts, CheckoutAssumption, <2>4 DEF RunCompensations
  <2> QED
    BY <1>5, <2>1, <2>2, <2>3, <2>4 DEF Job
<1>6. CASE Request(w)
  BY <1>0, <1>6 DEF Request, Reserve, CancelOrder, ResumeSaga, RetryPayment
<1>7. CASE Stop(w)
  <2>1. /\ \A v \in Workers \ {w} : at'[v] = at[v] /\ subject'[v] = subject[v] /\ role'[v] = role[v]
                                     /\ pc'[v] = pc[v]
        /\ at'[w] = "idle" /\ role'[w] = "none"
        /\ UNCHANGED <<exposed, outbox, pay>>
    BY <1>0, <1>7 DEF Stop, Pay!TypeOK
  <2> QED
    BY <1>0, <2>1
<1> QED
  BY <1>1, <1>2, <1>3, <1>4, <1>5, <1>6, <1>7 DEF Work
-----------------------------------------------------------------------------
(* The steps of the payment context, and those of nobody.                  *)

(* A step of a payment command or of the provider leaves the checkout      *)
(* where it is, and only the command that moves gets an answer.            *)
LEMMA PayStepMoves ==
    ASSUME IInv, (\E w \in Workers : CommandStep(w)) \/ (\E p \in Payments : Provider(p))
    PROVE  /\ UNCHANGED <<order, status, step, captured, done, attempts, payment, stock, promo,
                          late, acked, troubles, role, at, subject, doing, cmd, exposed>>
           /\ \A v \in Workers : pc'[v] = pc[v] \/ PP!Step(v)
           /\ (\E w \in Workers : PP!Step(w)) \/ (\E p \in Payments : PP!Provider(p))
<1>1. UNCHANGED <<order, status, step, captured, done, attempts, payment, stock, promo,
                  late, acked, troubles, role, at, subject, doing>>
  BY DEF CommandStep, Provider, sagaVars, others, worker
<1>2. ASSUME NEW w \in Workers, CommandStep(w)
      PROVE  /\ PP!Step(w) /\ UNCHANGED <<cmd, exposed>>
             /\ \A v \in Workers : pc'[v] = pc[v] \/ v = w
  <2>1. PP!Step(w)
    BY <1>2, SamePayment DEF CommandStep
  <2>2. PP!TypeOK /\ PP!CallOK(w)
    BY Unfold DEF IInv, PP!IInv
  <2>3. UNCHANGED <<cmd, exposed>> /\ \E l \in PP!Labels \cup PP!Results : PP!Goto(w, l)
    BY <2>1, <2>2, PP!StepMoves, CheckoutAssumption
  <2> QED
    BY <2>1, <2>2, <2>3 DEF PP!Goto, PP!TypeOK
<1>3. ASSUME NEW p \in Payments, Provider(p)
      PROVE  PP!Provider(p) /\ UNCHANGED <<cmd, exposed, pc>>
  <2>1. PP!Provider(p)
    BY <1>3, SamePayment DEF Provider
  <2> QED
    BY <2>1 DEF PP!Provider, PP!Confirm, PP!Approve, PP!Decline, PP!Webhook, PP!WebhookAuthorized,
       PP!WebhookFailed, PP!LateVoid, PP!GivenUp, PP!LoseWebhook, PP!BuyerLeaves, PP!HandlerEnds,
       PP!deliveries
<1> QED
  BY <1>1, <1>2, <1>3

(* A creation that has just succeeded leaves its payment pending.          *)
LEMMA CreationAnswered ==
    ASSUME IInv, NEW w \in Workers, PP!Step(w), at[w] \in {"creating", "recreating"},
           pc'[w] = "ok"
    PROVE  pay'[cmd[w].pay] = "pending"
<1>1. cmd[w].op = "create"
  BY Unfold DEF CommandOK
<1> QED
  BY <1>1, PP!CreateAnswers, CheckoutAssumption DEF IInv

(* A payment whose creation has been answered stays pending until its      *)
(* worker goes on.                                                         *)
LEMMA CreationKept ==
    ASSUME IInv, NEW w \in Workers, NEW q \in Payments,
           (\E v \in Workers : CommandStep(v)) \/ (\E p \in Payments : Provider(p)),
           pay[q] = "pending",
           \/ q = first /\ ~Turned /\ (at[w] = "await" \/ (at[w] = "creating" /\ pc[w] = "ok"))
           \/ q = subject[w] /\ (at[w] = "change" \/ (at[w] = "recreating" /\ pc[w] = "ok"))
    PROVE  pay'[q] = "pending"
<1>1. \A v \in Workers : cmd[v].op = "create"
         => \/ at[v] = "creating" /\ cmd[v].pay = first
            \/ at[v] = "recreating" /\ cmd[v].pay = subject[v] /\ subject[v] # first
  BY Unfold DEF CommandOK, RetryOK, RetryAt
<1>2. "ok" \notin Pay!Labels
  BY DEF Pay!Labels
<1>3. ~Pay!InFlight("create", q)
  <2>1. CASE q = first
    <3>1. at[w] \in {"await", "creating"}
      BY <2>1, Unfold DEF RetryOK, RetryAt
    <3>2. \A v \in Workers : at[v] = "creating" => v = w
      BY <3>1, Unfold DEF OnePlaces, PlaceAt
    <3> QED
      BY <1>1, <1>2, <2>1, <3>1, <3>2, Unfold DEF Pay!InFlight, RetryOK, RetryAt
  <2>2. CASE q # first
    <3>1. q = subject[w] /\ (at[w] = "change" \/ (at[w] = "recreating" /\ pc[w] = "ok"))
      BY <2>2
    <3>2. \A v \in Workers \ {w} : at[v] = "recreating" => subject[v] # q
      BY <3>1, Unfold DEF RetryOK, RetryAt
    <3> QED
      BY <1>1, <1>2, <2>2, <3>1, <3>2 DEF Pay!InFlight
  <2> QED
    BY <2>1, <2>2
<1>4. ~Pay!InFlight("cancel", q)
  BY NoCanceller
<1>5. q \notin exposed
  BY Unfold DEF PlaceOK, PlaceAt, RetryOK, RetryAt
<1>6. ~PP!InFlight("create", q) /\ ~PP!InFlight("cancel", q)
  BY <1>3, <1>4, SamePayment
<1>7. (\E v \in Workers : PP!Step(v)) \/ (\E p \in Payments : PP!Provider(p))
  BY PayStepMoves
<1> QED
  BY <1>5, <1>6, <1>7, PP!PendingKept, CheckoutAssumption DEF IInv

(* What a compensation has achieved at the payment context is final.       *)
LEMMA EffectKept ==
    ASSUME IInv, [Next]_vars, UNCHANGED <<payment, exposed, stock, order>>,
           NEW c \in Compensations, EffectOK(c)
    PROVE  EffectOK(c)'
<1>1. PP!Stable(payment)
  BY PayKept, Unfold DEF TypeOK
<1>2. /\ pay[payment] \in {"cancelled", "failed"} => pay'[payment] \in {"cancelled", "failed"}
      /\ intent[payment] = "refunded" => intent'[payment] = "refunded"
      /\ refund[payment][refundId] = "failed" => refund'[payment][refundId] = "failed"
  BY <1>1 DEF PP!Stable
<1> QED
  BY <1>2 DEF EffectOK

(* The steps of the payment context keep what the workers rely on.         *)
LEMMA PayStepsKeep ==
    ASSUME IInv, [Next]_vars,
           (\E w \in Workers : CommandStep(w)) \/ (\E p \in Payments : Provider(p))
    PROVE  CInv'
<1>0. /\ TypeOK /\ OnePlaces /\ SagaOK /\ ProgressOK /\ DoneOK /\ ClosedMeansCompensating
      /\ \A v \in Workers : CommandOK(v) /\ PlaceOK(v) /\ UndoOK(v) /\ RetryOK(v)
  BY Unfold
<1>1. /\ UNCHANGED <<order, status, step, captured, done, attempts, payment, stock, promo,
                     late, acked, troubles, role, at, subject, doing, cmd, exposed>>
      /\ \A v \in Workers : pc'[v] = pc[v] \/ PP!Step(v)
  BY PayStepMoves
<1>2. TypeOK'
  BY <1>0, <1>1, PayKept DEF TypeOK
<1>3. ASSUME NEW w \in Workers PROVE CommandOK(w)'
  BY <1>0, <1>1 DEF CommandOK
<1>4. ASSUME NEW w \in Workers PROVE PlaceOK(w)'
  <2>1. ASSUME at[w] = "await" \/ (at[w] = "creating" /\ pc'[w] = "ok"), status = "running"
        PROVE  pay'[first] = "pending"
    <3>1. CASE at[w] = "creating" /\ pc[w] # "ok"
      BY <1>0, <1>1, <2>1, <3>1, CreationAnswered DEF CommandOK
    <3>2. CASE at[w] = "await" \/ pc[w] = "ok"
      <4>1. pay[first] = "pending" /\ ~Turned
        BY <1>0, <2>1, <3>2 DEF PlaceOK, PlaceAt, Turned
      <4> QED
        BY <2>1, <3>2, <4>1, CreationKept, CheckoutAssumption
    <3> QED
      BY <2>1, <3>1, <3>2
  <2> QED
    BY <1>0, <1>1, <2>1 DEF PlaceOK, PlaceAt, Turned
<1>5. OnePlaces' /\ SagaOK' /\ ClosedMeansCompensating'
  BY <1>0, <1>1 DEF OnePlaces, SagaOK, ClosedMeansCompensating, Turned
<1>6. ProgressOK'
  <2>1. ~Turned => \A w \in Workers : cmd[w].op # "refund"
    BY <1>0 DEF CommandOK, UndoOK, UndoAt, SettleAt
  <2>2. ~Turned => \A p \in Payments :
           /\ pay[p] = "captured" => pay'[p] = "captured"
           /\ intent[p] # "refunded" => intent'[p] # "refunded"
    BY <2>1, PayKept
  <2>3. payment \in Payments
    BY <1>0 DEF TypeOK
  <2>4. Turned' <=> Turned
    BY <1>1 DEF Turned
  <2>5. (HasCommitted' <=> HasCommitted) /\ (HasCaptured' <=> HasCaptured)
    BY <1>1 DEF HasCommitted, HasCaptured
  <2> QED
    BY <1>0, <1>1, <2>2, <2>3, <2>4, <2>5 DEF ProgressOK
<1>7. \A c \in Compensations : EffectOK(c) => EffectOK(c)'
  BY <1>1, EffectKept
<1>8. ASSUME NEW w \in Workers PROVE UndoOK(w)'
  BY <1>0, <1>1, <1>7 DEF UndoOK, Turned
<1>9. DoneOK'
  BY <1>0, <1>1, <1>7 DEF DoneOK, Turned, TypeOK
<1>10. ASSUME NEW w \in Workers PROVE RetryOK(w)'
  <2>1. \A p \in Payments : p \in outbox => p \in outbox'
    BY PayKept DEF PP!Stable
  <2>2. outbox \subseteq Payments
    BY PayFacts
  <2>3. ASSUME at[w] = "change" \/ (at[w] = "recreating" /\ pc'[w] = "ok")
        PROVE  pay'[subject[w]] = "pending"
    <3>1. subject[w] \in Payments
      BY <1>0, <2>3 DEF RetryOK, RetryAt
    <3>2. CASE at[w] = "recreating" /\ pc[w] # "ok"
      BY <1>0, <1>1, <2>3, <3>2, CreationAnswered DEF CommandOK
    <3>3. CASE at[w] = "change" \/ pc[w] = "ok"
      <4>1. pay[subject[w]] = "pending"
        BY <1>0, <2>3, <3>3 DEF RetryOK, RetryAt
      <4> QED
        BY <2>3, <3>1, <3>3, <4>1, CreationKept
    <3> QED
      BY <2>3, <3>2, <3>3
  <2> QED
    BY <1>0, <1>1, <2>1, <2>2, <2>3 DEF RetryOK, RetryAt
<1> QED
  BY <1>2, <1>3, <1>4, <1>5, <1>6, <1>8, <1>9, <1>10 DEF CInv

(* The seller, the clock and inventory's job.                              *)
LEMMA OutsideKeeps ==
    ASSUME IInv, Fulfil \/ DeadlinePasses \/ Lapse \/ UNCHANGED vars
    PROVE  CInv'
<1>0. /\ TypeOK /\ OnePlaces /\ SagaOK /\ ProgressOK /\ DoneOK /\ ClosedMeansCompensating
      /\ \A v \in Workers : CommandOK(v) /\ PlaceOK(v) /\ UndoOK(v) /\ RetryOK(v)
  BY Unfold
<1>1. /\ UNCHANGED <<status, step, captured, done, attempts, payment, promo, acked, troubles,
                     role, at, subject, doing, pay, refund, outbox, cmd, pc, intent, returned,
                     exposed, left, recorded, handling, gone, faults>>
      /\ late' \in {late, TRUE}
      /\ stock' = stock \/ (stock = "held" /\ stock' = "lapsed")
      /\ \/ order' = order
         \/ order \in {"paid", "shipped", "delivered"}
            /\ order' \in {"shipped", "delivered", "completed"}
  BY DEF Fulfil, Deliver, DeadlinePasses, Lapse, vars, sagaVars, others, worker, payVars
<1>2. TypeOK'
  <2>1. Pay!TypeOK'
    BY <1>0, <1>1 DEF TypeOK, Pay!TypeOK
  <2>2. late' \in BOOLEAN
    BY <1>0, <1>1, Zenon DEF TypeOK
  <2> QED
    BY <1>0, <1>1, <2>1, <2>2 DEF TypeOK, OrderStatus
<1>3. ASSUME NEW w \in Workers PROVE CommandOK(w)' /\ PlaceOK(w)' /\ UndoOK(w)' /\ RetryOK(w)'
  <2>1. CommandOK(w)' /\ RetryOK(w)'
    BY <1>0, <1>1 DEF CommandOK, RetryOK
  <2>2. PlaceOK(w)'
    BY <1>0, <1>1 DEF PlaceOK, Turned
  <2>3. \A c \in Compensations : EffectOK(c) => EffectOK(c)'
    BY <1>1 DEF EffectOK
  <2>4. UndoOK(w)'
    BY <1>0, <1>1, <2>3 DEF UndoOK, Turned
  <2> QED
    BY <2>1, <2>2, <2>4
<1>4. OnePlaces'
  BY <1>0, <1>1 DEF OnePlaces
<1>5. SagaOK' /\ ClosedMeansCompensating'
  BY <1>0, <1>1 DEF SagaOK, ClosedMeansCompensating, Turned, Paid
<1>6. ProgressOK'
  <2>1. (HasCommitted' <=> HasCommitted) /\ (HasCaptured' <=> HasCaptured) /\ (Turned' <=> Turned)
    BY <1>1 DEF HasCommitted, HasCaptured, Turned
  <2> QED
    BY <1>0, <1>1, <2>1 DEF ProgressOK
<1>7. DoneOK'
  BY <1>0, <1>1 DEF DoneOK, EffectOK, Turned
<1> QED
  BY <1>2, <1>3, <1>4, <1>5, <1>6, <1>7 DEF CInv

-----------------------------------------------------------------------------
(* Before the order is placed nobody is at work.                           *)
LEMMA Initially == Init => IInv
<1> SUFFICES ASSUME Init PROVE IInv
  OBVIOUS
<1>1. PP!Init
  BY SamePayment DEF Init
<1>2. PP!IInv
  BY <1>1, PP!Initially, CheckoutAssumption
<1>3. Pay!TypeOK
  BY <1>2, SamePayment DEF PP!IInv
<1>4. TypeOK
  <2>1. /\ role \in [Workers -> Handlers \cup {"none"}] /\ at \in [Workers -> Steps]
        /\ subject \in [Workers -> Payments \cup {None}]
        /\ doing \in [Workers -> Compensations \cup {"none"}]
        /\ \A w \in Workers : role[w] = "none" /\ at[w] = "idle"
    BY DEF Init, Steps
  <2>2. /\ payment \in Payments /\ troubles \in 0..MaxTroubles /\ attempts \in 0..MaxAttempts
    BY CheckoutAssumption DEF Init
  <2>3. promo \in BOOLEAN /\ late \in BOOLEAN /\ captured \in BOOLEAN
    BY Zenon DEF Init
  <2> QED
    BY <1>3, <2>1, <2>2, <2>3 DEF Init, TypeOK, OrderStatus, SagaStatus, SagaSteps
<1>5. \A w \in Workers : at[w] = "idle" /\ role[w] = "none"
  BY DEF Init
<1>6. \A w \in Workers : CommandOK(w) /\ PlaceOK(w) /\ UndoOK(w) /\ RetryOK(w)
  BY <1>5 DEF Init, CommandOK, PlaceOK, UndoOK, RetryOK, PlaceAt, UndoAt, SettleAt, StockAt,
     RetryAt,
     Pay!Init, Pay!NoCommand
<1>7. OnePlaces /\ SagaOK /\ DoneOK /\ ClosedMeansCompensating
  BY <1>5 DEF Init, OnePlaces, SagaOK, DoneOK, ClosedMeansCompensating, PlaceAt, Turned, Pay!Init
<1>8. ProgressOK
  BY <1>5 DEF Init, ProgressOK, HasCommitted, HasCaptured, Turned, CommitAt, Pay!Init
<1> QED
  BY <1>2, <1>4, <1>6, <1>7, <1>8 DEF IInv, CInv

(* Every step of a worker, of the payment context or of nobody keeps it.   *)
LEMMA Inductive == IInv /\ [Next]_vars => IInv'
<1> SUFFICES ASSUME IInv, [Next]_vars PROVE IInv'
  OBVIOUS
<1>1. ASSUME NEW w \in Workers, Work(w) \/ Job(w) \/ Request(w) \/ Stop(w) PROVE CInv'
  <2>1. TypeOK'
    BY <1>1, SagaTypes, WorkerTypes, PayKept DEF TypeOK
  <2>2. \A v \in Workers : CommandOK(v)' /\ PlaceOK(v)' /\ UndoOK(v)' /\ RetryOK(v)'
    BY <1>1, <2>1, CommandInvariant, PlaceOKInvariant, UndoOKInvariant, RetryOKInvariant
  <2>3. OnePlaces' /\ SagaOK' /\ ProgressOK' /\ DoneOK' /\ ClosedMeansCompensating'
    BY <1>1, <2>1, OnePlacesInvariant, SagaInvariant, ProgressInvariant, DoneInvariant,
       ClosedInvariant
  <2> QED
    BY <2>1, <2>2, <2>3 DEF CInv
<1>2. ASSUME (\E w \in Workers : CommandStep(w)) \/ (\E p \in Payments : Provider(p))
      PROVE  CInv'
  BY <1>2, PayStepsKeep
<1>3. ASSUME Fulfil \/ DeadlinePasses \/ Lapse \/ UNCHANGED vars PROVE CInv'
  BY <1>3, OutsideKeeps
<1>4. CInv'
  BY <1>1, <1>2, <1>3 DEF Next
<1> QED
  BY <1>4, PayKept DEF IInv

(* The invariant holds in every reachable state.                           *)
LEMMA Invariance == Spec => []IInv
<1> QED
  BY Initially, Inductive, PTL DEF Spec

-----------------------------------------------------------------------------
(* Every variable stays in its range, and only a worker that runs a        *)
(* handler has a step to go on with, whichever handlers run side by side   *)
(* and wherever they stop.                                                 *)
THEOREM TypeCorrect == Spec => []TypeOK
<1>1. IInv => TypeOK
  BY Unfold
<1> QED
  BY <1>1, Invariance, PTL

(* The handlers of the checkout call the payment context and inventory as  *)
(* these assume to be called: PayMoves and StockMoves, step by step.       *)
THEOREM UsesTheContexts == Spec => UsesContexts
<1>1. Init => Pay!Init /\ Stock!Init
  BY DEF Init, Stock!Init
<1>2. IInv /\ [Next]_vars => [Pay!Next]_payVars /\ [Stock!Next]_stock
  BY PayMoves, StockMoves
<1> QED
  BY <1>1, <1>2, Invariance, PTL DEF Spec, UsesContexts

(* The step before the last one of the saga is recorded after the capture, *)
(* and the one before that after the sale of the units.                    *)
LEMMA CompletedIsPaid == IInv => CompletedMeansPaid
<1> SUFFICES ASSUME IInv, status = "completed"
             PROVE  /\ order \in {"paid", "shipped", "delivered", "completed"}
                    /\ pay[payment] = "captured" /\ intent[payment] = "captured"
                    /\ stock = "committed"
                    /\ promo = HasPromo
  BY DEF CompletedMeansPaid
<1>1. /\ order \in Paid /\ step = "completed" /\ ~Turned /\ payment \in Payments
      /\ promo \in BOOLEAN
  BY Unfold DEF SagaOK, TypeOK, Turned
<1>2. /\ stock = "committed" /\ pay[payment] = "captured" /\ intent[payment] # "refunded"
      /\ (promo <=> HasPromo)
  BY <1>1, Unfold DEF ProgressOK, HasCommitted, HasCaptured
<1>3. intent[payment] \in {"captured", "refunded"}
  BY <1>1, <1>2, Unfold DEF PP!PayOK
<1>4. promo = HasPromo
  BY <1>1, <1>2, CheckoutAssumption, Zenon
<1> QED
  BY <1>1, <1>2, <1>3, <1>4 DEF Paid

(* A checkout reported complete has charged the buyer, sold the units and  *)
(* used the code: the status that MarkPaid's transaction writes.           *)
THEOREM CompletedAlwaysPaid == Spec => []CompletedMeansPaid
<1> QED
  BY CompletedIsPaid, Invariance, PTL

(* A compensated checkout holds no unit and no authorisation, and keeps    *)
(* money only where the refund is recorded as failed: what the loop of Run *)
(* has achieved when it finds nothing pending any more.                    *)
THEOREM CompensatedAlwaysSettles == Spec => []CompensatedSettles
<1>1. ASSUME IInv PROVE CompensatedSettles
  <2> SUFFICES ASSUME status = "compensated" PROVE
         /\ stock \notin {"held", "committed"}
         /\ order \notin {"created", "awaiting_payment"}
         /\ intent[payment] # "authorized"
         /\ intent[payment] = "captured" => refund[payment][refundId] = "failed"
    BY DEF CompensatedSettles
  <2>1. EffectOK("settle_payment") /\ EffectOK("return_stock") /\ EffectOK("close_order")
    BY <1>1, Unfold DEF DoneOK
  <2>2. payment \in Payments /\ payment \in exposed \cup {first}
    BY <1>1, Unfold DEF TypeOK, SagaOK
  <2>3. PP!PayOK(payment) /\ PP!RefundOK(payment)
    BY <1>1, <2>2, Unfold
  <2>4. refund[payment][refundId] = "failed" => pay[payment] \in {"captured", "refunded"}
    BY <2>3 DEF PP!RefundOK
  <2> QED
    BY <2>1, <2>2, <2>3, <2>4 DEF EffectOK, PP!PayOK
<1> QED
  BY <1>1, Invariance, PTL

(* Whoever cancels or fails the order, CancelOrder and CloseOrder, has     *)
(* turned the saga round, whatever else advances it at the same time.      *)
THEOREM ClosedAlwaysCompensates == Spec => []ClosedMeansCompensating
<1>1. IInv => ClosedMeansCompensating
  BY Unfold
<1> QED
  BY <1>1, Invariance, PTL

-----------------------------------------------------------------------------
(* Cancelling against paying.  Without the next assumption PaidIsKept      *)
(* fails: of two workers that complete the checkout the slower finds the   *)
(* order shipped, takes that for a failed checkout and aborts it.          *)

(* Only one worker runs the handlers that advance the checkout.            *)
OneAdvancer ==
    \A v, w \in Workers :
       Roles[v] \cap {"event", "stalled"} # {} /\ Roles[w] \cap {"event", "stalled"} # {} => v = w

(* A worker that may still abort does so before the checkout is complete.  *)
AbortOK(w) ==
    /\ role[w] \in Roles[w] \cup {"none"}
    /\ at[w] \in CommitAt \cup {"advance"}
          => role[w] \in {"event", "stalled"} /\ status # "completed"
    /\ at[w] = "abort" => \/ /\ role[w] = "place" /\ step \in Early /\ stock # "none"
                             /\ \A v \in Workers : at[v] \notin PlaceAt
                          \/ role[w] \in {"event", "stalled"} /\ status # "completed"
    /\ at[w] \in PlaceAt => role[w] = "place"

(* Before the seller ships it, and ever after, a paid order is complete.   *)
PaidOK == order \in Paid => status = "completed"

AInv == (\A w \in Workers : AbortOK(w)) /\ PaidOK

(* A worker that advances the checkout, or may abort it, has not seen it   *)
(* complete.                                                               *)
LEMMA AbortInvariant ==
    ASSUME IInv, OneAdvancer, AInv, NEW w \in Workers,
           Work(w) \/ Job(w) \/ Request(w) \/ Stop(w)
    PROVE  \A v \in Workers : AbortOK(v)'
<1> USE DEF Running, Answered, MoveTo, Goto, Rest, TakeUp, Succeed, GiveUp, Trouble, Advanced,
        BeginCompensation, others, sagaVars, worker, TypeOK, AbortOK, PlaceAt, CommitAt, SagaOK,
        ProgressOK, PlaceOK, OnePlaces, RetryOK, UndoOK, Turned, UndoAt, SettleAt, StockAt,
        RetryAt, Early, Charging, Compensations, Committing, Expired, OneAdvancer, Proceeds
<1>0. /\ TypeOK /\ OnePlaces /\ SagaOK /\ ProgressOK
      /\ \A v \in Workers : PlaceOK(v) /\ UndoOK(v) /\ AbortOK(v)
      /\ PaidOK /\ (Pending # {} => FirstPending \in Compensations)
  BY Unfold, FirstIsPending DEF Pending, AInv
<1>1. CASE Place(w)
  <2>1. CASE SaveOrder(w)
    BY <1>0, <2>1 DEF SaveOrder
  <2>2. CASE Unreserve(w)
    BY <1>0, <2>2 DEF Unreserve
  <2>3. CASE Redeem(w)
    BY <1>0, <2>3 DEF Redeem
  <2>4. CASE PromoRedeemed(w)
    BY <1>0, <2>4 DEF PromoRedeemed
  <2>5. CASE CreatePayment(w)
    BY <1>0, <2>5 DEF CreatePayment
  <2>6. CASE PaymentCreated(w)
    BY <1>0, <2>6 DEF PaymentCreated
  <2>7. CASE AwaitPayment(w)
    BY <1>0, <2>7 DEF AwaitPayment
  <2> QED
    BY <1>1, <2>1, <2>2, <2>3, <2>4, <2>5, <2>6, <2>7 DEF Place
<1>2. CASE Progress(w)
  <2>1. CASE CancelStray(w)
    BY <1>0, <2>1 DEF CancelStray
  <2>2. CASE StrayCancelled(w)
    BY <1>0, <2>2 DEF StrayCancelled
  <2>3. CASE Advance(w)
    BY <1>0, <2>3 DEF Advance
  <2>4. CASE CommitStock(w)
    BY <1>0, <2>4 DEF CommitStock
  <2>5. CASE StockCommitted(w)
    BY <1>0, <2>5 DEF StockCommitted
  <2>6. CASE CapturePayment(w)
    BY <1>0, <2>6 DEF CapturePayment
  <2>7. CASE PaymentAnswered(w)
    BY <1>0, <2>7 DEF PaymentAnswered
  <2>8. CASE PaymentCaptured(w)
    BY <1>0, <2>8 DEF PaymentCaptured
  <2>9. CASE Complete(w)
    BY <1>0, <2>9 DEF Complete
  <2> QED
    BY <1>2, <2>1, <2>2, <2>3, <2>4, <2>5, <2>6, <2>7, <2>8, <2>9 DEF Progress
<1>3. CASE Compensate(w)
  <2>1. CASE Abort(w)
    BY <1>0, <2>1 DEF Abort
  <2>2. CASE Run(w)
    BY <1>0, <2>2 DEF Run
  <2>3. CASE SettlePayment(w)
    BY <1>0, <2>3 DEF SettlePayment
  <2>4. CASE CancelPayment(w)
    BY <1>0, <2>4 DEF CancelPayment
  <2>5. CASE PaymentCancelled(w)
    BY <1>0, <2>5 DEF PaymentCancelled
  <2>6. CASE RefundPayment(w)
    BY <1>0, <2>6 DEF RefundPayment
  <2>7. CASE PaymentRefunded(w)
    BY <1>0, <2>7 DEF PaymentRefunded
  <2>8. CASE ReleaseStock(w)
    BY <1>0, <2>8 DEF ReleaseStock
  <2>9. CASE RestoreStock(w)
    BY <1>0, <2>9 DEF RestoreStock
  <2>10. CASE ReleasePromo(w)
    BY <1>0, <2>10 DEF ReleasePromo
  <2>11. CASE CloseOrder(w)
    BY <1>0, <2>11 DEF CloseOrder
  <2>12. CASE Compensated(w)
    BY <1>0, <2>12 DEF Compensated
  <2>13. CASE CompensationFailed(w)
    BY <1>0, <2>13 DEF CompensationFailed
  <2>14. CASE ExpireCheckout(w)
    BY <1>0, <2>14 DEF ExpireCheckout
  <2> QED
    BY <1>3, <2>1, <2>2, <2>3, <2>4, <2>5, <2>6, <2>7, <2>8, <2>9, <2>10, <2>11, <2>12, <2>13,
       <2>14 DEF Compensate
<1>4. CASE Retry(w)
  <2>1. CASE LookUpPayment(w)
    BY <1>0, <2>1 DEF LookUpPayment
  <2>2. CASE RecreatePayment(w)
    BY <1>0, <2>2 DEF RecreatePayment
  <2>3. CASE PaymentRecreated(w)
    BY <1>0, <2>3 DEF PaymentRecreated
  <2>4. CASE ChangePayment(w)
    BY <1>0, <2>4 DEF ChangePayment
  <2>5. CASE CancelRetry(w)
    BY <1>0, <2>5 DEF CancelRetry
  <2>6. CASE RetryCancelled(w)
    BY <1>0, <2>6 DEF RetryCancelled
  <2> QED
    BY <1>4, <2>1, <2>2, <2>3, <2>4, <2>5, <2>6 DEF Retry
<1>5. CASE Job(w)
  <2>1. ASSUME NEW p \in Payments, PaymentAuthorized(w, p)
        PROVE  \A v \in Workers : AbortOK(v)'
    BY <1>0, <2>1 DEF PaymentAuthorized
  <2>2. CASE ResumeStalled(w)
    BY <1>0, <2>2 DEF ResumeStalled
  <2>3. CASE ExpireCheckouts(w)
    BY <1>0, <2>3 DEF ExpireCheckouts
  <2>4. CASE RunCompensations(w)
    BY <1>0, <2>4 DEF RunCompensations
  <2> QED
    BY <1>5, <2>1, <2>2, <2>3, <2>4 DEF Job
<1>6. CASE Request(w)
  <2>1. CASE Reserve(w)
    BY <1>0, <2>1 DEF Reserve
  <2>2. CASE CancelOrder(w)
    BY <1>0, <2>2 DEF CancelOrder
  <2>3. CASE ResumeSaga(w)
    BY <1>0, <2>3 DEF ResumeSaga
  <2>4. CASE RetryPayment(w)
    BY <1>0, <2>4 DEF RetryPayment
  <2> QED
    BY <1>6, <2>1, <2>2, <2>3, <2>4 DEF Request
<1>7. CASE Stop(w)
  BY <1>0, <1>7 DEF Stop, Pay!Crash
<1> QED
  BY <1>1, <1>2, <1>3, <1>4, <1>5, <1>6, <1>7 DEF Work

(* A paid order belongs to a completed checkout as long as nobody aborts   *)
(* a completed one.                                                        *)
LEMMA PaidInvariant ==
    ASSUME IInv, OneAdvancer, AInv, NEW w \in Workers,
           Work(w) \/ Job(w) \/ Request(w) \/ Stop(w)
    PROVE  PaidOK'
<1> USE DEF Running, Answered, MoveTo, Goto, Rest, TakeUp, Succeed, GiveUp, Trouble, Advanced,
        BeginCompensation, others, sagaVars, worker, TypeOK, AbortOK, PaidOK, PlaceAt, CommitAt,
        SagaOK, ProgressOK, PlaceOK, UndoOK, Turned, UndoAt, SettleAt, StockAt, Paid, Early,
        Charging, Compensations, Committing, Expired, OneAdvancer
<1>0. /\ TypeOK /\ OnePlaces /\ SagaOK /\ ProgressOK
      /\ \A v \in Workers : PlaceOK(v) /\ UndoOK(v) /\ AbortOK(v)
      /\ PaidOK /\ (Pending # {} => FirstPending \in Compensations)
  BY Unfold, FirstIsPending DEF Pending, AInv
<1>1. CASE Place(w)
  <2>1. CASE SaveOrder(w)
    BY <1>0, <2>1 DEF SaveOrder
  <2>2. CASE Unreserve(w)
    BY <1>0, <2>2 DEF Unreserve
  <2>3. CASE Redeem(w)
    BY <1>0, <2>3 DEF Redeem
  <2>4. CASE PromoRedeemed(w)
    BY <1>0, <2>4 DEF PromoRedeemed
  <2>5. CASE CreatePayment(w)
    BY <1>0, <2>5 DEF CreatePayment
  <2>6. CASE PaymentCreated(w)
    BY <1>0, <2>6 DEF PaymentCreated
  <2>7. CASE AwaitPayment(w)
    BY <1>0, <2>7 DEF AwaitPayment
  <2> QED
    BY <1>1, <2>1, <2>2, <2>3, <2>4, <2>5, <2>6, <2>7 DEF Place
<1>2. CASE Progress(w)
  <2>1. CASE CancelStray(w)
    BY <1>0, <2>1 DEF CancelStray
  <2>2. CASE StrayCancelled(w)
    BY <1>0, <2>2 DEF StrayCancelled
  <2>3. CASE Advance(w)
    BY <1>0, <2>3 DEF Advance
  <2>4. CASE CommitStock(w)
    BY <1>0, <2>4 DEF CommitStock
  <2>5. CASE StockCommitted(w)
    BY <1>0, <2>5 DEF StockCommitted
  <2>6. CASE CapturePayment(w)
    BY <1>0, <2>6 DEF CapturePayment
  <2>7. CASE PaymentAnswered(w)
    BY <1>0, <2>7 DEF PaymentAnswered
  <2>8. CASE PaymentCaptured(w)
    BY <1>0, <2>8 DEF PaymentCaptured
  <2>9. CASE Complete(w)
    BY <1>0, <2>9 DEF Complete
  <2> QED
    BY <1>2, <2>1, <2>2, <2>3, <2>4, <2>5, <2>6, <2>7, <2>8, <2>9 DEF Progress
<1>3. CASE Compensate(w)
  <2>1. CASE Abort(w)
    BY <1>0, <2>1 DEF Abort
  <2>2. CASE Run(w)
    BY <1>0, <2>2 DEF Run
  <2>3. CASE SettlePayment(w)
    BY <1>0, <2>3 DEF SettlePayment
  <2>4. CASE CancelPayment(w)
    BY <1>0, <2>4 DEF CancelPayment
  <2>5. CASE PaymentCancelled(w)
    BY <1>0, <2>5 DEF PaymentCancelled
  <2>6. CASE RefundPayment(w)
    BY <1>0, <2>6 DEF RefundPayment
  <2>7. CASE PaymentRefunded(w)
    BY <1>0, <2>7 DEF PaymentRefunded
  <2>8. CASE ReleaseStock(w)
    BY <1>0, <2>8 DEF ReleaseStock
  <2>9. CASE RestoreStock(w)
    BY <1>0, <2>9 DEF RestoreStock
  <2>10. CASE ReleasePromo(w)
    BY <1>0, <2>10 DEF ReleasePromo
  <2>11. CASE CloseOrder(w)
    BY <1>0, <2>11 DEF CloseOrder
  <2>12. CASE Compensated(w)
    BY <1>0, <2>12 DEF Compensated
  <2>13. CASE CompensationFailed(w)
    BY <1>0, <2>13 DEF CompensationFailed
  <2>14. CASE ExpireCheckout(w)
    BY <1>0, <2>14 DEF ExpireCheckout
  <2> QED
    BY <1>3, <2>1, <2>2, <2>3, <2>4, <2>5, <2>6, <2>7, <2>8, <2>9, <2>10, <2>11, <2>12, <2>13,
       <2>14 DEF Compensate
<1>4. CASE Retry(w)
  <2>1. CASE LookUpPayment(w)
    BY <1>0, <2>1 DEF LookUpPayment
  <2>2. CASE RecreatePayment(w)
    BY <1>0, <2>2 DEF RecreatePayment
  <2>3. CASE PaymentRecreated(w)
    BY <1>0, <2>3 DEF PaymentRecreated
  <2>4. CASE ChangePayment(w)
    BY <1>0, <2>4 DEF ChangePayment
  <2>5. CASE CancelRetry(w)
    BY <1>0, <2>5 DEF CancelRetry
  <2>6. CASE RetryCancelled(w)
    BY <1>0, <2>6 DEF RetryCancelled
  <2> QED
    BY <1>4, <2>1, <2>2, <2>3, <2>4, <2>5, <2>6 DEF Retry
<1>5. CASE Job(w)
  <2>1. ASSUME NEW p \in Payments, PaymentAuthorized(w, p)
        PROVE  PaidOK'
    BY <1>0, <2>1 DEF PaymentAuthorized
  <2>2. CASE ResumeStalled(w)
    BY <1>0, <2>2 DEF ResumeStalled
  <2>3. CASE ExpireCheckouts(w)
    BY <1>0, <2>3 DEF ExpireCheckouts
  <2>4. CASE RunCompensations(w)
    BY <1>0, <2>4 DEF RunCompensations
  <2> QED
    BY <1>5, <2>1, <2>2, <2>3, <2>4 DEF Job
<1>6. CASE Request(w)
  <2>1. CASE Reserve(w)
    BY <1>0, <2>1 DEF Reserve
  <2>2. CASE CancelOrder(w)
    BY <1>0, <2>2 DEF CancelOrder
  <2>3. CASE ResumeSaga(w)
    BY <1>0, <2>3 DEF ResumeSaga
  <2>4. CASE RetryPayment(w)
    BY <1>0, <2>4 DEF RetryPayment
  <2> QED
    BY <1>6, <2>1, <2>2, <2>3, <2>4 DEF Request
<1>7. CASE Stop(w)
  BY <1>0, <1>7 DEF Stop, Pay!Crash
<1> QED
  BY <1>1, <1>2, <1>3, <1>4, <1>5, <1>6, <1>7 DEF Work
(* With one worker that advances, these facts hold in every state.         *)
LEMMA AdvancersInvariant ==
    ASSUME IInv, OneAdvancer, AInv, [Next]_vars
    PROVE  AInv'
<1>0. SagaOK /\ PaidOK /\ \A w \in Workers : AbortOK(w)
  BY Unfold DEF AInv
<1>1. ASSUME NEW w \in Workers, Work(w) \/ Job(w) \/ Request(w) \/ Stop(w) PROVE AInv'
  BY <1>1, AbortInvariant, PaidInvariant DEF AInv
<1>2. ASSUME (\E w \in Workers : CommandStep(w)) \/ (\E p \in Payments : Provider(p))
      PROVE  AInv'
  BY <1>0, <1>2, PayStepMoves DEF AInv, AbortOK, PaidOK
<1>3. ASSUME Fulfil \/ DeadlinePasses \/ Lapse \/ UNCHANGED vars PROVE AInv'
  <2>1. UNCHANGED <<role, at, status, step>>
    BY <1>3 DEF Fulfil, DeadlinePasses, Lapse, vars, sagaVars, worker
  <2>2. (order' \in Paid => order \in Paid) /\ (stock # "none" => stock' # "none")
    BY <1>3 DEF Fulfil, Deliver, DeadlinePasses, Lapse, vars, others, Paid
  <2> QED
    BY <1>0, <2>1, <2>2 DEF AInv, AbortOK, PaidOK
<1> QED
  BY <1>1, <1>2, <1>3 DEF Next

(* Order, saga, payment and stock agree on who won, as long as no two      *)
(* workers advance the checkout side by side: Complete then finds the saga *)
(* as the worker that charges has left it, and no abort comes after it.    *)
THEOREM OrderAlwaysMatchesSaga ==
    ASSUME OneAdvancer
    PROVE  Spec => []OrderMatchesSaga
<1>1. Init => AInv
  BY DEF Init, AInv, AbortOK, PaidOK, PlaceAt, CommitAt, Paid
<1>2. IInv /\ AInv /\ [Next]_vars => AInv'
  BY AdvancersInvariant
<1>3. ASSUME IInv, AInv PROVE OrderMatchesSaga
  <2>1. ClosedMeansCompensating /\ CompletedMeansPaid
    BY <1>3, Unfold, CompletedIsPaid
  <2> QED
    BY <1>3, <2>1 DEF OrderMatchesSaga, PaidIsKept, CompletedMeansPaid, AInv, PaidOK, Paid
<1> QED
  BY <1>1, <1>2, <1>3, Invariance, PTL DEF Spec
=============================================================================
