----------------------------- MODULE MCCheckout -----------------------------
(* Small instances of the checkout: which worker may run which handlers.   *)
EXTENDS Checkout, TLC

CONSTANTS w1, w2, w3, w4, w5

(* Requests of the buyer and of support beside the worker process.         *)
RequestsAndJobs == (w1 :> {"place", "cancel", "resume"}) @@ (w2 :> Jobs)

(* The same without support, who need not come.                            *)
BuyerAndJobs == (w1 :> {"place", "cancel"}) @@ (w2 :> Jobs)

(* The same, with a buyer who replaces declined payments.                  *)
BuyerRetries == (w1 :> {"place", "retry"}) @@ (w2 :> Jobs \cup {"retry"})

(* Every job in a goroutine of its own, beside a request of the buyer.     *)
JobsOverlap ==
    (w1 :> {"place", "cancel"}) @@ (w2 :> {"event"}) @@ (w3 :> {"stalled"})
       @@ (w4 :> {"expire"}) @@ (w5 :> {"compensate"})

(* The stalled job overlaps with the event relay.                          *)
Overlap == (w1 :> {"place", "event"}) @@ (w2 :> {"stalled"})

(* Support resumes beside the compensation job.                            *)
Support == (w1 :> {"place", "resume"}) @@ (w2 :> {"compensate", "cancel"})
=============================================================================
