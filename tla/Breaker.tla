------------------------------- MODULE Breaker -------------------------------
(***************************************************************************)
(* The circuit breaker around the calls to a payment provider.  A call     *)
(* asks for admission (acquire), runs outside the mutex, and reports its   *)
(* outcome (release): calls admitted at any time end in any order.         *)
(***************************************************************************)
EXTENDS Naturals, FiniteSets

CONSTANTS
    Calls,       \* goroutines that call the provider
    Failures     \* Settings.Failures

VARIABLES
    breaker,     \* the breaker's state
    failed,      \* failures in a row
    probing,     \* a probe is admitted
    cool,        \* the cooldown since openedAt has passed
    call         \* goroutine -> "idle" or "calling"

breakerVars == <<breaker, failed, probing, cool, call>>

TypeOK ==
    /\ breaker \in {"closed", "open", "half_open"}
    /\ failed \in 0 .. Failures
    /\ probing \in BOOLEAN /\ cool \in BOOLEAN
    /\ call \in [Calls -> {"idle", "calling"}]

Init ==
    /\ breaker = "closed"
    /\ failed = 0
    /\ probing = FALSE /\ cool = FALSE
    /\ call = [c \in Calls |-> "idle"]

(* Refused, with ErrOpen, is a call that changes nothing.                  *)
Refused == (breaker = "open" /\ ~cool) \/ (breaker = "half_open" /\ probing)

Acquire(c) ==
    /\ call[c] = "idle" /\ ~Refused
    /\ call' = [call EXCEPT ![c] = "calling"]
    /\ probing' = (breaker # "closed")
    /\ breaker' = IF breaker = "open" THEN "half_open" ELSE breaker
    /\ UNCHANGED <<failed, cool>>

(* Faulty: a success ends the probe only if the breaker is closed.         *)
KeepsProbing(ok) == ok /\ breaker # "closed"

KeepsProbe(ok) == FALSE

(* Success, or an error that says nothing about the provider's health.     *)
Succeed(c) ==
    /\ call[c] = "calling"
    /\ call' = [call EXCEPT ![c] = "idle"]
    /\ probing' = (KeepsProbe(TRUE) /\ probing)
    /\ failed' = 0
    /\ breaker' = IF KeepsProbe(TRUE) THEN breaker ELSE "closed"
    /\ UNCHANGED cool

(* The count is not reset when the breaker opens.  Failed is capped: at    *)
(* the threshold it no longer matters by how much.                         *)
Fail(c) ==
    /\ call[c] = "calling"
    /\ call' = [call EXCEPT ![c] = "idle"]
    /\ probing' = FALSE
    /\ failed' = IF failed < Failures THEN failed + 1 ELSE failed
    /\ IF breaker = "half_open" \/ failed + 1 >= Failures
         THEN breaker' = "open" /\ cool' = FALSE
         ELSE UNCHANGED <<breaker, cool>>

CoolDown ==
    /\ breaker = "open" /\ ~cool
    /\ cool' = TRUE
    /\ UNCHANGED <<breaker, failed, probing, call>>

Next == (\E c \in Calls : Acquire(c) \/ Succeed(c) \/ Fail(c)) \/ CoolDown

(* A call ends, since it has a timeout, and time passes.                   *)
Fairness ==
    /\ \A c \in Calls : WF_breakerVars(Succeed(c) \/ Fail(c))
    /\ WF_breakerVars(CoolDown)

Spec == Init /\ [][Next]_breakerVars /\ Fairness

-----------------------------------------------------------------------------
(* Half open is a state that ends: a late call of before the breaker       *)
(* opened, which may end while the probe is on its way, never leaves it    *)
(* waiting for a probe that nobody makes.                                  *)
ProbeEnds == (breaker = "half_open") ~> (breaker # "half_open")
=============================================================================
