----------------------------- MODULE Inventory -----------------------------
(***************************************************************************)
(* The inventory context: stock items with their available and reserved    *)
(* quantities, the holds that reservations place on them, and the journal  *)
(* of stock movements.                                                     *)
(*                                                                         *)
(* Every command is one database transaction: a query selects the stock    *)
(* items it is about, their rows are locked one after another in the order *)
(* of their sku, and when it holds them all it reads the holds, applies    *)
(* the change to every item and commits, or rolls back as a whole.         *)
(*                                                                         *)
(* Time is abstract: a reservation is due once its TTL has run out.        *)
(***************************************************************************)
EXTENDS Integers, FiniteSets, FiniteSetsExt, Functions

CONSTANTS
    Skus,          \* stock items, numbered in the order of their sku
    Reservations,  \* reservation ids
    Lines,         \* reservation -> sku -> quantity asked for, 0 for no line
    Workers,       \* database sessions
    Levels,        \* quantities a seller sets
    ClientKeys,    \* synchronisation keys sellers send, possibly repeatedly
    MaxQuantity,   \* kernel.MaxQuantity
    ExpiryBatch,   \* stock items the expiry job takes at a time
    MaxSets,       \* bound on the number of SetStock transactions
    MaxFaults,     \* bound on the number of transactions that fail
    None           \* no key, no worker

ASSUME InventoryAssumption ==
    /\ Skus \subseteq Nat /\ IsFiniteSet(Skus)
    /\ Lines \in [Reservations -> [Skus -> Nat]]
    /\ \A r \in Reservations : \E s \in Skus : Lines[r][s] > 0
    /\ MaxQuantity \in Nat /\ Levels \subseteq 0..MaxQuantity
    /\ ExpiryBatch \in Nat \ {0} /\ MaxSets \in Nat /\ MaxFaults \in Nat
    /\ None \notin ClientKeys \cup Workers

VARIABLES
    open,       \* skus that have a stock item
    available,  \* sku -> units free to reserve
    reserved,   \* sku -> units held
    hold,       \* reservation -> sku -> status of the hold
    due,        \* reservations whose holds have passed expires_at
    ledger,     \* sku -> sum of the deltas in the movement journal
    journaled,  \* client keys the journal has a correction under, with the sku
    cmd,        \* worker -> the command of its transaction
    want,       \* worker -> skus selected and not yet locked
    lock,       \* sku -> worker that holds the row lock
    sets,       \* SetStock transactions begun
    faults      \* transactions failed

stock == <<open, available, reserved, hold, ledger, journaled>>
vars == <<stock, due, cmd, want, lock, sets, faults>>

HoldStatus == {"none", "held", "committed", "released", "expired", "restored"}

LineSkus(r) == {s \in Skus : Lines[r][s] > 0}

HeldSkus(r) == {s \in Skus : hold[r][s] # "none"}

(* The units of the lines that some reservations have of a sku.            *)
Units(s, S) == SumFunctionOnSet([r \in Reservations |-> Lines[r][s]], S)

Idle == [op |-> "none"]

Init ==
    /\ open = {}
    /\ available = [s \in Skus |-> 0]
    /\ reserved = [s \in Skus |-> 0]
    /\ hold = [r \in Reservations |-> [s \in Skus |-> "none"]]
    /\ due = {}
    /\ ledger = [s \in Skus |-> 0]
    /\ journaled = {}
    /\ cmd = [w \in Workers |-> Idle]
    /\ want = [w \in Workers |-> {}]
    /\ lock = [s \in Skus |-> None]
    /\ sets = 0
    /\ faults = 0

-----------------------------------------------------------------------------
(* Transactions.                                                           *)

Begin(w, c, skus) ==
    /\ cmd[w] = Idle
    /\ skus # {}
    /\ cmd' = [cmd EXCEPT ![w] = c]
    /\ want' = [want EXCEPT ![w] = skus]
    /\ UNCHANGED <<stock, due, lock, faults>>

(* The rows come out of the sort in the order of their sku, and each is    *)
(* locked before the next is read.                                         *)
Lock(w) ==
    /\ want[w] # {}
    /\ LET s == Min(want[w]) IN
       /\ lock[s] = None
       /\ lock' = [lock EXCEPT ![s] = w]
       /\ want' = [want EXCEPT ![w] = @ \ {s}]
    /\ UNCHANGED <<stock, due, cmd, sets, faults>>

Locked(w) == {s \in Skus : lock[s] = w}

(* Faulty: the row locks outlive the transaction.                          *)
Leave(w) ==
    /\ cmd' = [cmd EXCEPT ![w] = Idle]
    /\ want' = [want EXCEPT ![w] = {}]
    /\ UNCHANGED <<lock, due, sets>>

(* Commit or roll back: the row locks go with the transaction.             *)
End(w) ==
    /\ cmd' = [cmd EXCEPT ![w] = Idle]
    /\ want' = [want EXCEPT ![w] = {}]
    /\ lock' = [s \in Skus |-> IF lock[s] = w THEN None ELSE lock[s]]
    /\ UNCHANGED <<due, sets>>

Ready(w, op) == cmd[w].op = op /\ want[w] = {}

(* The connection or the process is lost inside the transaction.           *)
Abort(w) ==
    /\ cmd[w] # Idle
    /\ faults < MaxFaults
    /\ faults' = faults + 1
    /\ End(w)
    /\ UNCHANGED stock

-----------------------------------------------------------------------------
(* EnsureStock: a new offer gets its stock item; a second delivery of the  *)
(* event, or a concurrent one, finds it there.                             *)
EnsureStock(s) ==
    /\ s \notin open
    /\ open' = open \cup {s}
    /\ UNCHANGED <<available, reserved, hold, ledger, journaled>>
    /\ UNCHANGED <<due, cmd, want, lock, sets, faults>>

-----------------------------------------------------------------------------
(* ReserveStock.  All lines or none: one line short of stock, or with a    *)
(* resolved hold of the same reservation, fails the transaction.           *)

BeginReserve(w, r) ==
    /\ LineSkus(r) \subseteq open
    /\ Begin(w, [op |-> "reserve", res |-> r], LineSkus(r))
    /\ UNCHANGED sets

Reserve(w) ==
    /\ Ready(w, "reserve")
    /\ End(w)
    /\ LET r == cmd[w].res
           new == {s \in Locked(w) : hold[r][s] = "none"}
           fits == /\ \A s \in Locked(w) : hold[r][s] \in {"none", "held"}
                   /\ \A s \in new : /\ available[s] >= Lines[r][s]
                                     /\ reserved[s] + Lines[r][s] <= MaxQuantity
       IN
       IF fits
         THEN /\ hold' = [hold EXCEPT ![r] = [s \in Skus |-> IF s \in new THEN "held" ELSE @[s]]]
              /\ available' = [s \in Skus |-> available[s] - IF s \in new THEN Lines[r][s] ELSE 0]
              /\ reserved' = [s \in Skus |-> reserved[s] + IF s \in new THEN Lines[r][s] ELSE 0]
              /\ UNCHANGED <<open, ledger, journaled>>
         ELSE UNCHANGED stock
    /\ UNCHANGED faults

-----------------------------------------------------------------------------
(* CommitReservation, ReleaseReservation, RestoreReservation: a change of  *)
(* every hold of the reservation that is still in its first status.        *)

(* Faulty: any change starts from a hold.                                  *)
FromHeld(op) == "held"

From(op) == IF op = "restore" THEN "committed" ELSE "held"
To(op) == CASE op = "commit"  -> "committed"
            [] op = "release" -> "released"
            [] op = "restore" -> "restored"

BeginResolve(w, op, r) ==
    /\ Begin(w, [op |-> op, res |-> r], HeldSkus(r))
    /\ UNCHANGED sets

Resolve(w, op) ==
    /\ Ready(w, op)
    /\ End(w)
    /\ LET r == cmd[w].res
           moved == {s \in Locked(w) : hold[r][s] = From(op)}
           back == IF op = "commit" THEN {} ELSE moved
           freed == IF op = "restore" THEN {} ELSE moved
           units(S, s) == IF s \in S THEN Lines[r][s] ELSE 0
           fits == /\ \A s \in Locked(w) : hold[r][s] \in {From(op), To(op)}
                   /\ \A s \in back : available[s] + Lines[r][s] <= MaxQuantity
       IN
       IF fits
         THEN /\ hold' = [hold EXCEPT ![r] = [s \in Skus |-> IF s \in moved THEN To(op) ELSE @[s]]]
              /\ available' = [s \in Skus |-> available[s] + units(back, s)]
              /\ reserved' = [s \in Skus |-> reserved[s] - units(freed, s)]
              /\ ledger' = [s \in Skus |-> ledger[s] + units(back, s) - units(freed, s)]
              /\ UNCHANGED <<open, journaled>>
         ELSE UNCHANGED stock
    /\ UNCHANGED faults

-----------------------------------------------------------------------------
(* ExpireReservations, a job that one process runs at a time.  It selects  *)
(* stock items, not reservations, so it may expire a reservation on some   *)
(* of its items only.                                                      *)

(* Faulty: resolved holds expire too.                                      *)
LinesOn(s, before) == {r \in before : Lines[r][s] > 0}

DueOn(s, before) == {r \in before : hold[r][s] = "held"}

(* Faulty: the limit of the batch counts the items that are not due.       *)
BeginFirst(w) ==
    /\ \A v \in Workers : cmd[v].op # "expire"
    /\ Begin(w, [op |-> "expire", before |-> due],
             {s \in open : Cardinality({x \in open : x < s}) < ExpiryBatch})
    /\ UNCHANGED sets

BeginExpire(w) ==
    /\ \A v \in Workers : cmd[v].op # "expire"
    /\ LET stale == {s \in Skus : DueOn(s, due) # {}}
           first == {s \in stale : Cardinality({x \in stale : x < s}) < ExpiryBatch}
       IN Begin(w, [op |-> "expire", before |-> due], first)
    /\ UNCHANGED sets

Expire(w) ==
    /\ Ready(w, "expire")
    /\ End(w)
    /\ LET expired == [s \in Skus |-> IF s \in Locked(w) THEN DueOn(s, cmd[w].before) ELSE {}]
           units == [s \in Skus |-> Units(s, expired[s])]
           fits == \A s \in Skus : available[s] + units[s] <= MaxQuantity \/ units[s] = 0
       IN
       IF fits
         THEN /\ hold' = [r \in Reservations |-> [s \in Skus |->
                            IF r \in expired[s] THEN "expired" ELSE hold[r][s]]]
              /\ available' = [s \in Skus |-> available[s] + units[s]]
              /\ reserved' = [s \in Skus |-> reserved[s] - units[s]]
              /\ UNCHANGED <<open, ledger, journaled>>
         ELSE UNCHANGED stock
    /\ UNCHANGED faults

TimePasses(r) ==
    /\ r \notin due
    /\ HeldSkus(r) # {}
    /\ due' = due \cup {r}
    /\ UNCHANGED <<stock, cmd, want, lock, sets, faults>>

-----------------------------------------------------------------------------
(* SetStock.  The seller's key names the movement; without one the server  *)
(* makes a fresh one.                                                      *)

BeginSet(w, s, level, key) ==
    /\ s \in open
    /\ sets < MaxSets
    /\ sets' = sets + 1
    /\ Begin(w, [op |-> "set", level |-> level, key |-> key], {s})

(* saveMovements skips a movement whose key the journal has for the sku.   *)
Correct(s, delta, key) ==
    IF delta = 0 \/ <<key, s>> \in journaled
      THEN UNCHANGED <<ledger, journaled>>
      ELSE /\ ledger' = [ledger EXCEPT ![s] = @ + delta]
           /\ journaled' = IF key = None THEN journaled ELSE journaled \cup {<<key, s>>}

SetStock(w) ==
    /\ Ready(w, "set")
    /\ End(w)
    /\ \E s \in Locked(w) :
          /\ Correct(s, cmd[w].level - available[s], cmd[w].key)
          /\ available' = [available EXCEPT ![s] = cmd[w].level]
    /\ UNCHANGED <<open, reserved, hold, faults>>

-----------------------------------------------------------------------------
Command(w) ==
    \/ \E r \in Reservations : BeginReserve(w, r)
    \/ \E r \in Reservations, op \in {"commit", "release", "restore"} : BeginResolve(w, op, r)
    \/ \E s \in Skus, level \in Levels, key \in ClientKeys \cup {None} : BeginSet(w, s, level, key)

Work(w) ==
    \/ Reserve(w)
    \/ \E op \in {"commit", "release", "restore"} : Resolve(w, op)
    \/ Expire(w)
    \/ SetStock(w)

Next ==
    \/ \E s \in Skus : EnsureStock(s)
    \/ \E r \in Reservations : TimePasses(r)
    \/ \E w \in Workers : Command(w) \/ BeginExpire(w) \/ Lock(w) \/ Work(w) \/ Abort(w)

(* The database grants a row lock to its waiters in turn, a transaction    *)
(* that holds its locks goes on, and the expiry job runs every 30 seconds  *)
(* on a session of its own (here: on whichever worker is idle).            *)
Fairness ==
    /\ \A w \in Workers : SF_vars(Lock(w)) /\ WF_vars(Work(w))
    /\ SF_vars(\E w \in Workers : BeginExpire(w))

Spec == Init /\ [][Next]_vars /\ Fairness

-----------------------------------------------------------------------------
Commands ==
    [op : {"none"}]
    \cup [op : {"reserve", "commit", "release", "restore"}, res : Reservations]
    \cup [op : {"expire"}, before : SUBSET Reservations]
    \cup [op : {"set"}, level : Levels, key : ClientKeys \cup {None}]

(* Quantities stay within kernel.Quantity, only existing items have stock  *)
(* or holds, and every row lock belongs to a running transaction.          *)
TypeOK ==
    /\ open \subseteq Skus
    /\ available \in [Skus -> 0..MaxQuantity]
    /\ reserved \in [Skus -> 0..MaxQuantity]
    /\ hold \in [Reservations -> [Skus -> HoldStatus]]
    /\ due \subseteq Reservations
    /\ ledger \in [Skus -> Int]
    /\ journaled \subseteq ClientKeys \X Skus
    /\ cmd \in [Workers -> Commands]
    /\ want \in [Workers -> SUBSET Skus]
    /\ lock \in [Skus -> Workers \cup {None}]
    /\ \A s \in Skus : lock[s] # None => cmd[lock[s]] # Idle
    /\ sets \in 0..MaxSets
    /\ faults \in 0..MaxFaults

(* The reserved quantity of an item is the sum of its holds: no path, of   *)
(* reserving, resolving or expiring, forgets units or frees them twice.    *)
ReservedIsHeld ==
    \A s \in Skus :
       reserved[s] = Units(s, {r \in Reservations : hold[r][s] = "held"})

(* A sale and its return are of every line of the reservation or of none,  *)
(* whichever lines the expiry job took first.                              *)
AllOrNothing ==
    \A r \in Reservations : \A s, t \in LineSkus(r) :
       hold[r][s] \in {"none", "committed", "released", "restored"} => hold[r][t] = hold[r][s]

(* Physical stock is what the journal adds up to.                          *)
JournalMatches == \A s \in Skus : available[s] + reserved[s] = ledger[s]

(* The quantities of an item agree with its holds and its journal, and the *)
(* holds of a reservation with each other.                                 *)
StockAddsUp == ReservedIsHeld /\ JournalMatches /\ AllOrNothing

(* Every transaction ends: the order of the row locks leaves no cycle.     *)
TransactionsEnd == \A w \in Workers : cmd[w] # Idle ~> cmd[w] = Idle

(* A hold that is due gives its units back or has been resolved.           *)
DueHoldsExpire ==
    \A r \in Reservations : r \in due ~> \A s \in Skus : hold[r][s] # "held"

(* Sessions that wait for each other's rows, or a bounded batch, leave no  *)
(* transaction and no hold behind.                                         *)
HoldsSettle == TransactionsEnd /\ DueHoldsExpire

-----------------------------------------------------------------------------
(* The reservation as its client sees it.                                  *)
StateOf(r) ==
    LET statuses == {hold[r][s] : s \in LineSkus(r)} IN
    IF "expired" \in statuses THEN "lapsed" ELSE CHOOSE x \in statuses : TRUE

Contract == INSTANCE Reservation WITH state <- [r \in Reservations |-> StateOf(r)]

(* Taking, selling, returning, giving back and expiring a reservation look *)
(* to the client like one atomic step of the whole reservation.            *)
KeepsContract == Contract!Spec
=============================================================================
