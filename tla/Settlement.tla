----------------------------- MODULE Settlement -----------------------------
(***************************************************************************)
(* What is owed to the sellers of a completed order, at the commission     *)
(* rates that the seller context gives while the event is handled.         *)
(*                                                                         *)
(* A worker is one goroutine of the relay with the event of one order: it  *)
(* asks for the rate of every item, then writes an entry for every seller  *)
(* in one transaction.  Delivery is as in Imports: again until the handler *)
(* succeeds, and at the same time by a worker that has lost its relay.     *)
(***************************************************************************)
EXTENDS Seller, Sequences, Functions

CONSTANTS
    Orders, Items,    \* order -> its items: seller, category and total of each
    Settlers,         \* workers that handle the completed orders
    MaxLost           \* bound on crashes, lost transactions and failed queries

(* An order has items, and none costs less than nothing.                   *)
ASSUME SettlementAssumption ==
    /\ \A o \in Orders :
          /\ Items[o] \in Seq([seller : Sellers, category : RatedCategories, amount : Nat])
          /\ Items[o] # <<>>
    /\ MaxLost \in Nat

VARIABLES
    entry,      \* settlement.entries, by order and seller
    completed,  \* order -> its order_completed event: "none", "pending", "handled"
    work,       \* worker -> the order it handles, and the totals so far
    lostWork

settlementVars == <<entry, completed, work, lostWork>>
allVars == <<sellerVars, settlementVars>>

EntryRow == [gross : Nat, commission : Nat, net : Nat]
NoEntry == [gross |-> 0, commission |-> 0, net |-> 0, missing |-> TRUE]

Resting == [at |-> "idle", order |-> Absent, next |-> 0, lost |-> FALSE,
            gross |-> [s \in Sellers |-> 0], commission |-> [s \in Sellers |-> 0]]

SellersOf(o) == {Items[o][i].seller : i \in DOMAIN Items[o]}

SettlementTypeOK ==
    /\ entry \in [Orders -> [Sellers -> EntryRow \cup {NoEntry}]]
    /\ completed \in [Orders -> {"none", "pending", "handled"}]
    /\ \A w \in Settlers : work[w].at \in {"idle", "rate", "save"}
    /\ lostWork \in 0 .. MaxLost

SettlementInit ==
    /\ entry = [o \in Orders |-> [s \in Sellers |-> NoEntry]]
    /\ completed = [o \in Orders |-> "none"]
    /\ work = [w \in Settlers |-> Resting]
    /\ lostWork = 0

-----------------------------------------------------------------------------
ApplyPercent(amount, bp) ==
    (amount \div 10000) * bp + ((amount % 10000) * bp) \div 10000

Accrue(gross, cut) == [gross |-> gross, commission |-> cut, net |-> gross - cut]

CompleteOrder(o) ==
    /\ completed[o] = "none"
    /\ completed' = [completed EXCEPT ![o] = "pending"]
    /\ UNCHANGED <<entry, work, lostWork>>

Deliver(w, o) ==
    /\ completed[o] = "pending"
    /\ work[w].at = "idle"
    /\ \A v \in Settlers : work[v].at = "idle" \/ work[v].lost
    /\ work' = [work EXCEPT ![w].at = "rate", ![w].order = o, ![w].next = 1]
    /\ UNCHANGED <<entry, completed, lostWork>>

(* One item: its rate is asked for now, and is the default after an error. *)
AskRate(w) ==
    /\ work[w].at = "rate"
    /\ LET q == work[w]
           item == Items[q.order][q.next]
           Total(rate) ==
             work' = [work EXCEPT ![w].gross[item.seller] = @ + item.amount,
                        ![w].commission[item.seller] = @ + ApplyPercent(item.amount, rate),
                        ![w].next = @ + 1,
                        ![w].at = IF q.next = Len(Items[q.order]) THEN "save" ELSE "rate"]
       IN  \/ /\ seller[item.seller].status # "none"
              /\ Total(RateFor(seller[item.seller], item.category))
              /\ UNCHANGED lostWork
           \/ /\ seller[item.seller].status = "none"
              /\ Total(DefaultRate)
              /\ UNCHANGED lostWork
           \/ /\ lostWork < MaxLost /\ lostWork' = lostWork + 1
              /\ Total(DefaultRate)
    /\ UNCHANGED <<entry, completed>>

(* Faulty: an entry is written whether or not there is one.                *)
Always(o, s) == s \in SellersOf(o)

Unaccrued(o, s) == s \in SellersOf(o) /\ entry[o][s] = NoEntry

(* The relay notes that the event is handled, if it still can.             *)
SaveEntries(w) ==
    /\ work[w].at = "save"
    /\ LET q == work[w]
       IN  /\ entry' = [entry EXCEPT ![q.order] =
                 [s \in Sellers |-> IF Unaccrued(q.order, s)
                                      THEN Accrue(q.gross[s], q.commission[s]) ELSE @[s]]]
           /\ completed' = IF q.lost THEN completed
                           ELSE [completed EXCEPT ![q.order] = "handled"]
    /\ work' = [work EXCEPT ![w] = Resting]
    /\ UNCHANGED lostWork

(* A process or a statement fails, or the relay's transaction is lost.     *)
Stop(w) ==
    /\ work[w].at # "idle" /\ lostWork < MaxLost
    /\ lostWork' = lostWork + 1
    /\ work' = [work EXCEPT ![w] = Resting]
    /\ UNCHANGED <<entry, completed>>

Lose(w) ==
    /\ work[w].at # "idle" /\ ~work[w].lost /\ lostWork < MaxLost
    /\ lostWork' = lostWork + 1
    /\ work' = [work EXCEPT ![w].lost = TRUE]
    /\ UNCHANGED <<entry, completed>>

Accrual ==
    \/ \E o \in Orders : CompleteOrder(o) \/ \E w \in Settlers : Deliver(w, o)
    \/ \E w \in Settlers : AskRate(w) \/ SaveEntries(w) \/ Stop(w) \/ Lose(w)

SettlementNext ==
    \/ Accrual /\ UNCHANGED sellerVars
    \/ SellerNext /\ UNCHANGED settlementVars

SettlementSpec == SellerInit /\ SettlementInit /\ [][SettlementNext]_allVars

-----------------------------------------------------------------------------
(* The report of a seller: the sums of its entries.                        *)
Settled(s) == {o \in Orders : entry[o][s] # NoEntry}

Report(s) ==
    LET Sum(amount) == SumFunctionOnSet(amount, Settled(s))
    IN  [gross |-> Sum([o \in Orders |-> entry[o][s].gross]),
         commission |-> Sum([o \in Orders |-> entry[o][s].commission]),
         net |-> Sum([o \in Orders |-> entry[o][s].net])]

ItemsOf(o, s) == {i \in DOMAIN Items[o] : Items[o][i].seller = s}

Owed(o, s) == SumFunctionOnSet([i \in DOMAIN Items[o] |-> Items[o][i].amount], ItemsOf(o, s))

(* However often its event is delivered, and though the rates change       *)
(* meanwhile, an order is settled with a seller once: what the report says *)
(* of it does not change, and an event that counts as handled has left the *)
(* whole of every seller's part.                                           *)
AccruedOnce ==
    [][/\ \A o \in Orders, s \in Sellers :
            entry[o][s] # NoEntry => entry'[o][s] = entry[o][s]
       /\ \A s \in Sellers :
            /\ Report(s).net + Report(s).commission = Report(s).gross
            /\ \A o \in Orders : completed[o] = "handled" =>
                  (s \in SellersOf(o) => entry[o][s].gross = Owed(o, s))]_allVars
=============================================================================
