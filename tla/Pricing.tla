------------------------------ MODULE Pricing ------------------------------
(***************************************************************************)
(* Prices and promotions of the pricing context.  A worker copies the      *)
(* price of an offer from the events of the catalog, its seller sets the   *)
(* price it is compared with, and managers create, change, start, pause    *)
(* and end promotions.  A command reads a row, decides, and saves it       *)
(* provided that its version is the one it has read; the categories of a   *)
(* product are overwritten without any version.                            *)
(*                                                                         *)
(* The period of a promotion is not modelled; promo codes are in module    *)
(* PromoCode, quotes in Calculator and Quotation.                          *)
(***************************************************************************)
EXTENDS Naturals

CONSTANTS
    Skus,          \* the offers
    Prices,        \* what an offer may cost: [amount, currency]
    CompareAts,    \* prices to compare with that sellers ask for, 0 for none
    Promotions,    \* identifiers of promotions
    Specs,         \* discounts with their targets
    ValidSpecs,    \* those that the domain accepts
    Paths,         \* category paths of a product
    Requests,      \* requests and worker sessions
    MaxRowVersion, \* bound: no command begins at a later version of a row
    Nothing        \* no price, promotion or category

ASSUME PricingAssumption ==
    /\ \A at \in Prices : at.amount \in Nat
    /\ CompareAts \subseteq Nat
    /\ MaxRowVersion \in Nat

VARIABLES
    price,         \* SKU -> its row
    promotion,     \* promotion -> its row
    path,          \* SKU -> the category path of its product
    command        \* request -> what it is about and the row it has read

pricingVars == <<price, promotion, path, command>>

NoPrice == [at |-> Nothing, compareAt |-> 0, active |-> FALSE, version |-> 0]

PriceRow == [at : Prices, compareAt : Nat, active : BOOLEAN, version : 1..MaxRowVersion + 1]

PromotionStatus == {"draft", "active", "paused", "ended"}

NoPromotion == [spec |-> Nothing, status |-> "draft", version |-> 0]

PromotionRow == [spec : ValidSpecs, status : PromotionStatus, version : 1..MaxRowVersion + 1]

Quiet == [op |-> "none", subject |-> Nothing, arg |-> Nothing, row |-> Nothing]

-----------------------------------------------------------------------------
(* The domain.                                                             *)

NewOfferPrice(at, active) ==
    [at |-> at, compareAt |-> 0, active |-> active, version |-> 0]

(* Faulty: a new price leaves the other one alone.                         *)
KeepCompareAt(row, at) == [row EXCEPT !.at = at]

(* A price that is no longer below the one it is compared with, or of      *)
(* another currency, is shown alone.                                       *)
ChangePrice(row, at) ==
    IF row.at = at THEN row
    ELSE [row EXCEPT !.at = at,
                     !.compareAt = IF at.currency = row.at.currency /\ @ > at.amount
                                   THEN @ ELSE 0]

(* What the event says, whatever came before it.                           *)
Synced(row, offer) ==
    IF row = NoPrice THEN NewOfferPrice(offer.at, offer.active)
    ELSE [ChangePrice(row, offer.at) EXCEPT !.active = offer.active]

CanCompare(row, amount) == row # NoPrice /\ (amount = 0 \/ amount > row.at.amount)

CanChange(row, op, arg) ==
    CASE op = "create" -> row = NoPromotion /\ arg \in ValidSpecs
      [] op = "update" -> row # NoPromotion /\ row.status # "ended" /\ arg \in ValidSpecs
      [] op = "status" -> row # NoPromotion /\ (row.status = arg \/ row.status # "ended")

Changed(row, op, arg) ==
    IF op = "status" THEN [row EXCEPT !.status = arg] ELSE [row EXCEPT !.spec = arg]

-----------------------------------------------------------------------------
(* The repositories.                                                       *)

(* Faulty: the update does not ask for the version.                        *)
SaveAnyVersion(current, row) == TRUE

(* An insert fails on the primary key, an update on the version.           *)
CanSave(current, row) == current.version = row.version

Saved(row) == [row EXCEPT !.version = @ + 1]

BeginCommand(r, op, subject, arg, row) ==
    /\ command[r] = Quiet /\ row.version <= MaxRowVersion
    /\ command' = [command EXCEPT ![r] =
                      [op |-> op, subject |-> subject, arg |-> arg, row |-> row]]
    /\ UNCHANGED <<price, promotion, path>>

EndCommand(r) == command' = [command EXCEPT ![r] = Quiet]

BeginSync(r) ==
    \E s \in Skus, at \in Prices, active \in BOOLEAN :
        BeginCommand(r, "sync", s, [at |-> at, active |-> active], price[s])

BeginSetCompareAt(r) ==
    \E s \in Skus, amount \in CompareAts :
        price[s] # NoPrice /\ BeginCommand(r, "compare_at", s, amount, price[s])

(* The identifier of a new promotion is one that nobody else uses.         *)
BeginPromotion(r) ==
    \E p \in Promotions :
        \/ \E spec \in Specs :
              /\ promotion[p] = NoPromotion => \A q \in Requests : command[q].subject # p
              /\ BeginCommand(r, IF promotion[p] = NoPromotion THEN "create" ELSE "update",
                       p, spec, promotion[p])
        \/ \E status \in PromotionStatus \ {"draft"} :
              promotion[p] # NoPromotion /\ BeginCommand(r, "status", p, status, promotion[p])

(* SyncOfferPrice.  A worker whose save fails gets the event again.        *)
SyncOfferPrice(r) ==
    LET c == command[r] IN
    /\ c.op = "sync" /\ CanSave(price[c.subject], c.row)
    /\ price' = [price EXCEPT ![c.subject] = Saved(Synced(c.row, c.arg))]
    /\ EndCommand(r)
    /\ UNCHANGED <<promotion, path>>

SetCompareAt(r) ==
    LET c == command[r] IN
    /\ c.op = "compare_at" /\ CanCompare(c.row, c.arg)
    /\ CanSave(price[c.subject], c.row)
    /\ price' = [price EXCEPT ![c.subject] = Saved([c.row EXCEPT !.compareAt = c.arg])]
    /\ EndCommand(r)
    /\ UNCHANGED <<promotion, path>>

(* CreatePromotion, UpdatePromotion and SetPromotionStatus; a promotion    *)
(* that has the status already is saved all the same.                      *)
ChangePromotion(r) ==
    LET c == command[r] IN
    /\ c.op \in {"create", "update", "status"} /\ CanChange(c.row, c.op, c.arg)
    /\ CanSave(promotion[c.subject], c.row)
    /\ promotion' = [promotion EXCEPT ![c.subject] = Saved(Changed(c.row, c.op, c.arg))]
    /\ EndCommand(r)
    /\ UNCHANGED <<price, path>>

SetProductCategories ==
    \E s \in Skus, p \in Paths :
        /\ path' = [path EXCEPT ![s] = p]
        /\ UNCHANGED <<price, promotion, command>>

(* The command is refused, meets another version, or the database fails.   *)
Fail(r) == command[r] # Quiet /\ EndCommand(r) /\ UNCHANGED <<price, promotion, path>>

PricingInit ==
    /\ price = [s \in Skus |-> NoPrice]
    /\ promotion = [p \in Promotions |-> NoPromotion]
    /\ path = [s \in Skus |-> Nothing]
    /\ command = [r \in Requests |-> Quiet]

PricingStep(r) ==
    \/ BeginSync(r) \/ BeginSetCompareAt(r) \/ BeginPromotion(r)
    \/ SyncOfferPrice(r) \/ SetCompareAt(r) \/ ChangePromotion(r) \/ Fail(r)

PricingNext == SetProductCategories \/ \E r \in Requests : PricingStep(r)

PricingSpec == PricingInit /\ [][PricingNext]_pricingVars

-----------------------------------------------------------------------------
(* Every variable stays in its range.                                      *)
PricingTypeOK ==
    /\ price \in [Skus -> PriceRow \cup {NoPrice}]
    /\ promotion \in [Promotions -> PromotionRow \cup {NoPromotion}]
    /\ path \in [Skus -> Paths \cup {Nothing}]
    /\ \A r \in Requests :
          command[r].op \in {"none", "sync", "compare_at", "create", "update", "status"}

(* The price of an offer only changes to one that a worker was told for it *)
(* when it read the row as it still is: a seller who sets the comparison   *)
(* meanwhile never brings an old price back, and the price stays below the *)
(* one it is compared with, although two commands set the one and the      *)
(* other.                                                                  *)
PriceIsSynced ==
    [][\A s \in Skus :
          /\ price'[s].at # price[s].at =>
                \E r \in Requests :
                    /\ command[r].op = "sync" /\ command[r].subject = s
                    /\ command[r].arg.at = price'[s].at
          /\ price'[s].compareAt > 0 => price'[s].compareAt > price'[s].at.amount]_pricingVars

(* Nobody changes or restarts a promotion that has ended, whatever state   *)
(* of it they have read.                                                   *)
EndedStays ==
    [][\A p \in Promotions :
          promotion[p].status = "ended" =>
              /\ promotion'[p].status = "ended"
              /\ promotion'[p].spec = promotion[p].spec]_pricingVars
(* Prices and promotions are what was decided last.                        *)
PricesKept == PriceIsSynced /\ EndedStays
=============================================================================
