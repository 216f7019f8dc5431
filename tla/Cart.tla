-------------------------------- MODULE Cart --------------------------------
(***************************************************************************)
(* The carts of a customer: one of the account, and one of each device,    *)
(* which belongs to nobody until the customer signs in and the carts are   *)
(* merged.  A command asks the catalog and the stock about an offer first; *)
(* its transaction then reads the cart, changes it and saves it, provided  *)
(* that the version of the cart is still the one it has read.              *)
(***************************************************************************)
EXTENDS Lists

CONSTANTS
    User, Devices,           \* the owners
    CartSkus, Currency,      \* SKUs, and SKU -> the currency it is sold in
    Quantities, Stocks,      \* quantities asked for, and what may be in stock
    Codes,                   \* promo codes
    MaxItems, MaxQuantity,   \* limits of a cart
    PurgeBatch,              \* carts that one purge deletes at most
    CartRequests, MayAsk,    \* goroutines of requests, what each may run
    MaxCarts, MaxCartVersion, \* bounds: carts created, changes of one
    Nil                      \* no promo code, no owner, no cart

VARIABLES
    cart,      \* owner -> the row in cart.carts with its items
    lastId,    \* the identifiers given to carts are 1..lastId
    purgeable, \* carts of devices whose time is over
    request    \* request -> the command it runs, and what it has read

cartVars == <<cart, lastId, purgeable, request>>

Owners == {User} \cup Devices

(* The catalog and the stock tell numbers of units that are not negative.  *)
ASSUME CartAssumption ==
    /\ User \notin Devices
    /\ Quantities \subseteq Nat /\ Stocks \subseteq Nat
    /\ MaxItems \in Nat /\ MaxQuantity \in Nat
    /\ MaxCarts \in Nat /\ MaxCartVersion \in Nat

-----------------------------------------------------------------------------
(* Rows.                                                                   *)

Item == [sku : CartSkus, quantity : 1..MaxQuantity]

NoCart == [id |-> 0, version |-> 0, items |-> <<>>, currency |-> "", promo |-> Nil]

IsCart(c) ==
    /\ c.id \in 1..MaxCarts /\ c.version \in 1..MaxCartVersion + 1
    /\ c.items \in Seq(Item) /\ Len(c.items) <= MaxItems
    /\ c.currency \in {""} \cup {Currency[s] : s \in CartSkus}
    /\ c.promo \in Codes \cup {Nil}

Ops == {"add", "update", "remove", "apply_promo", "remove_promo", "merge", "ordered"}

(* `stock' is what the command has been told, for each SKU.                *)
NoCommand ==
    [at |-> "idle", op |-> "none", owner |-> Nil, device |-> Nil, skus |-> {},
     quantity |-> 0, stock |-> [s \in CartSkus |-> 0], row |-> NoCart, other |-> NoCart]

-----------------------------------------------------------------------------
(* The aggregate: what a method makes of a cart, Nil where it refuses.    *)

SkusOf(c) == {c.items[i].sku : i \in DOMAIN c.items}

Index(c, sku) == Min({i \in DOMAIN c.items : c.items[i].sku = sku})

Quantity(c, sku) == IF sku \in SkusOf(c) THEN c.items[Index(c, sku)].quantity ELSE 0

With(c, sku, quantity) ==
    [c EXCEPT !.items =
        IF sku \in SkusOf(c)
        THEN [i \in DOMAIN @ |-> IF @[i].sku = sku THEN [sku |-> sku, quantity |-> quantity] ELSE @[i]]
        ELSE Append(@, [sku |-> sku, quantity |-> quantity])]

Without(c, skus) == [c EXCEPT !.items = Keep(@, {i \in Range(@) : i.sku \notin skus})]

Accepts(c, sku) == c.items # <<>> => Currency[sku] = c.currency

CheckQuantity(requested, total, available) ==
    requested > 0 /\ total <= MaxQuantity /\ total <= available

Add(c, sku, quantity, available) ==
    IF /\ Accepts(c, sku)
       /\ sku \in SkusOf(c) \/ Len(c.items) < MaxItems
       /\ CheckQuantity(quantity, Quantity(c, sku) + quantity, available)
      THEN [With(c, sku, Quantity(c, sku) + quantity) EXCEPT !.currency = Currency[sku]]
      ELSE Nil

SetQuantity(c, sku, quantity, available) ==
    IF sku \in SkusOf(c) /\ Accepts(c, sku) /\ CheckQuantity(quantity, quantity, available)
      THEN With(c, sku, quantity) ELSE Nil

RemoveItem(c, sku) == IF sku \in SkusOf(c) THEN Without(c, {sku}) ELSE Nil

Least(S) == CHOOSE n \in S : \A m \in S : n <= m

(* No item gets smaller; what the limits do not admit is left out.         *)
AbsorbItem(c, item, available) ==
    LET had == Quantity(c, item.sku)
        sum == Least({had + item.quantity, available, MaxQuantity})
    IN  IF had > 0 THEN With(c, item.sku, IF sum > had THEN sum ELSE had)
        ELSE IF Len(c.items) >= MaxItems \/ sum <= 0 THEN c
        ELSE With(c, item.sku, sum)

AbsorbItems(c, items, available) ==
    FoldLeft(LAMBDA d, i : AbsorbItem(d, i, available[i.sku]), c, items)

(* Items of a device's cart in another currency are lost.  An empty cart   *)
(* takes them in, but keeps the currency it has had before, if any.        *)
Absorb(c, other, available) ==
    LET absorbed ==
            IF c.items # <<>> /\ c.currency # other.currency THEN c
            ELSE AbsorbItems(c, other.items, available)
        priced ==
            IF (c.items = <<>> \/ c.currency = other.currency) /\ c.currency = ""
            THEN [absorbed EXCEPT !.currency = other.currency] ELSE absorbed
    IN  [priced EXCEPT !.promo = IF @ = Nil THEN other.promo ELSE @]

-----------------------------------------------------------------------------
(* The repository.                                                         *)

(* Faulty: the update goes by the owner alone.                             *)
SaveAnyCart(owner, row) == TRUE

(* One cart per owner: an insert fails on the unique owner, an update on   *)
(* the identifier and the version.                                         *)
CanSaveCart(owner, row) ==
    IF row.version = 0 THEN cart[owner] = NoCart
    ELSE cart[owner].id = row.id /\ cart[owner].version = row.version

CanDelete(owner, row) ==
    cart[owner].id = row.id /\ cart[owner].version = row.version

(* The code draws identifiers at random; here they are counted.            *)
Stored(row) ==
    [row EXCEPT !.version = @ + 1, !.id = IF @ = 0 THEN lastId + 1 ELSE @]

-----------------------------------------------------------------------------
(* The commands.                                                           *)

MoveOn(r, c) == request' = [request EXCEPT ![r] = c]

EndRequest(r) == MoveOn(r, NoCommand)

BeginRequest(r, c) ==
    /\ request[r] = NoCommand /\ c.op \in MayAsk[r]
    /\ MoveOn(r, c)
    /\ UNCHANGED <<cart, lastId, purgeable>>

BeginChange(r) ==
    \E o \in Owners, s \in CartSkus, n \in Quantities :
        \/ \E op \in {"add", "update"} :
              /\ op = "add" \/ n # 0
              /\ BeginRequest(r, [NoCommand EXCEPT !.at = "ask", !.op = op, !.owner = o,
                                                   !.skus = {s}, !.quantity = n])
        \/ BeginRequest(r, [NoCommand EXCEPT !.at = "find", !.op = "remove", !.owner = o,
                                             !.skus = {s}])

BeginPromo(r) ==
    \E o \in Owners, op \in {"apply_promo", "remove_promo"} :
        BeginRequest(r, [NoCommand EXCEPT !.at = "find", !.op = op, !.owner = o])

BeginMerge(r) ==
    \E d \in Devices :
        BeginRequest(r, [NoCommand EXCEPT !.at = "device", !.op = "merge", !.owner = User,
                                          !.device = d])

(* PlaceOrder has read the cart it orders, and removes what it has ordered *)
(* when the payment is created.                                            *)
BeginRemoveOrdered(r) ==
    /\ cart[User].items # <<>>
    /\ BeginRequest(r, [NoCommand EXCEPT !.at = "find", !.op = "ordered", !.owner = User,
                                         !.skus = SkusOf(cart[User])])

(* Base.offer, outside of the transaction; an offer that is not on sale    *)
(* ends the command.                                                       *)
AskOffer(r) ==
    /\ request[r].at = "ask"
    /\ \E n \in Stocks :
          MoveOn(r, [request[r] EXCEPT !.at = "find", !.stock = [s \in CartSkus |-> n]])
    /\ UNCHANGED <<cart, lastId, purgeable>>

(* Only adding an item creates a cart.                                     *)
Find(r) ==
    LET c == request[r] IN
    /\ c.at = "find" /\ cart[c.owner].version <= MaxCartVersion
    /\ \/ cart[c.owner] # NoCart
       \/ c.op = "add" /\ lastId < MaxCarts
    /\ MoveOn(r, [c EXCEPT !.at = "save", !.row = cart[c.owner]])
    /\ UNCHANGED <<cart, lastId, purgeable>>

FindDevice(r) ==
    LET c == request[r] IN
    /\ c.at = "device" /\ cart[c.device] # NoCart
    /\ MoveOn(r, [c EXCEPT !.at = "target", !.other = cart[c.device]])
    /\ UNCHANGED <<cart, lastId, purgeable>>

FindTarget(r) ==
    LET c == request[r] IN
    /\ c.at = "target" /\ cart[User].version <= MaxCartVersion
    /\ MoveOn(r, [c EXCEPT !.at = "stock", !.row = cart[User]])
    /\ UNCHANGED <<cart, lastId, purgeable>>

AskStock(r) ==
    /\ request[r].at = "stock"
    /\ \E f \in [CartSkus -> Stocks] :
          MoveOn(r, [request[r] EXCEPT !.at = "save", !.stock = f])
    /\ UNCHANGED <<cart, lastId, purgeable>>

(* What the command makes of the cart, Nil if it is refused.              *)
Result(c) ==
    LET sku == CHOOSE s \in c.skus : TRUE IN
    CASE c.op = "add" -> Add(c.row, sku, c.quantity, c.stock[sku])
      [] c.op = "update" -> SetQuantity(c.row, sku, c.quantity, c.stock[sku])
      [] c.op = "remove" -> RemoveItem(c.row, sku)
      [] c.op = "remove_promo" -> [c.row EXCEPT !.promo = Nil]
      [] c.op = "ordered" -> IF SkusOf(c.row) \cap c.skus = {} THEN Nil
                             ELSE Without(c.row, c.skus)
      [] c.op = "merge" -> Absorb(c.row, c.other, c.stock)

(* Every change of a device's cart puts its end off.                       *)
SaveCart(r, owner, row) ==
    /\ CanSaveCart(owner, request[r].row)
    /\ (row.version = 0) => (lastId < MaxCarts)
    /\ lastId' = IF row.version = 0 THEN lastId + 1 ELSE lastId
    /\ EndRequest(r)

Change(r) ==
    LET c == request[r] IN
    /\ c.at = "save" /\ c.op \in {"add", "update", "remove", "remove_promo", "ordered"}
    /\ Result(c) # Nil
    /\ SaveCart(r, c.owner, Result(c))
    /\ cart' = [cart EXCEPT ![c.owner] = Stored(Result(c))]
    /\ purgeable' = purgeable \ {c.owner}

(* The code is kept if the quote of the cart accepts it.                   *)
ApplyPromoCode(r) ==
    LET c == request[r] IN
    /\ c.at = "save" /\ c.op = "apply_promo" /\ c.row.items # <<>>
    /\ \E code \in Codes :
          LET row == [c.row EXCEPT !.promo = code]
          IN  /\ SaveCart(r, c.owner, row)
              /\ cart' = [cart EXCEPT ![c.owner] = Stored(row)]
    /\ purgeable' = purgeable \ {c.owner}

MergeCarts(r) ==
    LET c == request[r] IN
    /\ c.at = "save" /\ c.op = "merge"
    /\ SaveCart(r, User, Result(c))
    /\ CanDelete(c.device, c.other)
    /\ cart' = [cart EXCEPT ![User] = Stored(Result(c)), ![c.device] = NoCart]
    /\ purgeable' = purgeable \ {c.device}

(* The command is refused, finds nothing to do or another version, or the  *)
(* database fails.                                                         *)
FailRequest(r) == request[r] # NoCommand /\ EndRequest(r) /\ UNCHANGED <<cart, lastId, purgeable>>

Expire(d) ==
    /\ cart[d] # NoCart /\ d \notin purgeable
    /\ purgeable' = purgeable \cup {d}
    /\ UNCHANGED <<cart, lastId, request>>

(* The job; it skips carts that are locked.                                *)
PurgeExpired ==
    \E S \in SUBSET purgeable :
        /\ S # {} /\ Cardinality(S) <= PurgeBatch
        /\ cart' = [o \in Owners |-> IF o \in S THEN NoCart ELSE cart[o]]
        /\ purgeable' = purgeable \ S
        /\ UNCHANGED <<lastId, request>>

-----------------------------------------------------------------------------
CartInit ==
    /\ cart = [o \in Owners |-> NoCart]
    /\ lastId = 0 /\ purgeable = {}
    /\ request = [r \in CartRequests |-> NoCommand]

CartStep(r) ==
    \/ BeginChange(r) \/ BeginPromo(r) \/ BeginMerge(r) \/ BeginRemoveOrdered(r)
    \/ AskOffer(r) \/ Find(r) \/ FindDevice(r) \/ FindTarget(r) \/ AskStock(r)
    \/ Change(r) \/ ApplyPromoCode(r) \/ MergeCarts(r) \/ FailRequest(r)

CartNext ==
    \/ \E r \in CartRequests : CartStep(r)
    \/ \E d \in Devices : Expire(d)
    \/ PurgeExpired

CartSpec == CartInit /\ [][CartNext]_cartVars

-----------------------------------------------------------------------------
(* Every variable stays in its range: no cart outgrows its limits.         *)
CartTypeOK ==
    /\ \A o \in Owners : cart[o] = NoCart \/ IsCart(cart[o])
    /\ lastId \in 0..MaxCarts
    /\ purgeable \subseteq {d \in Devices : cart[d] # NoCart}
    /\ \A r \in CartRequests :
          /\ request[r].at \in {"idle", "ask", "find", "device", "target", "stock", "save"}
          /\ request[r].op \in {"none"} \cup Ops

(* What may keep an item of a device's cart out of the one it is merged    *)
(* into: another currency, no stock, or too many items.                    *)
LeftOut(r, sku) ==
    \/ /\ cart[User].items # <<>>
       /\ cart[User].currency # request[r].other.currency
    \/ request[r].stock[sku] = 0
    \/ Len(cart'[User].items) = MaxItems

(* An item leaves a cart when somebody removes or orders it, when the cart *)
(* is purged, or when it is merged and the item goes on in the customer's  *)
(* cart: no change made meanwhile on another device or in another tab is   *)
(* lost.                                                                   *)
ItemsKept ==
    [][\A o \in Owners : \A sku \in SkusOf(cart[o]) \ SkusOf(cart'[o]) :
          \/ o \in purgeable /\ request' = request
          \/ \E r \in CartRequests :
                /\ request[r].at = "save" /\ request'[r] = NoCommand
                /\ \/ request[r].op \in {"remove", "ordered"} /\ sku \in request[r].skus
                   \/ /\ request[r].op = "merge" /\ o = request[r].device
                      /\ (sku \in SkusOf(cart'[User]) \/ LeftOut(r, sku))]_cartVars

(* The items of a cart share one currency.                                 *)
OneCurrency ==
    \A o \in Owners : \A s, t \in SkusOf(cart[o]) : Currency[s] = Currency[t]
=============================================================================
