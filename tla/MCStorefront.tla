---------------------------- MODULE MCStorefront ----------------------------
(***************************************************************************)
(* Small instances of what serves a customer before the checkout, for TLC: *)
(* promo codes, accounts and sessions, idempotency keys, the breaker       *)
(* around a payment provider, carts, prices with promotions, and quotes.   *)
(* They share no state.  One run checks them all: a behaviour begins with  *)
(* the choice of one of them, `focus', and takes its steps only.           *)
(***************************************************************************)
EXTENDS PromoCode, Idempotency, Pricing, Identity, Cart, Quotation, TLC

VARIABLES
    focus,
    breaker, failed, probing, cool, call

-----------------------------------------------------------------------------
(* Two orders of one customer and one of another.                          *)
Buyers == "o1" :> "ann" @@ "o2" :> "ann" @@ "o3" :> "bob"

(* One account with one session: a customer on two devices beside support  *)
(* and the worker that revokes sessions.                                   *)
Email1 == "u1" :> "mail"
Handled ==
    "a" :> {"register", "sign_in", "refresh", "withdraw", "revoke_all"}
    @@ "b" :> {"confirm", "refresh", "revoke", "block", "unblock", "grant"}

(* Calls that begin before, during and after a probe.                      *)
Provider == INSTANCE Breaker WITH Calls <- {"c1", "c2", "c3", "c4"}, Failures <- 3

(* A customer with an item in the cart, and another on a device.           *)
OneCurrencyOf == [s \in {"x", "y"} |-> "KZT"]
ShoppersMay ==
    "r1" :> {"merge", "add"}
    @@ "r2" :> {"remove", "update", "apply_promo", "remove_promo", "ordered", "add"}

InCart(id, sku) ==
    [id |-> id, version |-> 1, items |-> <<[sku |-> sku, quantity |-> 1]>>,
     currency |-> "KZT", promo |-> Nil]

CartStart ==
    /\ cart = "u" :> InCart(1, "x") @@ "d" :> InCart(2, "y")
    /\ lastId = 2 /\ purgeable = {}
    /\ request = [r \in CartRequests |-> NoCommand]

(* The same customer alone, with SKUs of two currencies.                   *)
TwoCurrencies == "x" :> "KZT" @@ "y" :> "USD"
AloneMay == "r1" :> {"add", "remove", "merge"}

(* One offer, or one promotion.                                            *)
Tenge(amount) == [amount |-> amount, currency |-> "KZT"]
OfferPrices == {Tenge(1), Tenge(3), [amount |-> 1, currency |-> "USD"]}

Among(ops) == \A r \in Requests : command'[r].op \in {"none"} \cup ops

(* Carts with up to three lines of two sellers, and what they may meet.    *)
Line(sku, n) == [sku |-> sku, quantity |-> n]

Rule(kind, points, amount, target, exclusive) ==
    [kind |-> kind, points |-> points, amount |-> amount, buy |-> 2, free |-> 1,
     target |-> target, exclusive |-> exclusive]

Found ==
    [items : {<<>>, <<Line("b", 1)>>, <<Line("a", 1), Line("b", 2)>>,
              <<Line("a", 2), Line("c", 1)>>, <<Line("a", 1), Line("b", 1), Line("c", 1)>>},
     offered : {{"a", "b", "c"}, {"a", "c"}},
     stock : {"a" :> 2 @@ "b" :> 2 @@ "c" :> 2, "a" :> 1 @@ "b" :> 1 @@ "c" :> 1,
              "a" :> 0 @@ "b" :> 5 @@ "c" :> 5},
     price : {"a" :> 10 @@ "b" :> 10 @@ "c" :> 10, "a" :> 13 @@ "b" :> 5 @@ "c" :> 5,
              "a" :> 7 @@ "b" :> 0 @@ "c" :> 7},
     rules : {<<>>,
              <<Rule("percentage", 1500, 0, {"s1"}, TRUE), Rule("fixed", 0, 7, {"a"}, FALSE)>>,
              <<Rule("fixed", 0, 5, {"k"}, FALSE), Rule("percentage", 10000, 0, {"c"}, FALSE)>>,
              <<Rule("buy_n_get_m", 0, 0, {"s1"}, FALSE), Rule("fixed", 0, 7, {"c"}, FALSE)>>},
     promo : {NoPromo,
              [kind |-> "percentage", points |-> 3300, amount |-> 0, minimum |-> 0],
              [kind |-> "fixed", points |-> 0, amount |-> 10, minimum |-> 25]},
     usable : BOOLEAN]

SoldBy == "a" :> "s1" @@ "b" :> "s1" @@ "c" :> "s2"
Ancestors == "a" :> {"k"} @@ "b" :> {} @@ "c" :> {}

-----------------------------------------------------------------------------
providerVars == <<breaker, failed, probing, cool, call>>

storefrontVars == <<focus, vars, identityVars, idemVars, providerVars, cartVars, pricingVars,
                    quotationVars>>

NothingAsked == world = Unasked /\ view = Unasked /\ placed = Unasked

StorefrontInit ==
    /\ focus \in {"promo", "accounts", "keys", "provider", "carts", "offers", "campaigns",
                  "quotes"}
    /\ Init /\ IdentityInit /\ IdempotencyInit /\ Provider!Init /\ CartStart /\ PricingInit
    /\ IF focus = "quotes" THEN QuotationInit ELSE NothingAsked

Only(f) == focus = f /\ UNCHANGED focus

StorefrontNext ==
    \/ /\ Only("promo") /\ Next
       /\ UNCHANGED <<identityVars, idemVars, providerVars, cartVars, pricingVars, quotationVars>>
    \/ /\ Only("accounts") /\ IdentityNext
       /\ UNCHANGED <<vars, idemVars, providerVars, cartVars, pricingVars, quotationVars>>
    \/ /\ Only("keys") /\ IdempotencyNext
       /\ UNCHANGED <<vars, identityVars, providerVars, cartVars, pricingVars, quotationVars>>
    \/ /\ Only("provider") /\ Provider!Next
       /\ UNCHANGED <<vars, identityVars, idemVars, cartVars, pricingVars, quotationVars>>
    \/ /\ Only("carts") /\ CartNext
       /\ UNCHANGED <<vars, identityVars, idemVars, providerVars, pricingVars, quotationVars>>
    \/ /\ Only("offers") /\ PricingNext /\ Among({"sync", "compare_at"})
       /\ UNCHANGED <<vars, identityVars, idemVars, providerVars, cartVars, quotationVars>>
    \/ /\ Only("campaigns") /\ PricingNext /\ Among({"create", "update", "status"})
       /\ UNCHANGED <<vars, identityVars, idemVars, providerVars, cartVars, quotationVars>>
    \/ /\ Only("quotes") /\ QuotationNext
       /\ UNCHANGED <<vars, identityVars, idemVars, providerVars, cartVars, pricingVars>>

StorefrontSpec ==
    /\ StorefrontInit /\ [][StorefrontNext]_storefrontVars
    /\ Fairness /\ Delivery /\ Provider!Fairness

-----------------------------------------------------------------------------
(* The properties, each stated where its component is defined.             *)

(* Every variable of every component stays in its range.                   *)
StorefrontTypeOK ==
    CASE focus = "promo" -> TypeOK
      [] focus = "accounts" -> IdentityTypeOK
      [] focus = "keys" -> IdempotencyTypeOK
      [] focus = "provider" -> Provider!TypeOK
      [] focus = "carts" -> CartTypeOK
      [] focus \in {"offers", "campaigns"} -> PricingTypeOK
      [] focus = "quotes" -> QuotationTypeOK

(* The breaker never waits for a probe that nobody makes.                  *)
ProbeEnds == Provider!ProbeEnds

(* A customer alone, from empty carts on.                                  *)
CurrencySpec ==
    /\ focus = "carts"
    /\ Init /\ IdentityInit /\ IdempotencyInit /\ Provider!Init /\ PricingInit
    /\ CartInit
    /\ NothingAsked
    /\ [][/\ Only("carts") /\ CartNext
          /\ UNCHANGED <<vars, identityVars, idemVars, providerVars, pricingVars,
                         quotationVars>>]_storefrontVars
=============================================================================
