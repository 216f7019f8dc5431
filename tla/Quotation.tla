----------------------------- MODULE Quotation -----------------------------
(***************************************************************************)
(* From the cart to the order: the preview of a checkout, which shows the  *)
(* cart with current prices, stock and shipping, and the draft of the      *)
(* order that PlaceOrder makes of the same cart.  Cart and order ask the   *)
(* pricing context for a quote, each in its own way, and add up the parts  *)
(* of the sellers each in its own way.                                     *)
(*                                                                         *)
(* A behaviour is one customer who previews the cart and orders it while   *)
(* nothing else changes; `world' is what both read.  Currencies, titles    *)
(* and the address are not modelled.                                       *)
(***************************************************************************)
EXTENDS Calculator

CONSTANTS
    SellerOf,            \* SKU -> its seller
    Path,                \* SKU -> the categories of its product
    Worlds,              \* what the customer may find
    Fee, FreeFrom,       \* shipping of a parcel, and the subtotal that ships free
    MaxLines,            \* lines in an order or a quote
    Unasked              \* not asked for yet

VARIABLES world, view, placed

quotationVars == <<world, view, placed>>

(* A world has the items of the cart, [sku, quantity] each; the offers on  *)
(* sale; what is in stock of a SKU and its price (0: pricing does not know *)
(* it, or not as active); the rules of the running promotions; the promo   *)
(* code of the cart, and whether its status, period and limits admit a use *)
(* by this customer.                                                       *)
WorldFields == {"items", "offered", "stock", "price", "rules", "promo", "usable"}

(* What DiscountSpec.validate admits of a promotion, and CreatePromoCode   *)
(* of a promo code.                                                        *)
IsDiscount(rule) ==
    /\ rule.points \in Nat /\ rule.amount \in Nat
    /\ rule.kind = "percentage" => rule.points \in 1..10000
    /\ rule.kind = "fixed" => rule.amount > 0

IsRule(rule) ==
    /\ IsDiscount(rule) /\ rule.kind \in {"percentage", "fixed", "buy_n_get_m"}
    /\ rule.buy \in Nat /\ rule.free \in Nat
    /\ rule.kind = "buy_n_get_m" => rule.free \in 1..(rule.buy - 1)
    /\ rule.exclusive \in BOOLEAN

IsPromo(promo) ==
    \/ promo = NoPromo
    \/ /\ IsDiscount(promo) /\ promo.kind \in {"percentage", "fixed"}
       /\ promo.minimum \in Nat

(* A cart has one line of a SKU, with a quantity (module Cart).            *)
IsWorld(w) ==
    /\ DOMAIN w = WorldFields
    /\ w.items \in Seq([sku : DOMAIN SellerOf, quantity : Nat \ {0}])
    /\ \A i, j \in DOMAIN w.items : w.items[i].sku = w.items[j].sku => i = j
    /\ \A sku \in DOMAIN SellerOf : w.stock[sku] \in Nat /\ w.price[sku] \in Nat
    /\ w.rules \in Seq(Range(w.rules)) /\ \A rule \in Range(w.rules) : IsRule(rule)
    /\ IsPromo(w.promo) /\ w.usable \in BOOLEAN

ASSUME QuotationAssumption ==
    /\ \A w \in Worlds : IsWorld(w)
    /\ Fee \in Nat /\ FreeFrom \in Nat /\ MaxLines \in Nat

-----------------------------------------------------------------------------
(* The quote of pricing.                                                   *)

Lines(w, items) ==
    [i \in DOMAIN items |->
        [sku |-> items[i].sku, seller |-> SellerOf[items[i].sku],
         path |-> Path[items[i].sku], unit |-> w.price[items[i].sku],
         quantity |-> items[i].quantity]]

(* EnsureUsable: the smallest cart is compared with the total that         *)
(* promotions leave.                                                       *)
EnsureUsable(w, promo, subtotal) ==
    w.usable /\ subtotal >= promo.minimum

QuoteLines(w, lines, promo) ==
    IF \E i \in DOMAIN lines : lines[i].unit = 0 THEN Refused("unpriced")
    ELSE IF promo # NoPromo
             /\ ~EnsureUsable(w, promo, Calculate(lines, w.rules, NoPromo).total)
         THEN Refused("promo_code")
    ELSE Calculate(lines, w.rules, promo)

Quote(w, items, promo) ==
    IF items = <<>> \/ Len(items) > MaxLines THEN Refused("invalid_lines")
    ELSE QuoteLines(w, Lines(w, items), promo)

(* Flat tariffs, for each seller's parcel.                                 *)
Cost(subtotal) == IF FreeFrom > 0 /\ subtotal >= FreeFrom THEN 0 ELSE Fee

SellersIn(lines) == {lines[i].seller : i \in DOMAIN lines}

Total(lines, s, field) ==
    SumFunctionOnSet([i \in DOMAIN lines |-> lines[i][field]],
                     {i \in DOMAIN lines : lines[i].seller = s})

-----------------------------------------------------------------------------
(* The preview of the cart.                                                *)

(* Faulty: the stock alone tells whether a line can be ordered.            *)
InStock(w, item) ==
    CASE w.stock[item.sku] = 0 -> "unavailable"
      [] w.stock[item.sku] \in 1..(item.quantity - 1) -> "insufficient_stock"
      [] OTHER -> "available"

LineStatus(w, item) ==
    CASE item.sku \notin w.offered \/ w.stock[item.sku] = 0 -> "unavailable"
      [] item.sku \in w.offered /\ w.stock[item.sku] \in 1..(item.quantity - 1) ->
            "insufficient_stock"
      [] OTHER -> "available"

Available(w) == Keep(w.items, {i \in Range(w.items) : LineStatus(w, i) = "available"})

(* Lines that pricing does not know are found one by one.                  *)
Exclude(w, items) ==
    Keep(items, {i \in Range(items) : Quote(w, <<i>>, NoPromo).error # "unpriced"})

(* A quote that the promo code spoils is asked for again without it.       *)
OrNoPromo(w, items, quote) ==
    IF quote.error = "promo_code" THEN Quote(w, items, NoPromo) ELSE quote

QuoteOrNoPromo(w, items) ==
    IF items = <<>> THEN Refused("none") ELSE OrNoPromo(w, items, Quote(w, items, w.promo))

PromoRefused(w, items) ==
    items # <<>> /\ Quote(w, items, w.promo).error = "promo_code"

(* Lines on sale that pricing can price.                                   *)
Priceable(w, items) ==
    IF QuoteOrNoPromo(w, items).error = "unpriced" THEN Exclude(w, items) ELSE items

(* Only sellers with something to pay for have a parcel; without a parcel  *)
(* the preview shows no amounts.                                           *)
View(w, items, quote, parcels) ==
    [error |-> quote.error,
     total |-> IF parcels = {} THEN 0
               ELSE quote.total + AddUp([s \in parcels |-> Cost(Total(quote.lines, s, "final"))]),
     ready |-> /\ quote.error = "none" /\ parcels # {} /\ items = w.items
               /\ ~PromoRefused(w, items)]

Group(w, items, quote) ==
    View(w, items, quote,
         {s \in SellersIn(quote.lines) : Total(quote.lines, s, "final") > 0})

AssembleItems(w, items) == Group(w, items, QuoteOrNoPromo(w, items))

Assemble(w) == AssembleItems(w, Priceable(w, Available(w)))

-----------------------------------------------------------------------------
(* The draft of the order.                                                 *)

(* What the promo code is redeemed for: the price before it.               *)
PromoBasis(line) == line.final + line.promo

NewPart(base, final) ==
    [subtotal |-> base, discount |-> base - final, shipping |-> Cost(final),
     total |-> final + Cost(final)]

Part(lines, s) == NewPart(Total(lines, s, "base"), Total(lines, s, "final"))

(* Place checks what it is given once more.                                *)
ValidItems(lines) ==
    \A i \in DOMAIN lines :
        /\ \A j \in DOMAIN lines : lines[i].sku = lines[j].sku => i = j
        /\ lines[i].base > 0 /\ lines[i].final \in 0..lines[i].base

NoOrder(error) ==
    [error |-> error, parts |-> <<>>, subtotal |-> 0, discount |-> 0, shipping |-> 0,
     total |-> 0, basis |-> 0]

Sum(parts, field) == AddUp([s \in DOMAIN parts |-> parts[s][field]])

NewOrder(lines, parts) ==
    [error |-> "none", parts |-> parts, subtotal |-> Sum(parts, "subtotal"),
     discount |-> Sum(parts, "discount"), shipping |-> Sum(parts, "shipping"),
     total |-> Sum(parts, "total"),
     basis |-> AddUp([i \in DOMAIN lines |-> PromoBasis(lines[i])])]

Order(lines) == NewOrder(lines, [s \in SellersIn(lines) |-> Part(lines, s)])

FromQuote(quote) ==
    IF quote.error = "unpriced" THEN NoOrder("items_unavailable")
    ELSE IF quote.error # "none" THEN NoOrder(quote.error)
    ELSE IF Len(quote.lines) > MaxLines \/ ~ValidItems(quote.lines)
         THEN NoOrder("invalid_item")
    ELSE Order(quote.lines)

Draft(w) ==
    IF w.items = <<>> THEN NoOrder("cart_empty")
    ELSE IF \E i \in DOMAIN w.items : w.items[i].sku \notin w.offered
         THEN NoOrder("items_unavailable")
    ELSE FromQuote(Quote(w, w.items, w.promo))

-----------------------------------------------------------------------------
QuotationInit ==
    /\ world \in Worlds
    /\ view = Unasked /\ placed = Unasked

Preview ==
    /\ view = Unasked
    /\ view' = Assemble(world)
    /\ UNCHANGED <<world, placed>>

Place ==
    /\ view # Unasked /\ placed = Unasked
    /\ placed' = Draft(world)
    /\ UNCHANGED <<world, view>>

QuotationNext == Preview \/ Place

QuotationSpec == QuotationInit /\ [][QuotationNext]_quotationVars

-----------------------------------------------------------------------------
(* Every variable stays in its range: no amount of a quote is negative.    *)
QuotationTypeOK ==
    /\ world \in Worlds /\ DOMAIN world = WorldFields
    /\ view # Unasked => view.total \in Nat /\ view.ready \in BOOLEAN
    /\ placed # Unasked =>
          /\ {placed.subtotal, placed.discount, placed.shipping, placed.total,
              placed.basis} \subseteq Nat
          /\ DOMAIN placed.parts \subseteq Range(SellerOf)

Ordered == placed # Unasked /\ placed.error = "none"

(* An order adds up to its quote although it is added up from the lines,   *)
(* seller by seller, and never from the total of the quote: rounding loses *)
(* nothing of a promo code.  And the amount the code is redeemed for is    *)
(* one it is good for, and gives the discount the quote gave.              *)
OrderKeepsQuote ==
    Ordered =>
        LET quote == Quote(world, world.items, world.promo)
            bare == Quote(world, world.items, NoPromo)
        IN  /\ placed.total - placed.shipping = quote.total
            /\ placed.discount = quote.discount
            /\ world.promo # NoPromo =>
                  /\ EnsureUsable(world, world.promo, placed.basis)
                  /\ PromoDiscount(world.promo, placed.basis) = bare.total - quote.total

(* A cart that is shown as ready for checkout can be ordered, although the *)
(* preview and the order find out by different queries.                    *)
ReadyIsAccepted == (placed # Unasked /\ view.ready) => placed.error = "none"

(* The total of the preview is the total of the order.                     *)
PreviewTotalHolds == (Ordered /\ view.ready) => placed.total = view.total

(* Rounding never makes a quote impossible that the promo code accepts.    *)
PromoSpreads == placed # Unasked => placed.error # "negative_amount"
=============================================================================
