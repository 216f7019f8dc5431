----------------------------- MODULE Calculator -----------------------------
(***************************************************************************)
(* The price calculator of the pricing context: promotions reduce the      *)
(* price of a line one after the other, a promo code reduces what is left  *)
(* of the whole cart and is spread over its lines.  Amounts are in minor   *)
(* units of one currency; the overflow of 64 bits is not modelled.         *)
(***************************************************************************)
EXTENDS Lists

(* What a promotion is for: SKUs, sellers and categories.                  *)
Matches(rule, line) ==
    ({line.sku, line.seller} \cup line.path) \cap rule.target # {}

Applicable(rule, line) ==
    /\ Matches(rule, line)
    /\ rule.kind = "buy_n_get_m" => line.quantity >= rule.buy

AtMost(amount, current) == IF amount > current THEN current ELSE amount

Percent(amount, points) == (amount * points) \div 10000

(* The discount a rule gives on what earlier rules have left of the price. *)
Discount(rule, line, current) ==
    CASE rule.kind = "percentage" -> Percent(current, rule.points)
      [] rule.kind = "fixed" -> AtMost(rule.amount, current)
      [] rule.kind = "buy_n_get_m" ->
            AtMost(line.unit * (line.quantity \div rule.buy) * rule.free, current)

Base(line) == line.unit * line.quantity

(* One that gives nothing is passed over; an exclusive one that gives      *)
(* something is the last.                                                  *)
Apply(left, amount, rule) ==
    IF left.closed \/ amount = 0 THEN left
    ELSE [final |-> left.final - amount, closed |-> rule.exclusive]

Reduce(line, left, rule) ==
    IF Applicable(rule, line) THEN Apply(left, Discount(rule, line, left.final), rule) ELSE left

(* Rules come in order of priority.                                        *)
LineFinal(line, rules) ==
    FoldLeft(LAMBDA left, rule : Reduce(line, left, rule),
             [final |-> Base(line), closed |-> FALSE], rules).final

AddUp(amounts) == SumFunction(amounts)

PromoDiscount(promo, subtotal) ==
    IF promo.kind = "percentage" THEN Percent(subtotal, promo.points)
    ELSE AtMost(promo.amount, subtotal)

(* Faulty: every line takes the share that is its due, rounded.            *)
SharesRounded(finals, discount) ==
    [i \in DOMAIN finals |-> (discount * finals[i]) \div AddUp(finals)]

Take(shares, left, due, last) == Append(shares, IF last \/ due > left THEN left ELSE due)

(* Each line takes its share, rounded down; the last takes what is left.   *)
Shares(finals, discount) ==
    FoldLeft(LAMBDA shares, final :
                Take(shares, discount - AddUp(shares), (discount * final) \div AddUp(finals),
                     Len(shares) = Len(finals) - 1),
             <<>>, finals)

(* No Money is negative: the quote fails when the last line is cheaper     *)
(* than what rounding has left for it.                                     *)
Fits(finals, shares) == \A i \in DOMAIN finals : shares[i] <= finals[i]

Refused(error) == [error |-> error, lines |-> <<>>, subtotal |-> 0, discount |-> 0, total |-> 0]

NoPromo == [kind |-> "none", points |-> 0, amount |-> 0, minimum |-> 0]

QuoteOf(lines, finals, base, total, shares) ==
    IF ~Fits(finals, shares) THEN Refused("negative_amount")
    ELSE [error |-> "none",
          lines |-> [i \in DOMAIN lines |->
                       [sku |-> lines[i].sku, seller |-> lines[i].seller,
                        base |-> Base(lines[i]), final |-> finals[i] - shares[i],
                        promo |-> shares[i]]],
          subtotal |-> base, discount |-> base - total, total |-> total]

(* A promo code that gives nothing is not in the quote.                    *)
WithPromo(lines, finals, subtotal, discount) ==
    QuoteOf(lines, finals, AddUp([i \in DOMAIN lines |-> Base(lines[i])]), subtotal - discount,
            IF discount = 0 THEN [i \in DOMAIN lines |-> 0] ELSE Shares(finals, discount))

Discounted(lines, finals, subtotal, promo) ==
    WithPromo(lines, finals, subtotal,
              IF promo = NoPromo THEN 0 ELSE PromoDiscount(promo, subtotal))

FromFinals(lines, finals, promo) == Discounted(lines, finals, AddUp(finals), promo)

Calculate(lines, rules, promo) ==
    IF lines = <<>> THEN Refused("empty")
    ELSE FromFinals(lines, [i \in DOMAIN lines |-> LineFinal(lines[i], rules)], promo)
=============================================================================
