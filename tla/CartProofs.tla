----------------------------- MODULE CartProofs -----------------------------
(***************************************************************************)
(* Proofs about the cart and what becomes of it, for any instance of each. *)
(*                                                                         *)
(* The cart: requests that read a cart and save it later never lose what   *)
(* another request has put into it, and a cart has one line of a SKU.      *)
(*                                                                         *)
(* The quote: rules and promo codes take no more off than there is; the    *)
(* shares of the lines add up to the discount of the promo code.           *)
(*                                                                         *)
(* Preview and order: an order that is added up seller by seller has the   *)
(* total of its quote; a preview that is ready can be ordered.             *)
(***************************************************************************)
EXTENDS Cart, Quotation, Sums

-----------------------------------------------------------------------------
(* What is kept of a sequence.                                             *)

LEMMA MaxIsGreatest == ASSUME NEW T PROVE Max(T) = Greatest(T)
BY DEF Max, Greatest

KeepsOn(seq, kept, f) ==
    f = [T \in SUBSET (DOMAIN seq) |->
            IF T = {} THEN <<>>
            ELSE IF seq[Max(T)] \in kept THEN Append(f[T \ {Max(T)}], seq[Max(T)])
                 ELSE f[T \ {Max(T)}]]

LEMMA KeepForm ==
    ASSUME NEW seq, NEW kept
    PROVE  Keep(seq, kept) = (CHOOSE f : KeepsOn(seq, kept, f))[DOMAIN seq]
BY DEF Keep, FoldLeft, MapThenFoldSet, KeepsOn

Kept(A, seq, kept, v) ==
    /\ v \in [0..Len(seq) -> Seq(A)]
    /\ v[0] = <<>> /\ v[Len(seq)] = Keep(seq, kept)
    /\ \A k \in 1..Len(seq) :
          v[k] = IF seq[k] \in kept THEN Append(v[k - 1], seq[k]) ELSE v[k - 1]

LEMMA KeepRuns ==
    ASSUME NEW A, NEW seq \in Seq(A), NEW kept
    PROVE  \E v : Kept(A, seq, kept, v)
<1>1. PICK n \in Nat : n = Len(seq) /\ DOMAIN seq = 1..n /\ \A k \in 1..n : seq[k] \in A
  OBVIOUS
<1>2. PICK B : B = Seq(A)
  OBVIOUS
<1>3. PICK step : step = [k \in 1..n |->
                      [a \in B |-> IF seq[k] \in kept THEN Append(a, seq[k]) ELSE a]]
  OBVIOUS
<1>4. StepsIn(B, step, n)
  BY <1>1, <1>2, <1>3 DEF StepsIn
<1>5. PICK e : e = <<>>
  OBVIOUS
<1>6. e \in B
  BY <1>2, <1>5
<1>7. \E f : KeepsOn(seq, kept, f)
  <2>1. PICK f : LeftFold(B, e, step, n, f)
    BY <1>4, <1>6, LeftFoldsExist
  <2>2. f = [T \in SUBSET (1..n) |-> f[T]]
    BY <2>1 DEF LeftFold
  <2>3. ASSUME NEW T \in SUBSET (1..n)
        PROVE  f[T] = IF T = {} THEN <<>>
                      ELSE IF seq[Max(T)] \in kept THEN Append(f[T \ {Max(T)}], seq[Max(T)])
                           ELSE f[T \ {Max(T)}]
    BY <1>3, <1>5, <2>1, MaxIsGreatest DEF LeftFold
  <2> QED
    BY <1>1, <2>2, <2>3 DEF KeepsOn
<1>8. PICK f : f = (CHOOSE g : KeepsOn(seq, kept, g)) /\ KeepsOn(seq, kept, f)
  BY <1>7
<1>9. Keep(seq, kept) = f[1..n]
  BY <1>1, <1>8, KeepForm
<1>10. f[{}] = e
  BY <1>5, <1>8 DEF KeepsOn
<1>11. ASSUME NEW T \in SUBSET (1..n), T # {}
       PROVE  ValueOf(B, step, T, f)
  <2>1. f[T] = IF seq[Max(T)] \in kept THEN Append(f[T \ {Max(T)}], seq[Max(T)])
               ELSE f[T \ {Max(T)}]
    BY <1>1, <1>8, <1>11 DEF KeepsOn
  <2>2. Greatest(T) \in 1..n
    BY <1>11, GreatestIsMember
  <2> QED
    BY <1>3, <2>1, <2>2, MaxIsGreatest DEF ValueOf
<1>12. PICK v : Leads(B, e, step, n, v, f[1..n])
  BY <1>4, <1>6, <1>10, <1>11, LeftFoldRuns
<1>13. \A k \in 1..n :
          v[k] = IF seq[k] \in kept THEN Append(v[k - 1], seq[k]) ELSE v[k - 1]
  <2> SUFFICES ASSUME NEW k \in 1..n
               PROVE  v[k] = IF seq[k] \in kept THEN Append(v[k - 1], seq[k]) ELSE v[k - 1]
    OBVIOUS
  <2>1. v[k - 1] \in B
    BY <1>12 DEF Leads
  <2> QED
    BY <1>3, <1>12, <2>1 DEF Leads
<1> QED
  BY <1>1, <1>2, <1>5, <1>9, <1>12, <1>13 DEF Kept, Leads

(* They are elements of the sequence in their order, all that are in the   *)
(* set; and all of the sequence if they are as many.                       *)
Picks(seq, kept, k, chosen, m) ==
    /\ m \in [1..Len(chosen) -> 1..k]
    /\ \A i, j \in 1..Len(chosen) : i < j => m[i] < m[j]
    /\ \A i \in 1..Len(chosen) : chosen[i] = seq[m[i]] /\ seq[m[i]] \in kept
    /\ \A i \in 1..k : seq[i] \in kept => \E j \in 1..Len(chosen) : m[j] = i
    /\ Len(chosen) <= k
    /\ Len(chosen) = k => \A i \in 1..k : seq[i] \in kept /\ chosen[i] = seq[i]

LEMMA KeepPicks ==
    ASSUME NEW A, NEW seq \in Seq(A), NEW kept
    PROVE  /\ Keep(seq, kept) \in Seq(A)
           /\ \E m : Picks(seq, kept, Len(seq), Keep(seq, kept), m)
<1>1. PICK n \in Nat : n = Len(seq)
  OBVIOUS
<1>2. PICK v \in [0..n -> Seq(A)] :
              /\ v[0] = <<>> /\ Keep(seq, kept) = v[n]
              /\ \A k \in 1..n :
                    v[k] = IF seq[k] \in kept THEN Append(v[k - 1], seq[k]) ELSE v[k - 1]
  <2>1. PICK v : Kept(A, seq, kept, v)
    BY KeepRuns
  <2> QED
    BY <1>1, <2>1 DEF Kept
<1> DEFINE Q == {k \in 0..n : \E m : Picks(seq, kept, k, v[k], m)}
<1>3. 0 \in Q
  <2>1. Picks(seq, kept, 0, v[0], <<>>)
    BY <1>2 DEF Picks
  <2> QED
    BY <2>1
<1>4. ASSUME NEW k \in 1..n, k - 1 \in Q
      PROVE  k \in Q
  <2>1. PICK m : Picks(seq, kept, k - 1, v[k - 1], m)
    BY <1>4
  <2>2. PICK w \in Seq(A) : w = v[k - 1]
    OBVIOUS
  <2>3. PICK l \in Nat : l = Len(w)
    OBVIOUS
  <2>4. /\ m \in [1..l -> 1..(k - 1)] /\ l <= k - 1
        /\ \A i, j \in 1..l : i < j => m[i] < m[j]
        /\ \A i \in 1..l : w[i] = seq[m[i]] /\ seq[m[i]] \in kept
        /\ \A i \in 1..(k - 1) : seq[i] \in kept => \E j \in 1..l : m[j] = i
        /\ l = k - 1 => \A i \in 1..(k - 1) : seq[i] \in kept /\ w[i] = seq[i]
    BY <2>1, <2>2, <2>3 DEF Picks
  <2>5. k \in Nat /\ k - 1 \in Nat /\ seq[k] \in A /\ k \in 0..n
    BY <1>1
  <2>6. CASE seq[k] \notin kept
    <3>1. v[k] = w
      BY <1>2, <2>2, <2>6
    <3>2. m \in [1..l -> 1..k]
      BY <2>4, <2>5
    <3>3. \A i \in 1..k : seq[i] \in kept => \E j \in 1..l : m[j] = i
      <4> SUFFICES ASSUME NEW i \in 1..k, seq[i] \in kept
                   PROVE  \E j \in 1..l : m[j] = i
        OBVIOUS
      <4>1. i \in 1..(k - 1)
        BY <2>6
      <4> QED
        BY <2>4, <4>1
    <3>4. l <= k /\ l # k
      BY <2>4, <2>5
    <3>5. Picks(seq, kept, k, v[k], m)
      BY <2>3, <2>4, <3>1, <3>2, <3>3, <3>4 DEF Picks
    <3> QED
      BY <2>5, <3>5
  <2>7. CASE seq[k] \in kept
    <3>1. PICK u : u = Append(w, seq[k])
      OBVIOUS
    <3>2. v[k] = u
      BY <1>2, <2>2, <2>7, <3>1
    <3>3. Len(u) = l + 1 /\ u[l + 1] = seq[k] /\ \A i \in 1..l : u[i] = w[i]
      BY <2>3, <2>5, <3>1
    <3>4. PICK p : p = [i \in 1..(l + 1) |-> IF i = l + 1 THEN k ELSE m[i]]
      OBVIOUS
    <3>5. p \in [1..(l + 1) -> 1..k] /\ l + 1 <= k
      <4>1. l + 1 <= k
        BY <2>4
      <4>2. \A i \in 1..(l + 1) : i # l + 1 => m[i] \in 1..k
        <5> SUFFICES ASSUME NEW i \in 1..(l + 1), i # l + 1 PROVE m[i] \in 1..k
          OBVIOUS
        <5>1. i \in 1..l
          OBVIOUS
        <5>2. m[i] \in 1..(k - 1)
          BY <2>4, <5>1
        <5> QED
          BY <5>2
      <4>3. k \in 1..k
        OBVIOUS
      <4> QED
        BY <3>4, <4>1, <4>2, <4>3
    <3>6. p[l + 1] = k /\ \A i \in 1..l : p[i] = m[i] /\ m[i] \in 1..(k - 1)
      <4>1. l + 1 \in 1..(l + 1) /\ \A i \in 1..l : i \in 1..(l + 1) /\ i # l + 1
        OBVIOUS
      <4> QED
        BY <2>4, <3>4, <4>1
    <3>7. ASSUME NEW i \in 1..(l + 1), NEW j \in 1..(l + 1), i < j
          PROVE  p[i] < p[j]
      <4>1. i \in 1..l
        BY <3>7
      <4>2. CASE j = l + 1
        <5>1. PICK x \in 1..(k - 1) : x = m[i] /\ x = p[i]
          BY <3>6, <4>1
        <5>2. p[j] = k /\ x < k
          BY <3>6, <4>2
        <5> QED
          BY <5>1, <5>2
      <4>3. CASE j # l + 1
        <5>1. j \in 1..l
          BY <4>3
        <5>2. m[i] < m[j]
          BY <2>4, <3>7, <4>1, <5>1
        <5> QED
          BY <3>6, <4>1, <5>1, <5>2
      <4> QED
        BY <4>2, <4>3
    <3>8. ASSUME NEW i \in 1..(l + 1)
          PROVE  u[i] = seq[p[i]] /\ seq[p[i]] \in kept
      <4>1. CASE i = l + 1
        BY <2>7, <3>3, <3>6, <4>1
      <4>2. CASE i # l + 1
        <5>1. i \in 1..l
          BY <4>2
        <5> QED
          BY <2>4, <3>3, <3>6, <5>1
      <4> QED
        BY <4>1, <4>2
    <3>9. ASSUME NEW i \in 1..k, seq[i] \in kept
          PROVE  \E j \in 1..(l + 1) : p[j] = i
      <4>1. CASE i = k
        <5>1. l + 1 \in 1..(l + 1)
          OBVIOUS
        <5> QED
          BY <3>6, <4>1, <5>1
      <4>2. CASE i # k
        <5>1. i \in 1..(k - 1)
          BY <4>2
        <5>2. PICK j \in 1..l : m[j] = i
          BY <2>4, <3>9, <5>1
        <5>3. j \in 1..(l + 1) /\ p[j] = i
          BY <3>6, <5>2
        <5> QED
          BY <5>3
      <4> QED
        BY <4>1, <4>2
    <3>10. ASSUME l + 1 = k, NEW i \in 1..k
           PROVE  seq[i] \in kept /\ u[i] = seq[i]
      <4>1. CASE i = k
        BY <2>7, <3>3, <3>10, <4>1
      <4>2. CASE i # k
        <5>1. i \in 1..(k - 1) /\ i \in 1..l /\ l = k - 1
          BY <3>10, <4>2
        <5> QED
          BY <2>4, <3>3, <5>1
      <4> QED
        BY <4>1, <4>2
    <3>11. Picks(seq, kept, k, u, p)
      BY <3>3, <3>5, <3>7, <3>8, <3>9, <3>10 DEF Picks
    <3>12. Picks(seq, kept, k, v[k], p)
      BY <3>2, <3>11
    <3> QED
      BY <2>5, <3>12
  <2> QED
    BY <2>6, <2>7
<1>5. \A k \in 0..n : k \in Q
  <2> HIDE DEF Q
  <2> QED
    BY <1>3, <1>4, NumberInduction
<1>6. n \in Q
  BY <1>5
<1> QED
  BY <1>1, <1>2, <1>6

-----------------------------------------------------------------------------
(* Carts.                                                                  *)
Currencies == {""} \cup {Currency[s] : s \in CartSkus}

(* No SKU has two lines.                                                   *)
Single(items) == \A i, j \in DOMAIN items : items[i].sku = items[j].sku => i = j

Rows == [id : Nat, version : Nat, items : Seq(Item), currency : Currencies,
         promo : Codes \cup {Nil}]

Carts == {c \in Rows : Len(c.items) <= MaxItems /\ Single(c.items)}

LEMMA CartFields ==
    ASSUME NEW c \in Carts
    PROVE  /\ c.id \in Nat /\ c.version \in Nat /\ c.items \in Seq(Item)
           /\ c.currency \in Currencies /\ c.promo \in Codes \cup {Nil}
           /\ Len(c.items) <= MaxItems /\ Single(c.items)
BY DEF Carts, Rows

LEMMA ItemFields ==
    ASSUME NEW i \in Item
    PROVE  i.sku \in CartSkus /\ i.quantity \in 1..MaxQuantity
BY DEF Item

LEMMA SkusOfSkus ==
    ASSUME NEW c \in Carts
    PROVE  SkusOf(c) \subseteq CartSkus
<1>1. \A i \in DOMAIN c.items : c.items[i] \in Item
  BY CartFields
<1> QED
  BY <1>1, ItemFields DEF SkusOf

(* The same cart with other items.                                         *)
Like(d, c) ==
    /\ d \in Carts /\ d.id = c.id /\ d.version = c.version
    /\ d.currency = c.currency /\ d.promo = c.promo

LEMMA WithItems ==
    ASSUME NEW c \in Carts, NEW items \in Seq(Item), Len(items) <= MaxItems, Single(items),
           NEW d, d = [c EXCEPT !.items = items]
    PROVE  Like(d, c) /\ d.items = items
<1>1. /\ d \in Rows /\ d.items = items /\ d.id = c.id /\ d.version = c.version
      /\ d.currency = c.currency /\ d.promo = c.promo
  BY DEF Carts, Rows
<1> QED
  BY <1>1 DEF Carts, Like

LEMMA QuantityType ==
    ASSUME NEW c \in Carts, NEW sku
    PROVE  Quantity(c, sku) \in IF sku \in SkusOf(c) THEN 1..MaxQuantity ELSE {0}
<1>1. CASE sku \notin SkusOf(c)
  BY <1>1 DEF Quantity
<1>2. CASE sku \in SkusOf(c)
  <2>1. PICK T : T = {i \in DOMAIN c.items : c.items[i].sku = sku}
    OBVIOUS
  <2>2. DOMAIN c.items \subseteq Nat
    BY CartFields
  <2>3. T \in SUBSET Nat /\ T # {}
    BY <1>2, <2>1, <2>2 DEF SkusOf
  <2>4. \E x \in T : \A y \in T : x <= y
    BY <2>3, LeastNumber
  <2>5. Min(T) \in T
    BY <2>4 DEF Min
  <2>6. Index(c, sku) \in DOMAIN c.items
    BY <2>1, <2>5 DEF Index
  <2>7. c.items[Index(c, sku)] \in Item
    BY <2>6, CartFields
  <2> QED
    BY <1>2, <2>7, ItemFields DEF Quantity
<1> QED
  BY <1>1, <1>2

(* A line is changed or added.                                             *)
LEMMA WithLine ==
    ASSUME NEW c \in Carts, NEW sku \in CartSkus, NEW quantity \in 1..MaxQuantity,
           sku \in SkusOf(c) \/ Len(c.items) < MaxItems
    PROVE  /\ Like(With(c, sku, quantity), c)
           /\ SkusOf(With(c, sku, quantity)) = SkusOf(c) \cup {sku}
           /\ Len(c.items) <= Len(With(c, sku, quantity).items)
           /\ With(c, sku, quantity).items # <<>>
<1>1. PICK n \in Nat : n = Len(c.items) /\ DOMAIN c.items = 1..n /\ n <= MaxItems
  BY CartFields
<1>2. PICK old \in Seq(Item) : old = c.items /\ Single(old) /\ Len(old) = n /\ DOMAIN old = 1..n
  BY <1>1, CartFields
<1>3. PICK line \in Item : line = [sku |-> sku, quantity |-> quantity] /\ line.sku = sku
  <2>1. PICK line : line = [sku |-> sku, quantity |-> quantity]
    OBVIOUS
  <2>2. line \in Item /\ line.sku = sku
    BY <2>1 DEF Item
  <2> QED
    BY <2>1, <2>2
<1>4. PICK items : items = IF sku \in SkusOf(c)
                           THEN [i \in 1..n |-> IF old[i].sku = sku THEN line ELSE old[i]]
                           ELSE Append(old, line)
  OBVIOUS
<1>5. PICK d : d = With(c, sku, quantity) /\ d = [c EXCEPT !.items = items]
  BY <1>1, <1>2, <1>3, <1>4 DEF With, Carts, Rows
<1>6. CASE sku \in SkusOf(c)
  <2>1. items = [i \in 1..n |-> IF old[i].sku = sku THEN line ELSE old[i]]
    BY <1>4, <1>6
  <2>2. items \in Seq(Item) /\ Len(items) = n /\ DOMAIN items = 1..n
    BY <1>2, <2>1
  <2>3. \A i \in 1..n : items[i].sku = old[i].sku
    BY <1>3, <2>1
  <2>4. Single(items) /\ {items[i].sku : i \in DOMAIN items} = SkusOf(c)
    BY <1>2, <2>2, <2>3 DEF Single, SkusOf
  <2>5. n # 0
    BY <1>1, <1>6 DEF SkusOf
  <2>6. items # <<>>
    BY <2>2, <2>5
  <2>7. Like(d, c) /\ d.items = items
    BY <1>1, <1>2, <1>5, <2>2, <2>4, WithItems
  <2>8. SkusOf(d) = SkusOf(c) \cup {sku}
    <3>1. SkusOf(d) = {items[i].sku : i \in DOMAIN items}
      BY <2>7 DEF SkusOf
    <3> QED
      BY <1>6, <2>4, <3>1
  <2>9. Len(c.items) <= Len(d.items) /\ d.items # <<>>
    BY <1>1, <2>2, <2>6, <2>7
  <2> QED
    BY <1>5, <2>7, <2>8, <2>9
<1>7. CASE sku \notin SkusOf(c)
  <2>1. items = Append(old, line)
    BY <1>4, <1>7
  <2>2. items \in Seq(Item) /\ Len(items) = n + 1 /\ DOMAIN items = 1..(n + 1)
    BY <1>2, <2>1
  <2>3. items[n + 1] = line /\ \A i \in 1..n : items[i] = old[i]
    BY <1>2, <2>1
  <2>4. \A i \in 1..n : old[i].sku # sku
    BY <1>2, <1>7 DEF SkusOf
  <2>5. Single(items)
    <3> SUFFICES ASSUME NEW i \in 1..(n + 1), NEW j \in 1..(n + 1), items[i].sku = items[j].sku
                 PROVE  i = j
      BY <2>2 DEF Single
    <3>1. CASE i = n + 1 /\ j # n + 1
      <4>1. j \in 1..n
        BY <3>1
      <4> QED
        BY <1>3, <2>3, <2>4, <3>1, <4>1
    <3>2. CASE i # n + 1 /\ j = n + 1
      <4>1. i \in 1..n
        BY <3>2
      <4> QED
        BY <1>3, <2>3, <2>4, <3>2, <4>1
    <3>3. CASE i # n + 1 /\ j # n + 1
      <4>1. i \in 1..n /\ j \in 1..n
        BY <3>3
      <4> QED
        BY <1>2, <2>3, <4>1 DEF Single
    <3> QED
      BY <3>1, <3>2, <3>3
  <2>6. {items[i].sku : i \in DOMAIN items} = SkusOf(c) \cup {sku}
    <3>1. DOMAIN items = (1..n) \cup {n + 1}
      BY <2>2
    <3> QED
      BY <1>2, <1>3, <2>3, <3>1 DEF SkusOf
  <2>7. n + 1 <= MaxItems
    BY <1>1, <1>7, CartAssumption
  <2>8. items # <<>>
    BY <2>2
  <2>9. Like(d, c) /\ d.items = items
    BY <1>5, <2>2, <2>5, <2>7, WithItems
  <2>10. SkusOf(d) = SkusOf(c) \cup {sku}
    <3>1. SkusOf(d) = {items[i].sku : i \in DOMAIN items}
      BY <2>9 DEF SkusOf
    <3> QED
      BY <2>6, <3>1
  <2>11. Len(c.items) <= Len(d.items) /\ d.items # <<>>
    BY <1>1, <2>2, <2>8, <2>9
  <2> QED
    BY <1>5, <2>9, <2>10, <2>11
<1> QED
  BY <1>6, <1>7

(* A line of another cart is taken in, unless nothing is in stock of it or *)
(* the cart is full.                                                       *)
TakesIn(d, c, sku, available) ==
    /\ Like(d, c) /\ SkusOf(c) \subseteq SkusOf(d) /\ Len(c.items) <= Len(d.items)
    /\ sku \in SkusOf(d) \/ available = 0 \/ Len(d.items) = MaxItems

LEMMA LeastOf ==
    ASSUME NEW a \in Nat, NEW b \in Nat, NEW c \in Nat
    PROVE  /\ Least({a, b, c}) \in {a, b, c} /\ Least({a, b, c}) \in Nat
           /\ Least({a, b, c}) <= a /\ Least({a, b, c}) <= b /\ Least({a, b, c}) <= c
<1>1. PICK T \in SUBSET Nat : T = {a, b, c}
  OBVIOUS
<1>2. \E x \in T : \A y \in T : x <= y
  BY <1>1, LeastNumber
<1>3. Least(T) \in T /\ \A y \in T : Least(T) <= y
  BY <1>2 DEF Least
<1> QED
  BY <1>1, <1>3

LEMMA AbsorbsLine ==
    ASSUME NEW c \in Carts, NEW item \in Item, NEW available \in Nat
    PROVE  TakesIn(AbsorbItem(c, item, available), c, item.sku, available)
<1>1. PICK sku \in CartSkus : sku = item.sku
  BY ItemFields
<1>2. PICK had \in 0..MaxQuantity : had = Quantity(c, sku) /\ (had > 0 <=> sku \in SkusOf(c))
  BY QuantityType, CartAssumption
<1>3. item.quantity \in Nat \ {0} /\ MaxQuantity \in Nat \ {0} /\ MaxItems \in Nat
  BY ItemFields, CartAssumption
<1>4. PICK sum : sum = Least({had + item.quantity, available, MaxQuantity})
  OBVIOUS
<1>5. /\ sum \in Nat /\ sum <= MaxQuantity
      /\ sum \in {had + item.quantity, available, MaxQuantity}
  <2>1. had + item.quantity \in Nat
    BY <1>3
  <2> QED
    BY <1>3, <1>4, <2>1, LeastOf
<1>6. AbsorbItem(c, item, available) =
         IF had > 0 THEN With(c, sku, IF sum > had THEN sum ELSE had)
         ELSE IF Len(c.items) >= MaxItems \/ sum <= 0 THEN c ELSE With(c, sku, sum)
  BY <1>1, <1>2, <1>4 DEF AbsorbItem
<1>7. Like(c, c) /\ Len(c.items) \in Nat /\ Len(c.items) <= MaxItems
  BY CartFields DEF Like
<1>8. CASE had > 0
  <2>1. PICK q \in 1..MaxQuantity : q = IF sum > had THEN sum ELSE had
    BY <1>3, <1>5, <1>8
  <2>2. PICK d : d = AbsorbItem(c, item, available) /\ d = With(c, sku, q)
    BY <1>6, <1>8, <2>1
  <2>3. /\ Like(d, c) /\ SkusOf(d) = SkusOf(c) \cup {sku}
        /\ Len(c.items) <= Len(d.items)
    BY <1>2, <1>8, <2>2, WithLine
  <2> QED
    BY <1>1, <2>2, <2>3 DEF TakesIn
<1>9. CASE ~ (had > 0) /\ (Len(c.items) >= MaxItems \/ sum <= 0)
  <2>1. AbsorbItem(c, item, available) = c
    BY <1>6, <1>9
  <2>2. sum <= 0 => available = 0
    BY <1>3, <1>5
  <2>3. Len(c.items) >= MaxItems => Len(c.items) = MaxItems
    BY <1>3, <1>7
  <2> QED
    BY <1>1, <1>7, <1>9, <2>1, <2>2, <2>3 DEF TakesIn
<1>10. CASE ~ (had > 0) /\ ~ (Len(c.items) >= MaxItems \/ sum <= 0)
  <2>1. sum \in 1..MaxQuantity /\ Len(c.items) < MaxItems
    BY <1>3, <1>5, <1>7, <1>10
  <2>2. PICK d : d = AbsorbItem(c, item, available) /\ d = With(c, sku, sum)
    BY <1>6, <1>10
  <2>3. /\ Like(d, c) /\ SkusOf(d) = SkusOf(c) \cup {sku}
        /\ Len(c.items) <= Len(d.items)
    BY <2>1, <2>2, WithLine
  <2> QED
    BY <1>1, <2>2, <2>3 DEF TakesIn
<1> QED
  BY <1>8, <1>9, <1>10

(* The lines of another cart, one after the other.                         *)
AbsorbsOn(c, items, available, f) ==
    f = [T \in SUBSET (DOMAIN items) |->
            IF T = {} THEN c
            ELSE AbsorbItem(f[T \ {Max(T)}], items[Max(T)], available[items[Max(T)].sku])]

LEMMA AbsorbForm ==
    ASSUME NEW c, NEW items, NEW available
    PROVE  AbsorbItems(c, items, available) = (CHOOSE f : AbsorbsOn(c, items, available, f))[DOMAIN items]
BY DEF AbsorbItems, FoldLeft, MapThenFoldSet, AbsorbsOn

Absorbed(c, items, available, n, v) ==
    /\ v \in [0..n -> Carts] /\ v[0] = c
    /\ v[n] = AbsorbItems(c, items, available)
    /\ \A k \in 1..n : v[k] = AbsorbItem(v[k - 1], items[k], available[items[k].sku])

LEMMA AbsorbRuns ==
    ASSUME NEW c \in Carts, NEW items \in Seq(Item),
           NEW available \in [CartSkus -> Nat]
    PROVE  \E v : Absorbed(c, items, available, Len(items), v)
<1>1. PICK n \in Nat : n = Len(items) /\ DOMAIN items = 1..n /\ \A k \in 1..n : items[k] \in Item
  OBVIOUS
<1>2. PICK step : step = [k \in 1..n |->
                      [d \in Carts |-> AbsorbItem(d, items[k], available[items[k].sku])]]
  OBVIOUS
<1>3. \A k \in 1..n : available[items[k].sku] \in Nat
  BY <1>1, ItemFields
<1>4. StepsIn(Carts, step, n)
  <2> SUFFICES ASSUME NEW k \in 1..n, NEW d \in Carts PROVE step[k][d] \in Carts
    BY DEF StepsIn
  <2>1. TakesIn(AbsorbItem(d, items[k], available[items[k].sku]), d, items[k].sku,
                available[items[k].sku])
    BY <1>1, <1>3, AbsorbsLine
  <2> QED
    BY <1>2, <2>1 DEF TakesIn, Like
<1>5. \E f : AbsorbsOn(c, items, available, f)
  <2>1. PICK f : LeftFold(Carts, c, step, n, f)
    BY <1>4, LeftFoldsExist
  <2>2. f = [T \in SUBSET (1..n) |-> f[T]]
    BY <2>1 DEF LeftFold
  <2>3. ASSUME NEW T \in SUBSET (1..n)
        PROVE  f[T] = IF T = {} THEN c
                      ELSE AbsorbItem(f[T \ {Max(T)}], items[Max(T)],
                                      available[items[Max(T)].sku])
    BY <1>2, <2>1, MaxIsGreatest DEF LeftFold
  <2> QED
    BY <1>1, <2>2, <2>3 DEF AbsorbsOn
<1>6. PICK f : /\ f = (CHOOSE g : AbsorbsOn(c, items, available, g))
               /\ AbsorbsOn(c, items, available, f)
  BY <1>5
<1>7. AbsorbItems(c, items, available) = f[1..n]
  BY <1>1, <1>6, AbsorbForm
<1>8. f[{}] = c
  BY <1>6 DEF AbsorbsOn
<1>9. ASSUME NEW T \in SUBSET (1..n), T # {}
      PROVE  ValueOf(Carts, step, T, f)
  <2>1. f[T] = AbsorbItem(f[T \ {Max(T)}], items[Max(T)], available[items[Max(T)].sku])
    BY <1>1, <1>6, <1>9 DEF AbsorbsOn
  <2>2. Greatest(T) \in 1..n
    BY <1>9, GreatestIsMember
  <2> QED
    BY <1>2, <2>1, <2>2, MaxIsGreatest DEF ValueOf
<1>10. PICK v : Leads(Carts, c, step, n, v, f[1..n])
  BY <1>4, <1>8, <1>9, LeftFoldRuns
<1>11. \A k \in 1..n : v[k] = AbsorbItem(v[k - 1], items[k], available[items[k].sku])
  <2> SUFFICES ASSUME NEW k \in 1..n
               PROVE  v[k] = AbsorbItem(v[k - 1], items[k], available[items[k].sku])
    OBVIOUS
  <2>1. v[k - 1] \in Carts
    BY <1>10 DEF Leads
  <2> QED
    BY <1>2, <1>10, <2>1 DEF Leads
<1> QED
  BY <1>1, <1>7, <1>10, <1>11 DEF Absorbed, Leads

(* Nothing of the first cart goes, and of the second only what a limit     *)
(* keeps out.                                                              *)
TakesAllIn(d, c, items, k, available) ==
    /\ Like(d, c) /\ SkusOf(c) \subseteq SkusOf(d)
    /\ \A i \in 1..k : \/ items[i].sku \in SkusOf(d)
                       \/ available[items[i].sku] = 0
                       \/ Len(d.items) = MaxItems

LEMMA AbsorbsLines ==
    ASSUME NEW c \in Carts, NEW items \in Seq(Item),
           NEW available \in [CartSkus -> Nat]
    PROVE  TakesAllIn(AbsorbItems(c, items, available), c, items, Len(items), available)
<1>1. PICK n \in Nat : n = Len(items) /\ \A k \in 1..n : items[k] \in Item
  OBVIOUS
<1>2. PICK v : Absorbed(c, items, available, n, v)
  BY <1>1, AbsorbRuns
<1>3. /\ v \in [0..n -> Carts] /\ v[0] = c
      /\ \A k \in 1..n : v[k] = AbsorbItem(v[k - 1], items[k], available[items[k].sku])
  BY <1>2 DEF Absorbed
<1> DEFINE Q == {k \in 0..n : TakesAllIn(v[k], c, items, k, available)}
<1>4. 0 \in Q
  <2>1. TakesAllIn(c, c, items, 0, available)
    BY DEF TakesAllIn, Like
  <2> QED
    BY <1>3, <2>1
<1>5. ASSUME NEW k \in 1..n, k - 1 \in Q
      PROVE  k \in Q
  <2>1. PICK w \in Carts : w = v[k - 1]
    BY <1>3
  <2>2. PICK d : d = v[k]
    OBVIOUS
  <2>3. PICK i \in Item : i = items[k] /\ i.sku \in CartSkus
    BY <1>1, ItemFields
  <2>4. TakesAllIn(w, c, items, k - 1, available)
    BY <1>5, <2>1
  <2>5. TakesIn(d, w, i.sku, available[i.sku])
    BY <1>3, <2>1, <2>2, <2>3, AbsorbsLine
  <2>6. /\ Like(d, c) /\ SkusOf(c) \subseteq SkusOf(d)
        /\ Len(w.items) = MaxItems => Len(d.items) = MaxItems
    <3>1. Like(d, c) /\ SkusOf(c) \subseteq SkusOf(d)
      BY <2>4, <2>5 DEF TakesIn, TakesAllIn, Like
    <3>2. d \in Carts /\ Len(w.items) <= Len(d.items)
      BY <2>5 DEF TakesIn, Like
    <3>3. Len(d.items) <= MaxItems /\ Len(d.items) \in Nat /\ MaxItems \in Nat
      BY <3>2, CartFields, CartAssumption
    <3> QED
      BY <3>1, <3>2, <3>3
  <2>7. ASSUME NEW j \in 1..k
        PROVE  \/ items[j].sku \in SkusOf(d)
               \/ available[items[j].sku] = 0
               \/ Len(d.items) = MaxItems
    <3>1. CASE j = k
      BY <2>3, <2>5, <3>1 DEF TakesIn
    <3>2. CASE j # k
      <4>1. j \in 1..(k - 1)
        BY <3>2
      <4> QED
        BY <2>4, <2>5, <2>6, <4>1 DEF TakesIn, TakesAllIn
    <3> QED
      BY <3>1, <3>2
  <2>8. TakesAllIn(d, c, items, k, available)
    BY <2>6, <2>7 DEF TakesAllIn
  <2>9. k \in 0..n
    BY <1>1
  <2> QED
    BY <2>2, <2>8, <2>9
<1>6. \A k \in 0..n : k \in Q
  <2> HIDE DEF Q
  <2> QED
    BY <1>4, <1>5, NumberInduction
<1>7. n \in Q
  BY <1>6
<1>8. v[n] = AbsorbItems(c, items, available)
  BY <1>2 DEF Absorbed
<1> QED
  BY <1>1, <1>7, <1>8

-----------------------------------------------------------------------------
(* What the methods of the aggregate make of a cart.                       *)

(* The items that are left when those of some SKUs go.                     *)
LEMMA WithoutSkus ==
    ASSUME NEW c \in Carts, NEW skus, NEW d, d = Without(c, skus)
    PROVE  Like(d, c) /\ SkusOf(c) \ SkusOf(d) \subseteq skus
<1>1. PICK n \in Nat : n = Len(c.items)
  BY CartFields
<1>2. PICK old \in Seq(Item) : old = c.items /\ DOMAIN old = 1..n /\ Single(old) /\ n <= MaxItems
  BY <1>1, CartFields
<1>3. PICK kept : kept = {i \in Range(old) : i.sku \notin skus}
  OBVIOUS
<1>4. PICK items : items = Keep(old, kept)
  OBVIOUS
<1>5. d = [c EXCEPT !.items = items]
  BY <1>2, <1>3, <1>4 DEF Without, Carts, Rows
<1>6. items \in Seq(Item) /\ \E m : Picks(old, kept, n, items, m)
  BY <1>1, <1>2, <1>4, KeepPicks
<1>7. PICK m : Picks(old, kept, n, items, m)
  BY <1>6
<1>8. PICK l \in Nat : l = Len(items) /\ DOMAIN items = 1..l
  BY <1>6
<1>9. /\ m \in [1..l -> 1..n] /\ l <= n
      /\ \A i, j \in 1..l : i < j => m[i] < m[j]
      /\ \A i \in 1..l : items[i] = old[m[i]]
      /\ \A i \in 1..n : old[i] \in kept => \E j \in 1..l : m[j] = i
  BY <1>7, <1>8 DEF Picks
<1>10. Single(items)
  <2> SUFFICES ASSUME NEW i \in 1..l, NEW j \in 1..l, items[i].sku = items[j].sku
               PROVE  i = j
    BY <1>8 DEF Single
  <2>1. m[i] \in 1..n /\ m[j] \in 1..n /\ old[m[i]].sku = old[m[j]].sku
    BY <1>9
  <2>2. m[i] = m[j]
    BY <1>2, <2>1 DEF Single
  <2>3. ~ (i < j) /\ ~ (j < i)
    BY <1>9, <2>1, <2>2
  <2> QED
    BY <2>3
<1>11. Len(items) <= MaxItems
  BY <1>1, <1>2, <1>8, <1>9, CartAssumption
<1>12. Like(d, c) /\ d.items = items
  BY <1>5, <1>6, <1>10, <1>11, WithItems
<1>13. ASSUME NEW sku \in SkusOf(c), sku \notin skus
       PROVE  sku \in SkusOf(d)
  <2>1. PICK i \in 1..n : old[i].sku = sku
    BY <1>2, <1>13 DEF SkusOf
  <2>2. old[i] \in kept
    BY <1>2, <1>3, <1>13, <2>1 DEF Range
  <2>3. PICK j \in 1..l : items[j] = old[i]
    BY <1>9, <2>2
  <2> QED
    BY <1>8, <1>12, <2>1, <2>3 DEF SkusOf
<1> QED
  BY <1>12, <1>13

(* The same cart with another currency or another promo code.              *)
Owns(d, c) ==
    /\ d \in Carts /\ d.id = c.id /\ d.version = c.version

LEMMA WithCurrency ==
    ASSUME NEW c \in Carts, NEW currency \in Currencies, NEW d,
           d = [c EXCEPT !.currency = currency]
    PROVE  Owns(d, c) /\ d.items = c.items /\ d.promo = c.promo
<1>1. /\ d \in Rows /\ d.items = c.items /\ d.id = c.id /\ d.version = c.version
      /\ d.promo = c.promo
  BY DEF Carts, Rows
<1> QED
  BY <1>1 DEF Carts, Owns

LEMMA PromoChanged ==
    ASSUME NEW c \in Carts, NEW promo \in Codes \cup {Nil}, NEW d,
           d = [c EXCEPT !.promo = promo]
    PROVE  Owns(d, c) /\ d.items = c.items
<1>1. /\ d \in Rows /\ d.items = c.items /\ d.id = c.id /\ d.version = c.version
  BY DEF Carts, Rows
<1> QED
  BY <1>1 DEF Carts, Owns

LEMMA SameSkus ==
    ASSUME NEW c, NEW d, c.items = d.items
    PROVE  SkusOf(c) = SkusOf(d)
BY DEF SkusOf

LEMMA Adds ==
    ASSUME NEW c \in Carts, NEW sku \in CartSkus, NEW quantity \in Nat,
           NEW available \in Nat, NEW d, d = Add(c, sku, quantity, available), d # Nil
    PROVE  Owns(d, c) /\ SkusOf(c) \subseteq SkusOf(d)
<1>1. /\ sku \in SkusOf(c) \/ Len(c.items) < MaxItems
      /\ CheckQuantity(quantity, Quantity(c, sku) + quantity, available)
      /\ d = [With(c, sku, Quantity(c, sku) + quantity) EXCEPT !.currency = Currency[sku]]
  BY DEF Add
<1>2. PICK q \in 1..MaxQuantity : q = Quantity(c, sku) + quantity
  BY <1>1, QuantityType, CartAssumption DEF CheckQuantity
<1>3. PICK w : w = With(c, sku, q)
  OBVIOUS
<1>4. Like(w, c) /\ SkusOf(c) \subseteq SkusOf(w)
  BY <1>1, <1>3, WithLine
<1>5. w \in Carts /\ Currency[sku] \in Currencies /\ d = [w EXCEPT !.currency = Currency[sku]]
  BY <1>1, <1>2, <1>3, <1>4 DEF Like, Currencies
<1>6. Owns(d, w) /\ d.items = w.items
  BY <1>5, WithCurrency
<1> QED
  BY <1>4, <1>6, SameSkus DEF Owns, Like

LEMMA SetsQuantity ==
    ASSUME NEW c \in Carts, NEW sku \in CartSkus, NEW quantity \in Nat,
           NEW available \in Nat, NEW d, d = SetQuantity(c, sku, quantity, available), d # Nil
    PROVE  Owns(d, c) /\ SkusOf(c) \subseteq SkusOf(d)
<1>1. /\ sku \in SkusOf(c) /\ CheckQuantity(quantity, quantity, available)
      /\ d = With(c, sku, quantity)
  BY DEF SetQuantity
<1>2. quantity \in 1..MaxQuantity
  BY <1>1, CartAssumption DEF CheckQuantity
<1>3. Like(d, c) /\ SkusOf(c) \subseteq SkusOf(d)
  BY <1>1, <1>2, WithLine
<1> QED
  BY <1>3 DEF Like, Owns

LEMMA Merges ==
    ASSUME NEW c \in Carts, NEW other \in Carts,
           NEW available \in [CartSkus -> Nat], NEW d, d = Absorb(c, other, available)
    PROVE  /\ Owns(d, c) /\ SkusOf(c) \subseteq SkusOf(d)
           /\ \A sku \in SkusOf(other) :
                 \/ sku \in SkusOf(d)
                 \/ c.items # <<>> /\ c.currency # other.currency
                 \/ available[sku] = 0
                 \/ Len(d.items) = MaxItems
<1>1. PICK a : a = IF c.items # <<>> /\ c.currency # other.currency THEN c
                   ELSE AbsorbItems(c, other.items, available)
  OBVIOUS
<1>2. PICK p : p = IF (c.items = <<>> \/ c.currency = other.currency) /\ c.currency = ""
                   THEN [a EXCEPT !.currency = other.currency] ELSE a
  OBVIOUS
<1>3. PICK promo : promo = IF p.promo = Nil THEN other.promo ELSE p.promo
  OBVIOUS
<1>4. PICK items \in Seq(Item) : items = other.items /\ DOMAIN items = 1..Len(items)
  BY CartFields
<1>5. TakesAllIn(AbsorbItems(c, items, available), c, items, Len(items), available)
  BY AbsorbsLines
<1>6. Like(a, c) /\ SkusOf(c) \subseteq SkusOf(a)
  BY <1>1, <1>4, <1>5 DEF TakesAllIn, Like
<1>7. ASSUME NEW sku \in SkusOf(other), ~ (c.items # <<>> /\ c.currency # other.currency)
      PROVE  sku \in SkusOf(a) \/ available[sku] = 0 \/ Len(a.items) = MaxItems
  <2>1. a = AbsorbItems(c, items, available)
    BY <1>1, <1>4, <1>7
  <2>2. PICK i \in 1..Len(items) : items[i].sku = sku
    BY <1>4, <1>7 DEF SkusOf
  <2> QED
    BY <1>5, <2>1, <2>2 DEF TakesAllIn
<1>8. a \in Carts /\ other.currency \in Currencies /\ other.promo \in Codes \cup {Nil}
  BY <1>6, CartFields DEF Like
<1>9. Owns(p, a) /\ p.items = a.items
  <2>1. CASE p = a
    BY <1>8, <2>1 DEF Owns
  <2>2. CASE p = [a EXCEPT !.currency = other.currency]
    BY <1>8, <2>2, WithCurrency
  <2> QED
    BY <1>2, <2>1, <2>2
<1>10. p \in Carts /\ p.promo \in Codes \cup {Nil}
  BY <1>9, CartFields DEF Owns
<1>11. promo \in Codes \cup {Nil}
  BY <1>3, <1>8, <1>10
<1>12. d = [p EXCEPT !.promo = promo]
  <2>1. d = [p EXCEPT !.promo = IF @ = Nil THEN other.promo ELSE @]
    BY <1>1, <1>2 DEF Absorb
  <2> QED
    BY <1>3, <1>10, <2>1 DEF Carts, Rows
<1>13. Owns(d, p) /\ d.items = p.items
  BY <1>10, <1>11, <1>12, PromoChanged
<1>14. Owns(d, c) /\ d.items = a.items /\ SkusOf(d) = SkusOf(a)
  BY <1>6, <1>9, <1>13, SameSkus DEF Owns, Like
<1> QED
  BY <1>6, <1>7, <1>14

-----------------------------------------------------------------------------
(* What a command has read: a cart that is still there, or has gone on, or *)
(* one that is no more.                                                    *)
Seen(o, row) ==
    \/ row = NoCart
    \/ /\ row.id \in 1..lastId /\ row.version \in 1..MaxCartVersion + 1
       /\ cart[o].id = row.id =>
             /\ row.version <= cart[o].version
             /\ row.version = cart[o].version => cart[o] = row

Commands == [at : {"idle", "ask", "find", "device", "target", "stock", "save"},
             op : {"none"} \cup Ops, owner : Owners \cup {Nil}, device : Devices \cup {Nil},
             skus : SUBSET CartSkus, quantity : Nat, stock : [CartSkus -> Nat], row : Carts,
             other : Carts]

CartsTyped ==
    /\ cart \in [Owners -> Carts] /\ lastId \in 0..MaxCarts
    /\ purgeable \subseteq {d \in Devices : cart[d] # NoCart}
    /\ request \in [CartRequests -> Commands]

(* A cart that exists has an identifier that has been given to it.         *)
CartsKnown ==
    \A o \in Owners :
       cart[o] = NoCart \/ (cart[o].id \in 1..lastId /\ cart[o].version \in 1..MaxCartVersion + 1)

(* What a command has found out when it has come to a step.                *)
Commanded(c) ==
    /\ c.at # "idle" => c.owner \in Owners /\ c.op \in Ops
    /\ c.op \in {"add", "update", "remove"} => c.skus # {}
    /\ c.op = "merge" => c.owner = User /\ c.device \in Devices
    /\ c.at \in {"ask", "find"} => c.op # "merge"
    /\ c.at \in {"device", "target", "stock"} => c.op = "merge"

RowsSeen(c) ==
    /\ c.at \in {"stock", "save"} => Seen(c.owner, c.row) /\ c.row.version <= MaxCartVersion
    /\ (c.op = "merge" /\ c.at \in {"target", "stock", "save"}) =>
          c.other # NoCart /\ Seen(c.device, c.other)

CInv ==
    /\ CartsTyped /\ CartsKnown
    /\ \A r \in CartRequests : Commanded(request[r]) /\ RowsSeen(request[r])

LEMMA NoCartIsCart == NoCart \in Carts
<1>1. PICK c : c = NoCart
  OBVIOUS
<1>2. c.items = <<>> /\ c.items \in Seq(Item)
  <2>1. <<>> \in Seq(Item)
    OBVIOUS
  <2>2. c.items = <<>>
    BY <1>1 DEF NoCart
  <2> QED
    BY <2>1, <2>2
<1>3. c \in Rows
  BY <1>1, <1>2 DEF NoCart, Rows, Currencies
<1>4. Len(c.items) <= MaxItems /\ Single(c.items)
  BY <1>2, CartAssumption DEF Single
<1> QED
  BY <1>1, <1>3, <1>4 DEF Carts

LEMMA NoCommandIsCommand == NoCommand \in Commands
<1>1. NoCart \in Carts
  BY NoCartIsCart
<1>2. [s \in CartSkus |-> 0] \in [CartSkus -> Nat]
  OBVIOUS
<1> QED
  BY <1>1, <1>2 DEF NoCommand, Commands

LEMMA CommandFields ==
    ASSUME NEW c \in Commands
    PROVE  /\ c.at \in {"idle", "ask", "find", "device", "target", "stock", "save"}
           /\ c.op \in {"none"} \cup Ops /\ c.owner \in Owners \cup {Nil}
           /\ c.device \in Devices \cup {Nil} /\ c.skus \in SUBSET CartSkus
           /\ c.quantity \in Nat /\ c.stock \in [CartSkus -> Nat]
           /\ c.row \in Carts /\ c.other \in Carts
BY DEF Commands

LEMMA CartInitially ==
    ASSUME CartInit
    PROVE  CInv
<1>1. NoCart \in Carts /\ NoCommand \in Commands
  BY NoCartIsCart, NoCommandIsCommand
<1>2. CartsTyped
  BY <1>1, CartAssumption DEF CartInit, CartsTyped
<1>3. CartsKnown
  BY DEF CartInit, CartsKnown
<1>4. NoCommand.at = "idle" /\ NoCommand.op = "none"
  BY DEF NoCommand
<1>5. Commanded(NoCommand) /\ RowsSeen(NoCommand)
  BY <1>4 DEF Commanded, RowsSeen
<1> QED
  BY <1>2, <1>3, <1>5 DEF CartInit, CInv

(* How the cart of an owner may change: it is saved, created or deleted.   *)
Moves(o) ==
    /\ lastId' \in Nat /\ lastId <= lastId'
    /\ \/ cart'[o] = cart[o] \/ cart'[o] = NoCart
       \/ cart'[o].id = cart[o].id /\ cart'[o].version = cart[o].version + 1
       \/ cart'[o].id = lastId + 1

LEMMA StaysSeen ==
    ASSUME CartsTyped, NEW o \in Owners, NEW row \in Carts, Seen(o, row),
           Moves(o)
    PROVE  Seen(o, row)'
<1>1. lastId \in Nat /\ lastId' \in Nat /\ lastId <= lastId'
  BY DEF Moves, CartsTyped
<1>2. cart[o].version \in Nat /\ cart[o].id \in Nat /\ row.id \in Nat /\ row.version \in Nat
  BY CartFields DEF CartsTyped
<1>3. CASE row = NoCart
  BY <1>3 DEF Seen
<1>4. CASE row # NoCart
  <2>1. /\ row.id \in 1..lastId /\ row.version \in 1..MaxCartVersion + 1
        /\ cart[o].id = row.id =>
             /\ row.version <= cart[o].version
             /\ row.version = cart[o].version => cart[o] = row
    BY <1>4 DEF Seen
  <2>2. row.id \in 1..lastId'
    BY <1>1, <2>1
  <2>3. cart'[o].id = row.id =>
             /\ row.version <= cart'[o].version
             /\ row.version = cart'[o].version => cart'[o] = row
    <3>1. CASE cart'[o] = cart[o]
      BY <2>1, <3>1
    <3>2. CASE cart'[o] = NoCart
      <4>1. NoCart.id = 0
        BY DEF NoCart
      <4>2. row.id # 0
        BY <1>1, <2>1
      <4> QED
        BY <3>2, <4>1, <4>2
    <3>3. CASE cart'[o].id = cart[o].id /\ cart'[o].version = cart[o].version + 1
      BY <1>2, <2>1, <3>3
    <3>4. CASE cart'[o].id = lastId + 1
      BY <1>1, <2>1, <3>4
    <3> QED
      BY <3>1, <3>2, <3>3, <3>4 DEF Moves
  <2> QED
    BY <2>1, <2>2, <2>3 DEF Seen
<1> QED
  BY <1>3, <1>4

(* The other commands keep what they know when the carts move.             *)
LEMMA CommandsStay ==
    ASSUME CInv, \A o \in Owners : Moves(o),
           NEW r \in CartRequests, request'[r] = request[r]
    PROVE  Commanded(request'[r]) /\ RowsSeen(request[r])'
<1>1. PICK c \in Commands : c = request[r]
  BY DEF CInv, CartsTyped
<1>2. Commanded(c) /\ RowsSeen(c) /\ CartsTyped
  BY <1>1 DEF CInv
<1>3. c.row \in Carts /\ c.other \in Carts
  BY CommandFields
<1>4. c.at \in {"stock", "save"} => Seen(c.owner, c.row)' /\ c.row.version <= MaxCartVersion
  BY <1>2, <1>3, StaysSeen DEF Commanded, RowsSeen
<1>5. (c.op = "merge" /\ c.at \in {"target", "stock", "save"}) =>
          c.other # NoCart /\ Seen(c.device, c.other)'
  BY <1>2, <1>3, StaysSeen DEF Commanded, RowsSeen, Owners
<1>6. RowsSeen(c)'
  BY <1>4, <1>5 DEF RowsSeen
<1> QED
  BY <1>1, <1>2, <1>6

-----------------------------------------------------------------------------
(* The steps.  One that only reads leaves the carts as they are.           *)
LEMMA Advances ==
    ASSUME CInv, NEW r \in CartRequests, NEW c \in Commands, MoveOn(r, c),
           UNCHANGED <<cart, lastId, purgeable>>, Commanded(c), RowsSeen(c)
    PROVE  CInv'
<1>1. request \in [CartRequests -> Commands]
  BY DEF CInv, CartsTyped
<1>2. request' = [request EXCEPT ![r] = c]
  BY DEF MoveOn
<1>3. CartsTyped' /\ CartsKnown'
  BY <1>1, <1>2 DEF CInv, CartsTyped, CartsKnown
<1>4. \A o \in Owners : Moves(o)
  BY CartAssumption DEF CInv, CartsTyped, Moves
<1>5. RowsSeen(c)'
  BY DEF RowsSeen, Seen
<1>6. ASSUME NEW s \in CartRequests
      PROVE  Commanded(request'[s]) /\ RowsSeen(request[s])'
  <2>1. CASE s = r
    <3>1. request'[s] = c
      BY <1>1, <1>2, <2>1
    <3> QED
      BY <1>5, <3>1
  <2>2. CASE s # r
    <3>1. request'[s] = request[s]
      BY <1>1, <1>2, <2>2
    <3> QED
      BY <1>4, <3>1, CommandsStay
  <2> QED
    BY <2>1, <2>2
<1> QED
  BY <1>3, <1>6 DEF CInv

(* The others end the command.                                             *)
LEMMA Ends ==
    ASSUME CInv, NEW r \in CartRequests, EndRequest(r),
           \A o \in Owners : Moves(o),
           cart' \in [Owners -> Carts], lastId' \in 0..MaxCarts,
           purgeable' \subseteq {d \in Devices : cart'[d] # NoCart}, CartsKnown'
    PROVE  CInv'
<1>1. request \in [CartRequests -> Commands] /\ NoCommand \in Commands
  BY NoCommandIsCommand DEF CInv, CartsTyped
<1>2. request' = [request EXCEPT ![r] = NoCommand]
  BY DEF EndRequest, MoveOn
<1>3. CartsTyped'
  BY <1>1, <1>2 DEF CartsTyped
<1>4. ASSUME NEW s \in CartRequests
      PROVE  Commanded(request'[s]) /\ RowsSeen(request[s])'
  <2>1. CASE s = r
    <3>1. request'[s] = NoCommand
      BY <1>1, <1>2, <2>1
    <3>2. NoCommand.at = "idle" /\ NoCommand.op = "none"
      BY DEF NoCommand
    <3>3. Commanded(request'[s])
      BY <3>1, <3>2 DEF Commanded
    <3>4. RowsSeen(request[s])'
      BY <3>1, <3>2 DEF RowsSeen
    <3> QED
      BY <3>3, <3>4
  <2>2. CASE s # r
    <3>1. request'[s] = request[s]
      BY <1>1, <1>2, <2>2
    <3> QED
      BY <3>1, CommandsStay
  <2> QED
    BY <2>1, <2>2
<1> QED
  BY <1>3, <1>4 DEF CInv

(* A command begins.                                                       *)
LEMMA BeginsOne ==
    ASSUME CInv, NEW r \in CartRequests,
           NEW c \in Commands, BeginRequest(r, c), Commanded(c), c.at \in {"ask", "find", "device"}
    PROVE  CInv'
<1>1. RowsSeen(c)
  BY DEF RowsSeen
<1> QED
  BY <1>1, Advances DEF BeginRequest

LEMMA BeginSteps ==
    ASSUME CInv, NEW r \in CartRequests,
           BeginChange(r) \/ BeginPromo(r) \/ BeginMerge(r) \/ BeginRemoveOrdered(r)
    PROVE  CInv'
<1>1. NoCommand \in Commands /\ User \in Owners /\ Devices \subseteq Owners
  BY NoCommandIsCommand DEF Owners
<1>2. ASSUME NEW o \in Owners, NEW s \in CartSkus, NEW n \in Quantities,
             NEW op \in {"add", "update"},
             BeginRequest(r, [NoCommand EXCEPT !.at = "ask", !.op = op, !.owner = o, !.skus = {s},
                                    !.quantity = n])
      PROVE  CInv'
  <2>1. PICK c : c = [NoCommand EXCEPT !.at = "ask", !.op = op, !.owner = o, !.skus = {s},
                                   !.quantity = n]
    OBVIOUS
  <2>2. n \in Nat
    BY CartAssumption
  <2>3. c \in Commands /\ c.at = "ask" /\ c.op = op /\ c.owner = o /\ c.skus = {s}
    BY <1>1, <2>1, <2>2 DEF Commands, Ops
  <2>4. Commanded(c)
    BY <2>3 DEF Commanded, Ops
  <2> QED
    BY <1>2, <2>1, <2>3, <2>4, BeginsOne
<1>3. ASSUME NEW o \in Owners, NEW s \in CartSkus,
             BeginRequest(r, [NoCommand EXCEPT !.at = "find", !.op = "remove", !.owner = o, !.skus = {s}])
      PROVE  CInv'
  <2>1. PICK c : c = [NoCommand EXCEPT !.at = "find", !.op = "remove", !.owner = o, !.skus = {s}]
    OBVIOUS
  <2>2. c \in Commands /\ c.at = "find" /\ c.op = "remove" /\ c.owner = o /\ c.skus = {s}
    BY <1>1, <2>1 DEF Commands, Ops
  <2>3. Commanded(c)
    BY <2>2 DEF Commanded, Ops
  <2> QED
    BY <1>3, <2>1, <2>2, <2>3, BeginsOne
<1>4. ASSUME NEW o \in Owners, NEW op \in {"apply_promo", "remove_promo"},
             BeginRequest(r, [NoCommand EXCEPT !.at = "find", !.op = op, !.owner = o])
      PROVE  CInv'
  <2>1. PICK c : c = [NoCommand EXCEPT !.at = "find", !.op = op, !.owner = o]
    OBVIOUS
  <2>2. c \in Commands /\ c.at = "find" /\ c.op = op /\ c.owner = o
    BY <1>1, <2>1 DEF Commands, Ops
  <2>3. Commanded(c)
    BY <2>2 DEF Commanded, Ops
  <2> QED
    BY <1>4, <2>1, <2>2, <2>3, BeginsOne
<1>5. ASSUME NEW d \in Devices,
             BeginRequest(r, [NoCommand EXCEPT !.at = "device", !.op = "merge", !.owner = User,
                                    !.device = d])
      PROVE  CInv'
  <2>1. PICK c : c = [NoCommand EXCEPT !.at = "device", !.op = "merge", !.owner = User,
                                   !.device = d]
    OBVIOUS
  <2>2. /\ c \in Commands /\ c.at = "device" /\ c.op = "merge" /\ c.owner = User
        /\ c.device = d
    BY <1>1, <2>1 DEF Commands, Ops
  <2>3. Commanded(c)
    BY <1>1, <2>2 DEF Commanded, Ops
  <2> QED
    BY <1>5, <2>1, <2>2, <2>3, BeginsOne
<1>6. CASE BeginRemoveOrdered(r)
  <2>1. PICK skus \in SUBSET CartSkus : skus = SkusOf(cart[User])
    <3>1. cart[User] \in Carts
      BY <1>1 DEF CInv, CartsTyped
    <3> QED
      BY <3>1, SkusOfSkus
  <2>2. PICK c : c = [NoCommand EXCEPT !.at = "find", !.op = "ordered", !.owner = User,
                                   !.skus = skus]
    OBVIOUS
  <2>3. c \in Commands /\ c.at = "find" /\ c.op = "ordered" /\ c.owner = User
    BY <1>1, <2>2 DEF Commands, Ops
  <2>4. Commanded(c)
    BY <1>1, <2>3 DEF Commanded, Ops
  <2>5. BeginRequest(r, c)
    BY <1>6, <2>1, <2>2 DEF BeginRemoveOrdered
  <2> QED
    BY <2>3, <2>4, <2>5, BeginsOne
<1>7. CASE BeginChange(r)
  BY <1>2, <1>3, <1>7 DEF BeginChange
<1>8. CASE BeginPromo(r)
  BY <1>4, <1>8 DEF BeginPromo
<1>9. CASE BeginMerge(r)
  BY <1>5, <1>9 DEF BeginMerge
<1> QED
  BY <1>6, <1>7, <1>8, <1>9

(* What is read is what is there.                                          *)
LEMMA SeesCart ==
    ASSUME CInv, NEW o \in Owners
    PROVE  Seen(o, cart[o]) /\ cart[o] \in Carts
<1>1. cart[o] \in Carts /\ cart[o].version \in Nat
  BY CartFields DEF CInv, CartsTyped
<1> QED
  BY <1>1 DEF CInv, CartsKnown, Seen

LEMMA ReadSteps ==
    ASSUME CInv, NEW r \in CartRequests,
           AskOffer(r) \/ Find(r) \/ FindDevice(r) \/ FindTarget(r) \/ AskStock(r)
    PROVE  CInv'
<1>1. PICK c \in Commands : c = request[r]
  BY DEF CInv, CartsTyped
<1>2. Commanded(c) /\ RowsSeen(c)
  BY <1>1 DEF CInv
<1>3. CASE AskOffer(r)
  <2>1. PICK n \in Stocks : MoveOn(r, [c EXCEPT !.at = "find", !.stock = [s \in CartSkus |-> n]])
    BY <1>1, <1>3 DEF AskOffer
  <2>2. PICK d : d = [c EXCEPT !.at = "find", !.stock = [s \in CartSkus |-> n]]
    OBVIOUS
  <2>3. n \in Nat
    BY CartAssumption
  <2>4. /\ d \in Commands /\ d.at = "find" /\ d.op = c.op /\ d.owner = c.owner
        /\ d.device = c.device /\ d.skus = c.skus
    BY <2>2, <2>3 DEF Commands
  <2>5. c.at = "ask"
    BY <1>1, <1>3 DEF AskOffer
  <2>6. Commanded(d) /\ RowsSeen(d)
    BY <1>2, <2>4, <2>5 DEF Commanded, RowsSeen
  <2> QED
    BY <1>3, <2>1, <2>2, <2>4, <2>6, Advances DEF AskOffer
<1>4. CASE Find(r)
  <2>1. PICK o \in Owners : o = c.owner
    BY <1>1, <1>2, <1>4 DEF Find, Commanded
  <2>2. PICK d : d = [c EXCEPT !.at = "save", !.row = cart[o]]
    OBVIOUS
  <2>3. c.at = "find" /\ cart[o].version <= MaxCartVersion /\ MoveOn(r, d)
    BY <1>1, <1>4, <2>1, <2>2 DEF Find
  <2>4. Seen(o, cart[o]) /\ cart[o] \in Carts
    BY SeesCart
  <2>5. /\ d \in Commands /\ d.at = "save" /\ d.op = c.op /\ d.owner = o
        /\ d.device = c.device /\ d.skus = c.skus /\ d.row = cart[o]
    BY <2>1, <2>2, <2>4 DEF Commands
  <2>6. Commanded(d) /\ RowsSeen(d)
    BY <1>2, <2>1, <2>3, <2>4, <2>5 DEF Commanded, RowsSeen
  <2> QED
    BY <1>4, <2>3, <2>5, <2>6, Advances DEF Find
<1>5. CASE FindDevice(r)
  <2>1. c.at = "device" /\ c.op = "merge" /\ c.device \in Devices
    BY <1>1, <1>2, <1>5 DEF FindDevice, Commanded
  <2>2. PICK o \in Owners : o = c.device
    BY <2>1 DEF Owners
  <2>3. PICK d : d = [c EXCEPT !.at = "target", !.other = cart[o]]
    OBVIOUS
  <2>4. cart[o] # NoCart /\ MoveOn(r, d)
    BY <1>1, <1>5, <2>2, <2>3 DEF FindDevice
  <2>5. Seen(o, cart[o]) /\ cart[o] \in Carts
    BY SeesCart
  <2>6. /\ d \in Commands /\ d.at = "target" /\ d.op = c.op /\ d.owner = c.owner
        /\ d.device = o /\ d.skus = c.skus /\ d.other = cart[o]
    BY <2>2, <2>3, <2>5 DEF Commands
  <2>7. Commanded(d) /\ RowsSeen(d)
    BY <1>2, <2>1, <2>2, <2>4, <2>5, <2>6 DEF Commanded, RowsSeen
  <2> QED
    BY <1>5, <2>4, <2>6, <2>7, Advances DEF FindDevice
<1>6. CASE FindTarget(r)
  <2>1. c.at = "target" /\ c.op = "merge" /\ c.owner = User /\ cart[User].version <= MaxCartVersion
    BY <1>1, <1>2, <1>6 DEF FindTarget, Commanded
  <2>2. User \in Owners
    BY DEF Owners
  <2>3. PICK d : d = [c EXCEPT !.at = "stock", !.row = cart[User]]
    OBVIOUS
  <2>4. MoveOn(r, d)
    BY <1>1, <1>6, <2>3 DEF FindTarget
  <2>5. Seen(User, cart[User]) /\ cart[User] \in Carts
    BY <2>2, SeesCart
  <2>6. /\ d \in Commands /\ d.at = "stock" /\ d.op = c.op /\ d.owner = c.owner
        /\ d.device = c.device /\ d.skus = c.skus /\ d.row = cart[User] /\ d.other = c.other
    BY <2>3, <2>5 DEF Commands
  <2>7. Commanded(d) /\ RowsSeen(d)
    BY <1>2, <2>1, <2>5, <2>6 DEF Commanded, RowsSeen
  <2> QED
    BY <1>6, <2>4, <2>6, <2>7, Advances DEF FindTarget
<1>7. CASE AskStock(r)
  <2>1. PICK f \in [CartSkus -> Stocks] : MoveOn(r, [c EXCEPT !.at = "save", !.stock = f])
    BY <1>1, <1>7 DEF AskStock
  <2>2. PICK d : d = [c EXCEPT !.at = "save", !.stock = f]
    OBVIOUS
  <2>3. f \in [CartSkus -> Nat]
    BY CartAssumption
  <2>4. /\ d \in Commands /\ d.at = "save" /\ d.op = c.op /\ d.owner = c.owner
        /\ d.device = c.device /\ d.skus = c.skus /\ d.row = c.row /\ d.other = c.other
    BY <2>2, <2>3 DEF Commands
  <2>5. c.at = "stock"
    BY <1>1, <1>7 DEF AskStock
  <2>6. Commanded(d) /\ RowsSeen(d)
    BY <1>2, <2>4, <2>5 DEF Commanded, RowsSeen
  <2> QED
    BY <1>7, <2>1, <2>2, <2>4, <2>6, Advances DEF AskStock
<1> QED
  BY <1>3, <1>4, <1>5, <1>6, <1>7

(* What is saved is what the command has made of the cart as it is: what   *)
(* it has read is still there.                                             *)
LEMMA Saves ==
    ASSUME CInv, NEW r \in CartRequests, NEW c \in Commands, c = request[r],
           c.at = "save", NEW d, Owns(d, c.row), SaveCart(r, c.owner, d), NEW e, e = Stored(d)
    PROVE  /\ cart[c.owner] = c.row /\ c.owner \in Owners
           /\ e \in Carts /\ SkusOf(e) = SkusOf(d) /\ e.items = d.items /\ e # NoCart
           /\ lastId' \in 0..MaxCarts /\ lastId <= lastId'
           /\ e.id \in 1..lastId' /\ e.version \in 1..MaxCartVersion + 1
           /\ \/ e.id = cart[c.owner].id /\ e.version = cart[c.owner].version + 1
              \/ e.id = lastId + 1
<1>1. c.owner \in Owners /\ Seen(c.owner, c.row) /\ c.row.version <= MaxCartVersion
  BY DEF CInv, Commanded, RowsSeen
<1>2. /\ CanSaveCart(c.owner, c.row) /\ (d.version = 0 => lastId < MaxCarts)
      /\ lastId' = IF d.version = 0 THEN lastId + 1 ELSE lastId
  BY DEF SaveCart
<1>3. c.row \in Carts /\ cart[c.owner] \in Carts /\ lastId \in 0..MaxCarts
  BY <1>1, CommandFields DEF CInv, CartsTyped
<1>4. d \in Carts /\ d.id = c.row.id /\ d.version = c.row.version
  BY DEF Owns
<1>5. d.id \in Nat /\ d.version \in Nat /\ MaxCartVersion \in Nat /\ MaxCarts \in Nat /\ lastId \in Nat
  BY <1>3, <1>4, CartFields, CartAssumption
<1>6. e = [d EXCEPT !.version = d.version + 1, !.id = IF d.id = 0 THEN lastId + 1 ELSE d.id]
  BY <1>4 DEF Stored, Carts, Rows
<1>7. PICK id \in Nat : id = IF d.id = 0 THEN lastId + 1 ELSE d.id
  BY <1>5
<1>8. PICK n \in Nat : n = d.version + 1 /\ n # 0
  BY <1>5
<1>9. /\ e \in Carts /\ e.items = d.items /\ e.id = id /\ e.version = n
  <2>1. e = [d EXCEPT !.version = n, !.id = id]
    BY <1>6, <1>7, <1>8
  <2>2. e \in Rows /\ e.items = d.items /\ e.id = id /\ e.version = n
    BY <1>4, <2>1 DEF Carts, Rows
  <2> QED
    BY <1>4, <2>2 DEF Carts
<1>10. e # NoCart /\ SkusOf(e) = SkusOf(d)
  <2>1. NoCart.version = 0
    BY DEF NoCart
  <2> QED
    BY <1>8, <1>9, <2>1, SameSkus
<1>11. CASE c.row = NoCart
  <2>1. d.id = 0 /\ d.version = 0
    <3>1. NoCart.id = 0 /\ NoCart.version = 0
      BY DEF NoCart
    <3> QED
      BY <1>4, <1>11, <3>1
  <2>2. cart[c.owner] = NoCart
    BY <1>2, <1>4, <2>1 DEF CanSaveCart
  <2>3. lastId' = lastId + 1 /\ lastId < MaxCarts /\ id = lastId + 1 /\ n = 1
    BY <1>2, <1>7, <1>8, <2>1
  <2> QED
    BY <1>1, <1>5, <1>9, <1>10, <1>11, <2>2, <2>3
<1>12. CASE c.row # NoCart
  <2>1. d.id \in 1..lastId /\ d.version \in 1..MaxCartVersion
    BY <1>1, <1>4, <1>5, <1>12 DEF Seen
  <2>2. cart[c.owner].id = c.row.id /\ cart[c.owner].version = c.row.version
    BY <1>2, <1>4, <2>1 DEF CanSaveCart
  <2>3. cart[c.owner] = c.row
    BY <1>1, <1>12, <2>2 DEF Seen
  <2>4. lastId' = lastId /\ id = d.id
    BY <1>2, <1>5, <1>7, <2>1
  <2> QED
    BY <1>1, <1>3, <1>4, <1>5, <1>8, <1>9, <1>10, <2>1, <2>3, <2>4
<1> QED
  BY <1>11, <1>12

(* What a command that changes a cart makes of it.                         *)
LEMMA ChangedRow ==
    ASSUME NEW c \in Commands, Commanded(c), c.at = "save",
           c.op \in {"add", "update", "remove", "remove_promo", "ordered"},
           NEW d, d = Result(c), d # Nil
    PROVE  /\ Owns(d, c.row)
           /\ \A sku \in SkusOf(c.row) \ SkusOf(d) :
                 c.op \in {"remove", "ordered"} /\ sku \in c.skus
<1>1. c.row \in Carts /\ c.quantity \in Nat /\ c.stock \in [CartSkus -> Nat] /\ c.skus \in SUBSET CartSkus
  BY CommandFields
<1>2. PICK sku : sku = CHOOSE s \in c.skus : TRUE
  OBVIOUS
<1>3. c.op \in {"add", "update", "remove"} => sku \in c.skus /\ sku \in CartSkus /\ c.stock[sku] \in Nat
  BY <1>1, <1>2 DEF Commanded
<1>4. CASE c.op = "add"
  <2>1. d = Add(c.row, sku, c.quantity, c.stock[sku])
    BY <1>2, <1>4 DEF Result
  <2>2. sku \in CartSkus /\ c.stock[sku] \in Nat
    BY <1>3, <1>4
  <2> QED
    BY <1>1, <2>1, <2>2, Adds
<1>5. CASE c.op = "update"
  <2>1. d = SetQuantity(c.row, sku, c.quantity, c.stock[sku])
    BY <1>2, <1>5 DEF Result
  <2>2. sku \in CartSkus /\ c.stock[sku] \in Nat
    BY <1>3, <1>5
  <2> QED
    BY <1>1, <2>1, <2>2, SetsQuantity
<1>6. CASE c.op = "remove"
  <2>1. d = RemoveItem(c.row, sku)
    BY <1>2, <1>6 DEF Result
  <2>2. d = Without(c.row, {sku})
    BY <2>1 DEF RemoveItem
  <2>3. Like(d, c.row) /\ SkusOf(c.row) \ SkusOf(d) \subseteq {sku}
    BY <1>1, <2>2, WithoutSkus
  <2> QED
    BY <1>3, <1>6, <2>3 DEF Like, Owns
<1>7. CASE c.op = "remove_promo"
  <2>1. d = [c.row EXCEPT !.promo = Nil]
    BY <1>7 DEF Result
  <2>2. Owns(d, c.row) /\ d.items = c.row.items
    BY <1>1, <2>1, PromoChanged
  <2> QED
    BY <2>2, SameSkus
<1>8. CASE c.op = "ordered"
  <2>1. d = Without(c.row, c.skus)
    BY <1>8 DEF Result
  <2>2. Like(d, c.row) /\ SkusOf(c.row) \ SkusOf(d) \subseteq c.skus
    BY <1>1, <2>1, WithoutSkus
  <2> QED
    BY <1>8, <2>2 DEF Like, Owns
<1> QED
  BY <1>4, <1>5, <1>6, <1>7, <1>8

(* The step that ItemsKept allows.                                         *)
KeepsItems ==
    \A o \in Owners : \A sku \in SkusOf(cart[o]) \ SkusOf(cart'[o]) :
        \/ o \in purgeable /\ request' = request
        \/ \E r \in CartRequests :
              /\ request[r].at = "save" /\ request'[r] = NoCommand
              /\ \/ request[r].op \in {"remove", "ordered"} /\ sku \in request[r].skus
                 \/ /\ request[r].op = "merge" /\ o = request[r].device
                    /\ (sku \in SkusOf(cart'[User]) \/ LeftOut(r, sku))

(* A command that saves one cart.                                          *)
LEMMA SavesOne ==
    ASSUME CInv, NEW r \in CartRequests, NEW c \in Commands, c = request[r],
           c.at = "save", NEW d, Owns(d, c.row), SaveCart(r, c.owner, d),
           cart' = [cart EXCEPT ![c.owner] = Stored(d)], purgeable' = purgeable \ {c.owner},
           \A sku \in SkusOf(c.row) \ SkusOf(d) :
              c.op \in {"remove", "ordered"} /\ sku \in c.skus
    PROVE  CInv' /\ KeepsItems
<1>1. PICK e : e = Stored(d)
  OBVIOUS
<1>2. PICK w \in Owners : w = c.owner
  BY DEF CInv, Commanded
<1>3. /\ cart[w] = c.row /\ e \in Carts /\ SkusOf(e) = SkusOf(d) /\ e # NoCart
      /\ lastId' \in 0..MaxCarts /\ lastId <= lastId'
      /\ e.id \in 1..lastId' /\ e.version \in 1..MaxCartVersion + 1
      /\ \/ e.id = cart[w].id /\ e.version = cart[w].version + 1
         \/ e.id = lastId + 1
  BY <1>1, <1>2, Saves
<1>4. /\ cart \in [Owners -> Carts] /\ lastId \in 0..MaxCarts
      /\ purgeable \subseteq {o \in Devices : cart[o] # NoCart} /\ request \in [CartRequests -> Commands]
  BY DEF CInv, CartsTyped
<1>5. /\ cart' = [cart EXCEPT ![w] = e] /\ purgeable' = purgeable \ {w}
      /\ request' = [request EXCEPT ![r] = NoCommand]
  BY <1>1, <1>2 DEF SaveCart, EndRequest, MoveOn
<1>6. cart'[w] = e /\ \A o \in Owners : o # w => cart'[o] = cart[o]
  BY <1>4, <1>5
<1>7. \A o \in Owners : Moves(o)
  BY <1>3, <1>6 DEF Moves
<1>8. cart' \in [Owners -> Carts]
  BY <1>3, <1>4, <1>5
<1>9. purgeable' \subseteq {o \in Devices : cart'[o] # NoCart}
  BY <1>4, <1>5, <1>6 DEF Owners
<1>10. CartsKnown'
  <2> SUFFICES ASSUME NEW o \in Owners
               PROVE  \/ cart'[o] = NoCart
                      \/ cart'[o].id \in 1..lastId' /\ cart'[o].version \in 1..MaxCartVersion + 1
    BY DEF CartsKnown
  <2>1. CASE o = w
    BY <1>3, <1>6, <2>1
  <2>2. CASE o # w
    <3>1. \/ cart[o] = NoCart
          \/ cart[o].id \in 1..lastId /\ cart[o].version \in 1..MaxCartVersion + 1
      BY DEF CInv, CartsKnown
    <3>2. lastId \in Int /\ lastId' \in Int /\ lastId <= lastId'
      BY <1>3, <1>4
    <3>3. cart'[o] = cart[o]
      BY <1>6, <2>2
    <3> QED
      BY <3>1, <3>2, <3>3
  <2> QED
    BY <2>1, <2>2
<1>11. CInv'
  <2>1. EndRequest(r)
    BY DEF SaveCart
  <2> QED
    BY <1>3, <1>7, <1>8, <1>9, <1>10, <2>1, Ends
<1>12. KeepsItems
  <2> SUFFICES ASSUME NEW o \in Owners, NEW sku \in SkusOf(cart[o]) \ SkusOf(cart'[o])
               PROVE  /\ request[r].at = "save" /\ request'[r] = NoCommand
                      /\ request[r].op \in {"remove", "ordered"} /\ sku \in request[r].skus
    BY DEF KeepsItems
  <2>1. o = w
    BY <1>6
  <2>2. sku \in SkusOf(c.row) \ SkusOf(d)
    BY <1>3, <1>6, <2>1
  <2> QED
    BY <1>4, <1>5, <2>2
<1> QED
  BY <1>11, <1>12

LEMMA ChangeKeeps ==
    ASSUME CInv, NEW r \in CartRequests, Change(r)
    PROVE  CInv' /\ KeepsItems
<1>1. PICK c \in Commands : c = request[r] /\ Commanded(c)
  BY DEF CInv, CartsTyped
<1>2. PICK d : d = Result(c)
  OBVIOUS
<1>3. /\ c.at = "save" /\ c.op \in {"add", "update", "remove", "remove_promo", "ordered"}
      /\ d # Nil /\ SaveCart(r, c.owner, d)
      /\ cart' = [cart EXCEPT ![c.owner] = Stored(d)] /\ purgeable' = purgeable \ {c.owner}
  BY <1>1, <1>2 DEF Change
<1>4. /\ Owns(d, c.row)
      /\ \A sku \in SkusOf(c.row) \ SkusOf(d) :
            c.op \in {"remove", "ordered"} /\ sku \in c.skus
  BY <1>1, <1>2, <1>3, ChangedRow
<1> QED
  BY <1>1, <1>3, <1>4, SavesOne

LEMMA PromoKeeps ==
    ASSUME CInv, NEW r \in CartRequests, ApplyPromoCode(r)
    PROVE  CInv' /\ KeepsItems
<1>1. PICK c \in Commands : c = request[r]
  BY DEF CInv, CartsTyped
<1>2. PICK code \in Codes :
         /\ SaveCart(r, c.owner, [c.row EXCEPT !.promo = code])
         /\ cart' = [cart EXCEPT ![c.owner] = Stored([c.row EXCEPT !.promo = code])]
  BY <1>1 DEF ApplyPromoCode
<1>3. PICK d : d = [c.row EXCEPT !.promo = code]
  OBVIOUS
<1>4. c.row \in Carts
  BY CommandFields
<1>5. Owns(d, c.row) /\ d.items = c.row.items
  BY <1>3, <1>4, PromoChanged
<1>6. SkusOf(c.row) \ SkusOf(d) = {}
  BY <1>5, SameSkus
<1>7. /\ c.at = "save" /\ purgeable' = purgeable \ {c.owner} /\ SaveCart(r, c.owner, d)
      /\ cart' = [cart EXCEPT ![c.owner] = Stored(d)]
  BY <1>1, <1>2, <1>3 DEF ApplyPromoCode
<1> QED
  BY <1>1, <1>5, <1>6, <1>7, SavesOne

LEMMA MergeKeeps ==
    ASSUME CInv, NEW r \in CartRequests, MergeCarts(r)
    PROVE  CInv' /\ KeepsItems
<1>1. PICK c \in Commands : c = request[r] /\ Commanded(c) /\ RowsSeen(c)
  BY DEF CInv, CartsTyped
<1>2. PICK d : d = Result(c)
  OBVIOUS
<1>3. /\ c.at = "save" /\ c.op = "merge" /\ SaveCart(r, User, d) /\ CanDelete(c.device, c.other)
      /\ cart' = [cart EXCEPT ![User] = Stored(d), ![c.device] = NoCart]
      /\ purgeable' = purgeable \ {c.device}
  BY <1>1, <1>2 DEF MergeCarts
<1>4. /\ c.owner = User /\ c.device \in Devices /\ c.other # NoCart /\ Seen(c.device, c.other)
      /\ User \in Owners /\ User # c.device
  BY <1>1, <1>3, CartAssumption DEF Commanded, RowsSeen, Owners
<1>5. c.row \in Carts /\ c.other \in Carts /\ c.stock \in [CartSkus -> Nat]
  BY CommandFields
<1>6. d = Absorb(c.row, c.other, c.stock)
  BY <1>2, <1>3 DEF Result
<1>7. /\ Owns(d, c.row) /\ SkusOf(c.row) \subseteq SkusOf(d)
      /\ \A sku \in SkusOf(c.other) :
            \/ sku \in SkusOf(d)
            \/ c.row.items # <<>> /\ c.row.currency # c.other.currency
            \/ c.stock[sku] = 0
            \/ Len(d.items) = MaxItems
  BY <1>5, <1>6, Merges
<1>8. PICK e : e = Stored(d)
  OBVIOUS
<1>9. PICK w \in Owners : w = c.device /\ w # User
  BY <1>4 DEF Owners
<1>10. /\ cart[User] = c.row /\ e \in Carts /\ SkusOf(e) = SkusOf(d) /\ e.items = d.items
       /\ e # NoCart /\ lastId' \in 0..MaxCarts /\ lastId <= lastId'
       /\ e.id \in 1..lastId' /\ e.version \in 1..MaxCartVersion + 1
       /\ \/ e.id = cart[User].id /\ e.version = cart[User].version + 1
          \/ e.id = lastId + 1
  BY <1>1, <1>3, <1>4, <1>7, <1>8, Saves
<1>11. /\ cart \in [Owners -> Carts] /\ lastId \in 0..MaxCarts
       /\ purgeable \subseteq {o \in Devices : cart[o] # NoCart}
       /\ request \in [CartRequests -> Commands] /\ NoCart \in Carts
  BY NoCartIsCart DEF CInv, CartsTyped
<1>12. cart[w] = c.other
  BY <1>3, <1>4, <1>9 DEF CanDelete, Seen
<1>13. /\ cart' = [cart EXCEPT ![User] = e, ![w] = NoCart] /\ purgeable' = purgeable \ {w}
       /\ request' = [request EXCEPT ![r] = NoCommand]
  BY <1>3, <1>8, <1>9 DEF SaveCart, EndRequest, MoveOn
<1>14. /\ cart'[User] = e /\ cart'[w] = NoCart
       /\ \A o \in Owners : o # User /\ o # w => cart'[o] = cart[o]
  BY <1>4, <1>9, <1>11, <1>13
<1>15. \A o \in Owners : Moves(o)
  BY <1>10, <1>14 DEF Moves
<1>16. cart' \in [Owners -> Carts]
  BY <1>10, <1>11, <1>13
<1>17. purgeable' \subseteq {o \in Devices : cart'[o] # NoCart}
  BY <1>10, <1>11, <1>13, <1>14 DEF Owners
<1>18. CartsKnown'
  <2> SUFFICES ASSUME NEW o \in Owners
               PROVE  \/ cart'[o] = NoCart
                      \/ cart'[o].id \in 1..lastId' /\ cart'[o].version \in 1..MaxCartVersion + 1
    BY DEF CartsKnown
  <2>1. CASE o = User
    BY <1>10, <1>14, <2>1
  <2>2. CASE o = w
    BY <1>14, <2>2
  <2>3. CASE o # User /\ o # w
    <3>1. \/ cart[o] = NoCart
          \/ cart[o].id \in 1..lastId /\ cart[o].version \in 1..MaxCartVersion + 1
      BY DEF CInv, CartsKnown
    <3>2. lastId \in Int /\ lastId' \in Int /\ lastId <= lastId'
      BY <1>10, <1>11
    <3>3. cart'[o] = cart[o]
      BY <1>14, <2>3
    <3> QED
      BY <3>1, <3>2, <3>3
  <2> QED
    BY <2>1, <2>2, <2>3
<1>19. CInv'
  <2>1. EndRequest(r)
    BY <1>3 DEF SaveCart
  <2> QED
    BY <1>10, <1>15, <1>16, <1>17, <1>18, <2>1, Ends
<1>20. KeepsItems
  <2> SUFFICES ASSUME NEW o \in Owners, NEW sku \in SkusOf(cart[o]) \ SkusOf(cart'[o])
               PROVE  /\ request[r].at = "save" /\ request'[r] = NoCommand
                      /\ request[r].op = "merge" /\ o = request[r].device
                      /\ sku \in SkusOf(cart'[User]) \/ LeftOut(r, sku)
    BY DEF KeepsItems
  <2>1. o = w
    BY <1>7, <1>10, <1>14
  <2>2. \/ sku \in SkusOf(d)
        \/ c.row.items # <<>> /\ c.row.currency # c.other.currency
        \/ c.stock[sku] = 0
        \/ Len(d.items) = MaxItems
    BY <1>7, <1>12, <2>1
  <2>3. sku \in SkusOf(cart'[User]) \/ LeftOut(r, sku)
    BY <1>1, <1>10, <1>14, <2>2 DEF LeftOut
  <2>4. request'[r] = NoCommand
    BY <1>11, <1>13
  <2> QED
    BY <1>1, <1>3, <1>9, <2>1, <2>3, <2>4
<1> QED
  BY <1>19, <1>20

(* Steps that no command makes, and those that change no cart.             *)
LEMMA NoneMoves ==
    ASSUME CInv, UNCHANGED <<cart, lastId>>
    PROVE  (\A o \in Owners : Moves(o)) /\ KeepsItems
<1>1. lastId \in Nat
  BY DEF CInv, CartsTyped
<1> QED
  BY <1>1 DEF Moves, KeepsItems

LEMMA FailKeeps ==
    ASSUME CInv, NEW r \in CartRequests, FailRequest(r)
    PROVE  CInv' /\ KeepsItems
<1>1. UNCHANGED <<cart, lastId, purgeable>> /\ EndRequest(r)
  BY DEF FailRequest
<1>2. (\A o \in Owners : Moves(o)) /\ KeepsItems
  BY <1>1, NoneMoves
<1>3. /\ cart' \in [Owners -> Carts] /\ lastId' \in 0..MaxCarts
      /\ purgeable' \subseteq {d \in Devices : cart'[d] # NoCart} /\ CartsKnown'
  BY <1>1 DEF CInv, CartsTyped, CartsKnown
<1> QED
  BY <1>1, <1>2, <1>3, Ends

LEMMA NobodyAsks ==
    ASSUME CInv, UNCHANGED request, \A o \in Owners : Moves(o),
           CartsTyped', CartsKnown'
    PROVE  CInv'
<1>1. \A r \in CartRequests : Commanded(request'[r]) /\ RowsSeen(request[r])'
  BY CommandsStay
<1> QED
  BY <1>1 DEF CInv

LEMMA ExpireKeeps ==
    ASSUME CInv, NEW d \in Devices, Expire(d)
    PROVE  CInv' /\ KeepsItems
<1>1. UNCHANGED <<cart, lastId, request>> /\ purgeable' = purgeable \cup {d} /\ cart[d] # NoCart
  BY DEF Expire
<1>2. (\A o \in Owners : Moves(o)) /\ KeepsItems
  BY <1>1, NoneMoves
<1>3. CartsTyped' /\ CartsKnown'
  BY <1>1 DEF CInv, CartsTyped, CartsKnown
<1> QED
  BY <1>1, <1>2, <1>3, NobodyAsks

LEMMA PurgeKeeps ==
    ASSUME CInv, PurgeExpired
    PROVE  CInv' /\ KeepsItems
<1>1. PICK S \in SUBSET purgeable :
         /\ cart' = [o \in Owners |-> IF o \in S THEN NoCart ELSE cart[o]]
         /\ purgeable' = purgeable \ S /\ UNCHANGED <<lastId, request>>
  BY DEF PurgeExpired
<1>2. CartsTyped /\ CartsKnown /\ NoCart \in Carts /\ lastId \in Nat
  BY NoCartIsCart DEF CInv, CartsTyped
<1>3. \A o \in Owners : cart'[o] = IF o \in S THEN NoCart ELSE cart[o]
  BY <1>1
<1>4. \A o \in Owners : Moves(o)
  BY <1>1, <1>2, <1>3 DEF Moves
<1>5. CartsTyped'
  <2>1. cart' \in [Owners -> Carts]
    BY <1>1, <1>2 DEF CartsTyped
  <2>2. purgeable' \subseteq {d \in Devices : cart'[d] # NoCart}
    BY <1>1, <1>2, <1>3 DEF CartsTyped, Owners
  <2> QED
    BY <1>1, <1>2, <2>1, <2>2 DEF CartsTyped
<1>6. CartsKnown'
  BY <1>1, <1>2, <1>3 DEF CartsKnown
<1>7. KeepsItems
  <2> SUFFICES ASSUME NEW o \in Owners, NEW sku \in SkusOf(cart[o]) \ SkusOf(cart'[o])
               PROVE  o \in purgeable /\ request' = request
    BY DEF KeepsItems
  <2>1. o \in S
    BY <1>3
  <2> QED
    BY <1>1, <2>1
<1> QED
  BY <1>1, <1>4, <1>5, <1>6, <1>7, NobodyAsks

-----------------------------------------------------------------------------
LEMMA CartSteps ==
    ASSUME CInv, [CartNext]_cartVars
    PROVE  CInv' /\ KeepsItems
<1>1. CASE UNCHANGED cartVars
  <2>1. UNCHANGED <<cart, lastId, purgeable, request>>
    BY <1>1 DEF cartVars
  <2>2. (\A o \in Owners : Moves(o)) /\ KeepsItems
    BY <2>1, NoneMoves
  <2>3. CartsTyped' /\ CartsKnown'
    BY <2>1 DEF CInv, CartsTyped, CartsKnown
  <2> QED
    BY <2>1, <2>2, <2>3, NobodyAsks
<1>2. ASSUME NEW r \in CartRequests, CartStep(r)
      PROVE  CInv' /\ KeepsItems
  <2>1. CASE BeginChange(r) \/ BeginPromo(r) \/ BeginMerge(r) \/ BeginRemoveOrdered(r)
    <3>1. UNCHANGED <<cart, lastId>>
      BY <2>1 DEF BeginChange, BeginPromo, BeginMerge, BeginRemoveOrdered, BeginRequest
    <3> QED
      BY <2>1, <3>1, BeginSteps, NoneMoves
  <2>2. CASE AskOffer(r) \/ Find(r) \/ FindDevice(r) \/ FindTarget(r) \/ AskStock(r)
    <3>1. UNCHANGED <<cart, lastId>>
      BY <2>2 DEF AskOffer, Find, FindDevice, FindTarget, AskStock
    <3> QED
      BY <2>2, <3>1, ReadSteps, NoneMoves
  <2>3. CASE Change(r)
    BY <2>3, ChangeKeeps
  <2>4. CASE ApplyPromoCode(r)
    BY <2>4, PromoKeeps
  <2>5. CASE MergeCarts(r)
    BY <2>5, MergeKeeps
  <2>6. CASE FailRequest(r)
    BY <2>6, FailKeeps
  <2> QED
    BY <1>2, <2>1, <2>2, <2>3, <2>4, <2>5, <2>6 DEF CartStep
<1>3. ASSUME NEW d \in Devices, Expire(d)
      PROVE  CInv' /\ KeepsItems
  BY <1>3, ExpireKeeps
<1>4. CASE PurgeExpired
  BY <1>4, PurgeKeeps
<1> QED
  BY <1>1, <1>2, <1>3, <1>4 DEF CartNext

(* The inductive invariant: what a command has read is either what is      *)
(* there, or no save of it succeeds.                                       *)
THEOREM CartInvariance == CartSpec => []CInv
<1>1. CartInit => CInv
  BY CartInitially
<1>2. CInv /\ [CartNext]_cartVars => CInv'
  BY CartSteps
<1> QED
  BY <1>1, <1>2, PTL DEF CartSpec

(* Every cart stays within its limits, whoever changes it meanwhile        *)
(* (Rehydrate, Limits).                                                    *)
THEOREM CartTypeCorrect == CartSpec => []CartTypeOK
<1>1. ASSUME CInv PROVE CartTypeOK
  <2>1. ASSUME NEW o \in Owners PROVE cart[o] = NoCart \/ IsCart(cart[o])
    <3> SUFFICES ASSUME cart[o] # NoCart PROVE IsCart(cart[o])
      OBVIOUS
    <3>1. PICK c \in Carts : c = cart[o]
      BY <1>1 DEF CInv, CartsTyped
    <3>2. c.id \in 1..lastId /\ c.version \in 1..MaxCartVersion + 1 /\ lastId \in 0..MaxCarts
      BY <1>1, <3>1 DEF CInv, CartsKnown, CartsTyped
    <3>3. c.id \in 1..MaxCarts
      BY <3>2, CartAssumption
    <3> QED
      BY <3>1, <3>2, <3>3, CartFields DEF IsCart, Currencies
  <2>2. ASSUME NEW r \in CartRequests
        PROVE  /\ request[r].at \in {"idle", "ask", "find", "device", "target", "stock", "save"}
               /\ request[r].op \in {"none"} \cup Ops
    BY <1>1, CommandFields DEF CInv, CartsTyped
  <2> QED
    BY <1>1, <2>1, <2>2 DEF CartTypeOK, CInv, CartsTyped
<1> QED
  BY <1>1, CartInvariance, PTL

(* No SKU ever has two lines in a cart (Cart.index finds the only one).    *)
OneLineEach == \A o \in Owners : Single(cart[o].items)

THEOREM CartLines == CartSpec => []OneLineEach
<1>1. CInv => OneLineEach
  BY CartFields DEF CInv, CartsTyped, OneLineEach
<1> QED
  BY <1>1, CartInvariance, PTL

(* No concurrent change of a cart loses an item: what goes was removed,    *)
(* ordered, purged, or merged, and then it goes on in the cart of the      *)
(* customer unless a limit keeps it out (Repository.SaveCart, Cart.Absorb).    *)
THEOREM CartKeepsItems == CartSpec => ItemsKept
<1>1. CInv /\ [CartNext]_cartVars => KeepsItems
  BY CartSteps
<1>2. CInv /\ [CartNext]_cartVars => [KeepsItems]_cartVars
  BY <1>1
<1>3. CartSpec => [][KeepsItems]_cartVars
  BY <1>2, CartInvariance, PTL DEF CartSpec
<1>4. ItemsKept <=> [][KeepsItems]_cartVars
  BY DEF ItemsKept, KeepsItems
<1> QED
  BY <1>3, <1>4

-----------------------------------------------------------------------------
(* The calculator.  No rule takes more off than is left of the price.      *)

IsLine(line) == line.unit \in Nat /\ line.quantity \in Nat \ {0}

LEMMA BaseIsNat ==
    ASSUME NEW line, IsLine(line)
    PROVE  Base(line) \in Nat /\ (line.unit # 0 => Base(line) > 0)
<1>1. PICK u \in Nat, q \in Nat \ {0} : u = line.unit /\ q = line.quantity
  BY DEF IsLine
<1>2. u * q \in Nat /\ (u # 0 => u * q > 0)
  OBVIOUS
<1> QED
  BY <1>1, <1>2 DEF Base

LEMMA PercentBounded ==
    ASSUME NEW amount \in Nat, NEW points \in Nat, points <= 10000
    PROVE  Percent(amount, points) \in 0..amount
<1>1. PICK a \in Int : a = amount * points
  OBVIOUS
<1>2. 0 * 10000 <= a /\ a <= amount * 10000
  BY <1>1
<1>3. a \div 10000 \in Int /\ 0 <= a \div 10000 /\ a \div 10000 <= amount
  <2>1. 10000 \in Nat \ {0} /\ 0 \in Int /\ amount \in Int
    OBVIOUS
  <2> QED
    BY <1>2, <2>1, Quotient
<1> QED
  BY <1>1, <1>3 DEF Percent

LEMMA AtMostBounded ==
    ASSUME NEW amount \in Nat, NEW current \in Nat
    PROVE  AtMost(amount, current) \in 0..current
BY DEF AtMost

LEMMA DiscountBounded ==
    ASSUME NEW line, IsLine(line), NEW rule, IsRule(rule), NEW current \in Nat
    PROVE  Discount(rule, line, current) \in 0..current
<1>1. /\ rule.kind \in {"percentage", "fixed", "buy_n_get_m"}
      /\ rule.points \in Nat /\ rule.amount \in Nat
      /\ rule.buy \in Nat /\ rule.free \in Nat
      /\ rule.kind = "percentage" => rule.points \in 1..10000
      /\ rule.kind = "buy_n_get_m" => rule.free \in 1..(rule.buy - 1)
  BY DEF IsRule, IsDiscount
<1>2. CASE rule.kind = "percentage"
  <2>1. PICK p \in 1..10000 : p = rule.points
    BY <1>1, <1>2
  <2>2. Discount(rule, line, current) = Percent(current, p)
    BY <1>2, <2>1 DEF Discount
  <2>3. Percent(current, p) \in 0..current
    <3>1. p \in Nat /\ p <= 10000
      OBVIOUS
    <3> QED
      BY <3>1, PercentBounded
  <2> QED
    BY <2>2, <2>3
<1>3. CASE rule.kind = "fixed"
  BY <1>1, <1>3, AtMostBounded DEF Discount
<1>4. CASE rule.kind = "buy_n_get_m"
  <2>0. rule.buy \in Nat \ {0}
    BY <1>1, <1>4
  <2>1. PICK u \in Nat, q \in Nat, b \in Nat \ {0}, m \in Nat :
               u = line.unit /\ q = line.quantity /\ b = rule.buy /\ m = rule.free
    BY <1>1, <2>0 DEF IsLine
  <2>2. PICK sets \in Nat : sets = q \div b
    OBVIOUS
  <2>3. u * sets \in Nat
    OBVIOUS
  <2>4. u * sets * m \in Nat
    BY <2>3
  <2>5. PICK amount \in Nat : amount = u * sets * m
    BY <2>4
  <2>6. Discount(rule, line, current) = AtMost(amount, current)
    BY <1>4, <2>1, <2>2, <2>5 DEF Discount
  <2> QED
    BY <2>6, AtMostBounded
<1> QED
  BY <1>1, <1>2, <1>3, <1>4

LEMMA ReduceBounded ==
    ASSUME NEW line, IsLine(line), NEW rule, IsRule(rule), NEW B \in Nat,
           NEW left \in [final : 0..B, closed : BOOLEAN]
    PROVE  Reduce(line, left, rule) \in [final : 0..B, closed : BOOLEAN]
<1>1. PICK n \in 0..B : n = left.final
  OBVIOUS
<1>2. PICK d : d = Discount(rule, line, n)
  OBVIOUS
<1>3. d \in 0..n
  BY <1>2, DiscountBounded
<1>4. Apply(left, d, rule) \in [final : 0..B, closed : BOOLEAN]
  <2>1. CASE left.closed \/ d = 0
    BY <2>1 DEF Apply
  <2>2. CASE ~ (left.closed \/ d = 0)
    <3>1. n - d \in 0..B /\ rule.exclusive \in BOOLEAN
      BY <1>3 DEF IsRule
    <3>2. Apply(left, d, rule) = [final |-> n - d, closed |-> rule.exclusive]
      BY <1>1, <2>2 DEF Apply
    <3> QED
      BY <3>1, <3>2
  <2> QED
    BY <2>1, <2>2
<1> QED
  BY <1>1, <1>2, <1>4 DEF Reduce

ReducesOn(line, rules, f) ==
    f = [T \in SUBSET (DOMAIN rules) |->
            IF T = {} THEN [final |-> Base(line), closed |-> FALSE]
            ELSE Reduce(line, f[T \ {Max(T)}], rules[Max(T)])]

LEMMA ReduceForm ==
    ASSUME NEW line, NEW rules
    PROVE  LineFinal(line, rules) = (CHOOSE f : ReducesOn(line, rules, f))[DOMAIN rules].final
BY DEF LineFinal, FoldLeft, MapThenFoldSet, ReducesOn

Rules(rules) == rules \in Seq(Range(rules)) /\ \A rule \in Range(rules) : IsRule(rule)

LEMMA LineFinalBounded ==
    ASSUME NEW line, IsLine(line), NEW rules, Rules(rules)
    PROVE  LineFinal(line, rules) \in 0..Base(line)
<1>1. PICK R : R = Range(rules)
  OBVIOUS
<1>2. rules \in Seq(R)
  BY <1>1 DEF Rules
<1>3. PICK n \in Nat : n = Len(rules) /\ DOMAIN rules = 1..n /\ \A k \in 1..n : rules[k] \in R
  BY <1>2
<1>4. \A k \in 1..n : IsRule(rules[k])
  BY <1>1, <1>3 DEF Rules
<1>5. PICK B \in Nat : B = Base(line)
  BY BaseIsNat
<1>6. PICK A : A = [final : 0..B, closed : BOOLEAN]
  OBVIOUS
<1>7. PICK e : e = [final |-> Base(line), closed |-> FALSE]
  OBVIOUS
<1>8. e \in A
  BY <1>5, <1>6, <1>7
<1>9. PICK step : step = [k \in 1..n |-> [a \in A |-> Reduce(line, a, rules[k])]]
  OBVIOUS
<1>10. ASSUME NEW k \in 1..n, NEW a \in A
       PROVE  step[k][a] = Reduce(line, a, rules[k]) /\ step[k][a] \in A
  <2>1. step[k][a] = Reduce(line, a, rules[k])
    BY <1>9
  <2>2. IsRule(rules[k])
    BY <1>4
  <2>3. Reduce(line, a, rules[k]) \in A
    BY <1>6, <2>2, ReduceBounded
  <2> QED
    BY <2>1, <2>3
<1>11. StepsIn(A, step, n)
  BY <1>10 DEF StepsIn
<1>12. \E f : ReducesOn(line, rules, f)
  <2>1. PICK f : LeftFold(A, e, step, n, f)
    BY <1>8, <1>11, LeftFoldsExist
  <2>2. f = [T \in SUBSET (1..n) |-> f[T]]
    BY <2>1 DEF LeftFold
  <2>3. ASSUME NEW T \in SUBSET (1..n)
        PROVE  f[T] = IF T = {} THEN [final |-> Base(line), closed |-> FALSE]
                      ELSE Reduce(line, f[T \ {Max(T)}], rules[Max(T)])
    BY <1>7, <1>10, <2>1, MaxIsGreatest DEF LeftFold
  <2> QED
    BY <1>3, <2>2, <2>3 DEF ReducesOn
<1>13. PICK f : f = (CHOOSE g : ReducesOn(line, rules, g)) /\ ReducesOn(line, rules, f)
  BY <1>12
<1>14. LineFinal(line, rules) = f[1..n].final
  BY <1>3, <1>13, ReduceForm
<1>15. f[{}] = e
  BY <1>7, <1>13 DEF ReducesOn
<1>16. ASSUME NEW T \in SUBSET (1..n), T # {}
       PROVE  ValueOf(A, step, T, f)
  <2>1. f[T] = Reduce(line, f[T \ {Max(T)}], rules[Max(T)])
    BY <1>3, <1>13, <1>16 DEF ReducesOn
  <2>2. Greatest(T) \in 1..n
    BY <1>16, GreatestIsMember
  <2> QED
    BY <1>10, <2>1, <2>2, MaxIsGreatest DEF ValueOf
<1>17. PICK v : Leads(A, e, step, n, v, f[1..n])
  BY <1>8, <1>11, <1>15, <1>16, LeftFoldRuns
<1>18. f[1..n] \in A
  BY <1>17 DEF Leads
<1> QED
  BY <1>5, <1>6, <1>14, <1>18

(* The shares of the lines in the discount of a promo code add up to it.   *)

LEMMA AddUpIsNat ==
    ASSUME NEW s \in Seq(Nat)
    PROVE  AddUp(s) \in Nat
<1>1. PICK n \in Nat : n = Len(s) /\ DOMAIN s = 1..n
  OBVIOUS
<1>2. PICK S : S = 1..n
  OBVIOUS
<1>3. IsFiniteSet(S)
  BY <1>2, FS_Interval
<1>4. \A i \in S : s[i] \in Nat
  BY <1>1, <1>2
<1> QED
  BY <1>1, <1>2, <1>3, <1>4, SumIsNat DEF AddUp, SumFunction

LEMMA AddUpOfNone == AddUp(<<>>) = 0
<1>1. DOMAIN <<>> = {}
  OBVIOUS
<1> QED
  BY <1>1, SumOfNone DEF AddUp, SumFunction

LEMMA AddUpAppended ==
    ASSUME NEW s \in Seq(Nat), NEW x \in Nat
    PROVE  AddUp(Append(s, x)) = AddUp(s) + x
<1>1. s \in Seq(Int) /\ x \in Int
  OBVIOUS
<1> QED
  BY <1>1, SumAppended DEF AddUp

Due(finals, discount, k) == (discount * finals[k]) \div AddUp(finals)

Shared(finals, discount, shares, k) ==
    Take(shares, discount - AddUp(shares), Due(finals, discount, k),
         Len(shares) = Len(finals) - 1)

SharesOn(finals, discount, f) ==
    f = [T \in SUBSET (DOMAIN finals) |->
            IF T = {} THEN <<>> ELSE Shared(finals, discount, f[T \ {Max(T)}], Max(T))]

LEMMA SharesForm ==
    ASSUME NEW finals, NEW discount
    PROVE  Shares(finals, discount) = (CHOOSE f : SharesOn(finals, discount, f))[DOMAIN finals]
BY DEF Shares, FoldLeft, MapThenFoldSet, SharesOn, Shared, Due

(* Shares that leave something of the discount, or nothing.                *)
Within(discount) == {s \in Seq(Nat) : AddUp(s) <= discount}

LEMMA TakeWithin ==
    ASSUME NEW discount \in Nat, NEW s \in Within(discount), NEW due \in Nat, NEW last,
           NEW t, t = Take(s, discount - AddUp(s), due, last)
    PROVE  /\ t \in Within(discount) /\ Len(t) = Len(s) + 1
           /\ last => AddUp(t) = discount
<1>1. s \in Seq(Nat) /\ AddUp(s) \in Nat /\ AddUp(s) <= discount
  BY AddUpIsNat DEF Within
<1>2. PICK left \in Nat : left = discount - AddUp(s)
  BY <1>1
<1>3. PICK x \in Nat : x = (IF last \/ due > left THEN left ELSE due) /\ x <= left
  OBVIOUS
<1>4. t = Append(s, x)
  BY <1>2, <1>3 DEF Take
<1>5. AddUp(t) = AddUp(s) + x
  BY <1>1, <1>4, AddUpAppended
<1>6. AddUp(t) <= discount /\ (last => AddUp(t) = discount)
  <2>1. PICK a \in Nat : a = AddUp(s)
    BY <1>1
  <2>2. left = discount - a /\ AddUp(t) = a + x
    BY <1>2, <1>5, <2>1
  <2> QED
    BY <1>3, <2>2
<1>7. t \in Seq(Nat) /\ Len(t) = Len(s) + 1
  <2>1. PICK z \in Seq(Nat) : z = s
    BY <1>1
  <2>2. Append(z, x) \in Seq(Nat) /\ Len(Append(z, x)) = Len(z) + 1
    BY ONLY <2>1, <1>3
  <2> QED
    BY <1>4, <2>1, <2>2
<1> QED
  BY <1>6, <1>7 DEF Within

LEMMA SharesAddUp ==
    ASSUME NEW finals \in Seq(Nat), NEW discount \in Nat, AddUp(finals) # 0
    PROVE  /\ Shares(finals, discount) \in Seq(Nat)
           /\ Len(Shares(finals, discount)) = Len(finals)
           /\ AddUp(Shares(finals, discount)) = discount
<1>1. PICK n \in Nat : n = Len(finals) /\ DOMAIN finals = 1..n /\ \A k \in 1..n : finals[k] \in Nat
  OBVIOUS
<1>2. n # 0
  <2> SUFFICES ASSUME n = 0 PROVE FALSE
    OBVIOUS
  <2>1. finals = <<>>
    BY <1>1
  <2> QED
    BY <2>1, AddUpOfNone
<1>3. PICK A : A = Within(discount)
  OBVIOUS
<1>4. PICK e : e = <<>>
  OBVIOUS
<1>5. e \in A /\ Len(e) = 0
  BY <1>3, <1>4, AddUpOfNone DEF Within
<1>6. ASSUME NEW k \in 1..n PROVE Due(finals, discount, k) \in Nat
  <2>1. PICK b \in Nat \ {0} : b = AddUp(finals)
    BY AddUpIsNat
  <2>2. PICK x \in Nat : x = finals[k]
    BY <1>1
  <2>3. discount * x \in Nat
    OBVIOUS
  <2>4. PICK a \in Nat : a = discount * x
    BY <2>3
  <2>5. a \div b \in Nat
    OBVIOUS
  <2> QED
    BY <2>1, <2>2, <2>4, <2>5 DEF Due
<1>7. PICK step : step = [k \in 1..n |-> [a \in A |-> Shared(finals, discount, a, k)]]
  OBVIOUS
<1>8. ASSUME NEW k \in 1..n, NEW a \in A
      PROVE  /\ step[k][a] = Shared(finals, discount, a, k)
             /\ step[k][a] \in A /\ Len(step[k][a]) = Len(a) + 1
             /\ Len(a) = n - 1 => AddUp(step[k][a]) = discount
  <2>1. PICK t : t = Shared(finals, discount, a, k)
    OBVIOUS
  <2>2. step[k][a] = t
    BY <1>7, <2>1
  <2>3. PICK last : last = (Len(a) = n - 1)
    OBVIOUS
  <2>4. PICK due \in Nat : due = Due(finals, discount, k)
    BY <1>6
  <2>5. t = Take(a, discount - AddUp(a), due, last)
    BY <1>1, <2>1, <2>3, <2>4 DEF Shared
  <2>6. a \in Within(discount)
    BY <1>3
  <2>7. /\ t \in Within(discount) /\ Len(t) = Len(a) + 1
        /\ last => AddUp(t) = discount
    BY <2>5, <2>6, TakeWithin
  <2> QED
    BY <1>3, <2>1, <2>2, <2>3, <2>7
<1>9. StepsIn(A, step, n)
  BY <1>8 DEF StepsIn
<1>10. \E f : SharesOn(finals, discount, f)
  <2>1. PICK f : LeftFold(A, e, step, n, f)
    BY <1>5, <1>9, LeftFoldsExist
  <2>2. f = [T \in SUBSET (1..n) |-> f[T]]
    BY <2>1 DEF LeftFold
  <2>3. ASSUME NEW T \in SUBSET (1..n)
        PROVE  f[T] = IF T = {} THEN <<>>
                      ELSE Shared(finals, discount, f[T \ {Max(T)}], Max(T))
    BY <1>4, <1>8, <2>1, MaxIsGreatest DEF LeftFold
  <2> QED
    BY <1>1, <2>2, <2>3 DEF SharesOn
<1>11. PICK f : f = (CHOOSE g : SharesOn(finals, discount, g)) /\ SharesOn(finals, discount, f)
  BY <1>10
<1>12. Shares(finals, discount) = f[1..n]
  BY <1>1, <1>11, SharesForm
<1>13. f[{}] = e
  BY <1>4, <1>11 DEF SharesOn
<1>14. ASSUME NEW T \in SUBSET (1..n), T # {}
       PROVE  ValueOf(A, step, T, f)
  <2>1. f[T] = Shared(finals, discount, f[T \ {Max(T)}], Max(T))
    BY <1>1, <1>11, <1>14 DEF SharesOn
  <2>2. Greatest(T) \in 1..n
    BY <1>14, GreatestIsMember
  <2> QED
    BY <1>8, <2>1, <2>2, MaxIsGreatest DEF ValueOf
<1>15. PICK v : Leads(A, e, step, n, v, f[1..n])
  BY <1>5, <1>9, <1>13, <1>14, LeftFoldRuns
<1>16. /\ v \in [0..n -> A] /\ v[0] = e /\ v[n] = f[1..n]
       /\ \A k \in 1..n : v[k] = step[k][v[k - 1]]
  BY <1>15 DEF Leads
<1> DEFINE Q == {k \in 0..n : Len(v[k]) = k}
<1>17. 0 \in Q
  BY <1>5, <1>16
<1>18. ASSUME NEW k \in 1..n, k - 1 \in Q PROVE k \in Q
  <2>1. k \in 0..n /\ k - 1 \in 0..n /\ Len(v[k - 1]) = k - 1
    BY <1>18
  <2>2. v[k - 1] \in A /\ v[k] = step[k][v[k - 1]]
    BY <1>16, <2>1
  <2>3. Len(v[k]) = (k - 1) + 1
    BY <1>8, <2>1, <2>2
  <2> QED
    BY <2>1, <2>3
<1>19. \A k \in 0..n : k \in Q
  <2> HIDE DEF Q
  <2> QED
    BY <1>17, <1>18, NumberInduction
<1>20. PICK w \in A : w = v[n - 1] /\ Len(w) = n - 1 /\ v[n] = step[n][w]
  <2>1. n \in 1..n /\ n - 1 \in 0..n
    BY <1>2
  <2> QED
    BY <1>16, <1>19, <2>1
<1>21. v[n] \in A /\ Len(v[n]) = n /\ AddUp(v[n]) = discount
  <2>1. n \in 1..n
    BY <1>2
  <2>2. Len(v[n]) = Len(w) + 1 /\ v[n] \in A /\ AddUp(v[n]) = discount
    BY <1>8, <1>20, <2>1
  <2> QED
    BY <1>20, <2>2
<1> QED
  BY <1>1, <1>3, <1>12, <1>16, <1>21 DEF Within

-----------------------------------------------------------------------------
(* What a quote says of its lines.                                         *)

LEMMA IsSequence ==
    ASSUME NEW A, NEW n \in Nat, NEW f \in [1..n -> A]
    PROVE  f \in Seq(A) /\ Len(f) = n
OBVIOUS

Finals(lines, rules) == [i \in DOMAIN lines |-> LineFinal(lines[i], rules)]
Bases(lines) == [i \in DOMAIN lines |-> Base(lines[i])]

AreLines(lines, n) == DOMAIN lines = 1..n /\ \A i \in 1..n : IsLine(lines[i])

LEMMA FinalsBounded ==
    ASSUME NEW n \in Nat, NEW lines, AreLines(lines, n), NEW rules, Rules(rules)
    PROVE  /\ Finals(lines, rules) \in Seq(Nat) /\ Len(Finals(lines, rules)) = n
           /\ Bases(lines) \in Seq(Nat) /\ Len(Bases(lines)) = n
           /\ \A i \in 1..n : /\ Finals(lines, rules)[i] = LineFinal(lines[i], rules)
                              /\ Bases(lines)[i] = Base(lines[i])
                              /\ Base(lines[i]) \in Nat
                              /\ LineFinal(lines[i], rules) \in 0..Base(lines[i])
<1>1. ASSUME NEW i \in 1..n
      PROVE  Base(lines[i]) \in Nat /\ LineFinal(lines[i], rules) \in 0..Base(lines[i])
  <2>1. PICK line : line = lines[i]
    OBVIOUS
  <2>2. IsLine(line)
    BY <2>1 DEF AreLines
  <2>3. Base(line) \in Nat /\ LineFinal(line, rules) \in 0..Base(line)
    BY <2>2, BaseIsNat, LineFinalBounded
  <2> QED
    BY <2>1, <2>3
<1>2. DOMAIN lines = 1..n
  BY DEF AreLines
<1>3. \A i \in 1..n : LineFinal(lines[i], rules) \in Nat
  BY <1>1
<1>4. Finals(lines, rules) \in [1..n -> Nat] /\ Bases(lines) \in [1..n -> Nat]
  BY <1>1, <1>2, <1>3 DEF Finals, Bases
<1> QED
  BY <1>1, <1>2, <1>4, IsSequence DEF Finals, Bases

LEMMA PromoDiscountBounded ==
    ASSUME NEW promo, IsPromo(promo), NEW subtotal \in Nat
    PROVE  PromoDiscount(promo, subtotal) \in 0..subtotal
<1>1. CASE promo.kind = "percentage"
  <2>1. promo.points \in 1..10000
    BY <1>1 DEF IsPromo, NoPromo, IsDiscount
  <2>2. PICK points \in 1..10000 : points = promo.points
    BY <2>1
  <2>3. points \in Nat /\ points <= 10000
    OBVIOUS
  <2>4. Percent(subtotal, points) \in 0..subtotal
    BY <2>3, PercentBounded
  <2> QED
    BY <1>1, <2>2, <2>4 DEF PromoDiscount
<1>2. CASE promo.kind # "percentage"
  <2>1. promo.amount \in Nat
    BY DEF IsPromo, NoPromo, IsDiscount
  <2>2. AtMost(promo.amount, subtotal) \in 0..subtotal
    BY <2>1, AtMostBounded
  <2> QED
    BY <1>2, <2>2 DEF PromoDiscount
<1> QED
  BY <1>1, <1>2

(* Shares take a discount off the prices.                                  *)
Spread(n, finals, d, shares) ==
    /\ shares \in Seq(Nat) /\ Len(shares) = n
    /\ d \in Nat /\ d <= AddUp(finals) /\ AddUp(shares) = d

LEMMA SpreadNothing ==
    ASSUME NEW n \in Nat, NEW finals \in Seq(Nat), NEW zeros, zeros = [i \in 1..n |-> 0]
    PROVE  Spread(n, finals, 0, zeros)
<1>1. zeros \in [1..n -> Nat]
  OBVIOUS
<1>2. zeros \in Seq(Nat) /\ Len(zeros) = n
  BY <1>1, IsSequence
<1>3. PICK S : S = 1..n
  OBVIOUS
<1>4. IsFiniteSet(S)
  BY <1>3, FS_Interval
<1>5. \A i \in S : zeros[i] \in Int /\ zeros[i] = zeros[i] + zeros[i]
  BY <1>3
<1>6. SumFunctionOnSet(zeros, S) = SumFunctionOnSet(zeros, S) + SumFunctionOnSet(zeros, S)
  BY <1>4, <1>5, SumOfSums
<1>7. SumFunctionOnSet(zeros, S) \in Int
  BY <1>4, <1>5, SumIsInt
<1>8. PICK z \in Int : z = SumFunctionOnSet(zeros, S)
  BY <1>7
<1>9. z = 0
  BY <1>6, <1>8
<1>10. AddUp(zeros) = 0
  BY <1>1, <1>3, <1>8, <1>9 DEF AddUp, SumFunction
<1>11. AddUp(finals) \in Nat
  BY AddUpIsNat
<1> QED
  BY <1>2, <1>10, <1>11 DEF Spread

DiscountOf(promo, subtotal) == IF promo = NoPromo THEN 0 ELSE PromoDiscount(promo, subtotal)

LEMMA Calculates ==
    ASSUME NEW n \in Nat \ {0}, NEW lines, AreLines(lines, n), NEW rules, Rules(rules),
           NEW promo, IsPromo(promo), NEW finals, finals = Finals(lines, rules),
           NEW d, d = DiscountOf(promo, AddUp(finals))
    PROVE  \E shares :
              /\ Spread(n, finals, d, shares)
              /\ d = 0 => shares = [i \in 1..n |-> 0]
              /\ Calculate(lines, rules, promo) =
                    QuoteOf(lines, finals, AddUp(Bases(lines)), AddUp(finals) - d, shares)
<1>1. finals \in Seq(Nat) /\ Len(finals) = n /\ DOMAIN lines = 1..n
  BY FinalsBounded DEF AreLines
<1>2. AddUp(finals) \in Nat
  BY <1>1, AddUpIsNat
<1>3. d \in Nat /\ d <= AddUp(finals)
  <2>1. CASE promo = NoPromo
    BY <1>2, <2>1 DEF DiscountOf
  <2>2. CASE promo # NoPromo
    <3>1. PICK subtotal \in Nat : subtotal = AddUp(finals)
      BY <1>2
    <3>2. PromoDiscount(promo, subtotal) \in 0..subtotal
      BY PromoDiscountBounded
    <3> QED
      BY <2>2, <3>1, <3>2 DEF DiscountOf
  <2> QED
    BY <2>1, <2>2
<1>4. PICK zeros : zeros = [i \in 1..n |-> 0]
  OBVIOUS
<1>5. PICK shares : shares = IF d = 0 THEN zeros ELSE Shares(finals, d)
  OBVIOUS
<1>6. Spread(n, finals, d, shares)
  <2>1. CASE d = 0
    BY <1>1, <1>4, <1>5, <2>1, SpreadNothing
  <2>2. CASE d # 0
    <3>1. AddUp(finals) # 0
      BY <1>2, <1>3, <2>2
    <3>2. /\ Shares(finals, d) \in Seq(Nat) /\ Len(Shares(finals, d)) = Len(finals)
          /\ AddUp(Shares(finals, d)) = d
      BY <1>1, <1>3, <3>1, SharesAddUp
    <3> QED
      BY <1>1, <1>3, <1>5, <2>2, <3>2 DEF Spread
  <2> QED
    BY <2>1, <2>2
<1>7. lines # <<>>
  <2> SUFFICES ASSUME lines = <<>> PROVE FALSE
    OBVIOUS
  <2>1. DOMAIN <<>> = {} /\ 1 \in 1..n
    OBVIOUS
  <2> QED
    BY <1>1, <2>1
<1>8. Calculate(lines, rules, promo) = FromFinals(lines, finals, promo)
  BY <1>7 DEF Calculate, Finals
<1>9. FromFinals(lines, finals, promo) = WithPromo(lines, finals, AddUp(finals), d)
  BY DEF FromFinals, Discounted, DiscountOf
<1>10. WithPromo(lines, finals, AddUp(finals), d) =
          QuoteOf(lines, finals, AddUp(Bases(lines)), AddUp(finals) - d, shares)
  BY <1>1, <1>4, <1>5 DEF WithPromo, Bases
<1> QED
  BY <1>4, <1>5, <1>6, <1>8, <1>9, <1>10

CartItem == [sku : DOMAIN SellerOf, quantity : Nat \ {0}]

LEMMA WorldFacts ==
    ASSUME NEW w, IsWorld(w)
    PROVE  /\ w.items \in Seq(CartItem) /\ Rules(w.rules) /\ IsPromo(w.promo)
           /\ \A i, j \in DOMAIN w.items : w.items[i].sku = w.items[j].sku => i = j
           /\ \A sku \in DOMAIN SellerOf : w.stock[sku] \in Nat /\ w.price[sku] \in Nat
BY DEF IsWorld, CartItem, Rules

LEMMA LinesAreLines ==
    ASSUME NEW w, IsWorld(w), NEW n \in Nat, NEW items \in Seq(CartItem), Len(items) = n
    PROVE  /\ AreLines(Lines(w, items), n)
           /\ \A i \in 1..n : /\ Lines(w, items)[i].sku = items[i].sku
                              /\ Lines(w, items)[i].seller \in Range(SellerOf)
<1>1. DOMAIN items = 1..n
  OBVIOUS
<1>2. ASSUME NEW i \in 1..n
      PROVE  /\ IsLine(Lines(w, items)[i]) /\ Lines(w, items)[i].sku = items[i].sku
             /\ Lines(w, items)[i].seller \in Range(SellerOf)
  <2>1. PICK sku \in DOMAIN SellerOf, quantity \in Nat \ {0} :
               sku = items[i].sku /\ quantity = items[i].quantity
    <3>1. items[i] \in CartItem
      BY <1>1
    <3> QED
      BY <3>1 DEF CartItem
  <2>2. Lines(w, items)[i] =
           [sku |-> sku, seller |-> SellerOf[sku], path |-> Path[sku],
            unit |-> w.price[sku], quantity |-> quantity]
    BY <1>1, <2>1 DEF Lines
  <2>3. w.price[sku] \in Nat
    BY WorldFacts
  <2>4. SellerOf[sku] \in Range(SellerOf)
    BY DEF Range
  <2> QED
    BY <2>1, <2>2, <2>3, <2>4 DEF IsLine
<1>3. DOMAIN Lines(w, items) = 1..n
  BY <1>1 DEF Lines
<1> QED
  BY <1>2, <1>3 DEF AreLines

LEMMA NoPromoIsPromo == IsPromo(NoPromo)
BY DEF IsPromo

(* Without a promo code a quote never fails for its amounts.               *)
LEMMA CalculatesBare ==
    ASSUME NEW n \in Nat \ {0}, NEW lines, AreLines(lines, n), NEW rules, Rules(rules),
           NEW finals, finals = Finals(lines, rules)
    PROVE  /\ Calculate(lines, rules, NoPromo).error = "none"
           /\ Calculate(lines, rules, NoPromo).total = AddUp(finals)
<1>1. PICK zeros : zeros = [i \in 1..n |-> 0]
  OBVIOUS
<1>2. DiscountOf(NoPromo, AddUp(finals)) = 0
  BY DEF DiscountOf
<1>3. Calculate(lines, rules, NoPromo) =
         QuoteOf(lines, finals, AddUp(Bases(lines)), AddUp(finals) - 0, zeros)
  BY <1>1, <1>2, NoPromoIsPromo, Calculates
<1>4. finals \in Seq(Nat) /\ Len(finals) = n
  BY FinalsBounded
<1>5. Fits(finals, zeros)
  <2>1. DOMAIN finals = 1..n /\ \A i \in 1..n : finals[i] \in Nat
    BY <1>4
  <2> QED
    BY <1>1, <2>1 DEF Fits
<1>6. PICK total \in Nat : total = AddUp(finals)
  BY <1>4, AddUpIsNat
<1>7. total - 0 = total
  OBVIOUS
<1> QED
  BY <1>3, <1>5, <1>6, <1>7 DEF QuoteOf

(* All that a quote without an error rests on.                             *)
Quoted(w, items, promo, n, lines, finals, d, shares) ==
    /\ n = Len(items) /\ n # 0 /\ n <= MaxLines
    /\ lines = Lines(w, items) /\ AreLines(lines, n)
    /\ finals = Finals(lines, w.rules) /\ d = DiscountOf(promo, AddUp(finals))
    /\ \A i \in 1..n : lines[i].unit # 0
    /\ promo # NoPromo => EnsureUsable(w, promo, AddUp(finals))
    /\ Spread(n, finals, d, shares) /\ Fits(finals, shares)
    /\ Quote(w, items, promo) =
          QuoteOf(lines, finals, AddUp(Bases(lines)), AddUp(finals) - d, shares)

LEMMA QuoteRestsOn ==
    ASSUME NEW w, IsWorld(w), NEW items \in Seq(CartItem), NEW promo, IsPromo(promo),
           Quote(w, items, promo).error = "none"
    PROVE  \E n, lines, finals, d, shares :
              n \in Nat /\ Quoted(w, items, promo, n, lines, finals, d, shares)
<1>1. PICK n \in Nat : n = Len(items)
  OBVIOUS
<1>2. PICK lines : lines = Lines(w, items)
  OBVIOUS
<1>3. AreLines(lines, n) /\ Rules(w.rules)
  BY <1>1, <1>2, LinesAreLines, WorldFacts
<1>4. PICK finals : finals = Finals(lines, w.rules)
  OBVIOUS
<1>5. PICK d : d = DiscountOf(promo, AddUp(finals))
  OBVIOUS
<1>6. items # <<>> /\ n <= MaxLines /\ Quote(w, items, promo) = QuoteLines(w, lines, promo)
  <2>1. ~ (items = <<>> \/ Len(items) > MaxLines)
    <3> SUFFICES ASSUME items = <<>> \/ Len(items) > MaxLines PROVE FALSE
      OBVIOUS
    <3>1. Quote(w, items, promo) = Refused("invalid_lines")
      BY DEF Quote
    <3> QED
      BY <3>1 DEF Refused
  <2>2. MaxLines \in Nat
    BY QuotationAssumption
  <2> QED
    BY <1>1, <1>2, <2>1, <2>2 DEF Quote
<1>7. n # 0
  BY <1>1, <1>6
<1>8. ~ (\E i \in DOMAIN lines : lines[i].unit = 0)
  <2> SUFFICES ASSUME \E i \in DOMAIN lines : lines[i].unit = 0 PROVE FALSE
    OBVIOUS
  <2>1. Quote(w, items, promo) = Refused("unpriced")
    BY <1>6 DEF QuoteLines
  <2> QED
    BY <2>1 DEF Refused
<1>9. Calculate(lines, w.rules, NoPromo).total = AddUp(finals)
  BY <1>3, <1>4, <1>7, CalculatesBare
<1>10. ~ (promo # NoPromo /\ ~ EnsureUsable(w, promo, AddUp(finals)))
  <2> SUFFICES ASSUME promo # NoPromo, ~ EnsureUsable(w, promo, AddUp(finals)) PROVE FALSE
    OBVIOUS
  <2>1. Quote(w, items, promo) = Refused("promo_code")
    BY <1>6, <1>8, <1>9 DEF QuoteLines
  <2> QED
    BY <2>1 DEF Refused
<1>11. Quote(w, items, promo) = Calculate(lines, w.rules, promo)
  BY <1>6, <1>8, <1>9, <1>10 DEF QuoteLines
<1>12. PICK shares :
          /\ Spread(n, finals, d, shares)
          /\ Calculate(lines, w.rules, promo) =
                QuoteOf(lines, finals, AddUp(Bases(lines)), AddUp(finals) - d, shares)
  BY <1>3, <1>4, <1>5, <1>7, Calculates
<1>13. Fits(finals, shares)
  <2> SUFFICES ASSUME ~ Fits(finals, shares) PROVE FALSE
    OBVIOUS
  <2>1. Quote(w, items, promo) = Refused("negative_amount")
    BY <1>11, <1>12 DEF QuoteOf
  <2> QED
    BY <2>1 DEF Refused
<1>14. \A i \in 1..n : lines[i].unit # 0
  BY <1>3, <1>8 DEF AreLines
<1>15. Quoted(w, items, promo, n, lines, finals, d, shares)
  BY <1>1, <1>2, <1>3, <1>4, <1>5, <1>6, <1>7, <1>10, <1>11, <1>12, <1>13, <1>14 DEF Quoted
<1> QED
  BY <1>15

(* Without its promo code it is a quote all the same.                      *)
LEMMA QuoteWithout ==
    ASSUME NEW w, IsWorld(w), NEW items \in Seq(CartItem), NEW promo, NEW n \in Nat, NEW lines,
           NEW finals, NEW d, NEW shares, Quoted(w, items, promo, n, lines, finals, d, shares)
    PROVE  /\ Quote(w, items, NoPromo).error = "none"
           /\ Quote(w, items, NoPromo).total = AddUp(finals)
<1>1. /\ n = Len(items) /\ n # 0 /\ n <= MaxLines
      /\ lines = Lines(w, items) /\ AreLines(lines, n)
      /\ finals = Finals(lines, w.rules) /\ \A i \in 1..n : lines[i].unit # 0
  BY DEF Quoted
<1>2. MaxLines \in Nat /\ items # <<>>
  BY <1>1, QuotationAssumption
<1>3. Quote(w, items, NoPromo) = QuoteLines(w, lines, NoPromo)
  BY <1>1, <1>2 DEF Quote
<1>4. ~ (\E i \in DOMAIN lines : lines[i].unit = 0)
  BY <1>1 DEF AreLines
<1>5. Quote(w, items, NoPromo) = Calculate(lines, w.rules, NoPromo)
  BY <1>3, <1>4 DEF QuoteLines
<1>6. Rules(w.rules)
  BY WorldFacts
<1> QED
  BY <1>1, <1>5, <1>6, CalculatesBare

-----------------------------------------------------------------------------
(* The order of a quote.                                                   *)

(* Prices of lines, each of which covers its share in the discount.        *)
Fair(quoted, n, bases, finals, shares) ==
    /\ DOMAIN quoted = 1..n
    /\ bases \in Seq(Nat) /\ Len(bases) = n /\ finals \in Seq(Nat) /\ Len(finals) = n
    /\ shares \in Seq(Nat) /\ Len(shares) = n
    /\ \A i \in 1..n :
          /\ quoted[i].base = bases[i] /\ quoted[i].promo = shares[i]
          /\ quoted[i].final = finals[i] - shares[i]
          /\ shares[i] <= finals[i] /\ finals[i] <= bases[i] /\ bases[i] > 0

LEMMA QuotedIsFair ==
    ASSUME NEW w, IsWorld(w), NEW items \in Seq(CartItem), NEW promo, NEW n \in Nat,
           NEW lines, NEW finals, NEW d, NEW shares,
           Quoted(w, items, promo, n, lines, finals, d, shares),
           NEW quote, quote = Quote(w, items, promo)
    PROVE  /\ Fair(quote.lines, n, Bases(lines), finals, shares)
           /\ \A i \in 1..n : /\ quote.lines[i].sku = items[i].sku
                              /\ quote.lines[i].seller \in Range(SellerOf)
           /\ Len(quote.lines) = n /\ quote.error = "none"
           /\ quote.total = AddUp(finals) - d
           /\ quote.discount = AddUp(Bases(lines)) - (AddUp(finals) - d)
<1>1. /\ n = Len(items) /\ lines = Lines(w, items) /\ AreLines(lines, n)
      /\ finals = Finals(lines, w.rules) /\ \A i \in 1..n : lines[i].unit # 0
      /\ Spread(n, finals, d, shares) /\ Fits(finals, shares)
      /\ quote = QuoteOf(lines, finals, AddUp(Bases(lines)), AddUp(finals) - d, shares)
  BY DEF Quoted
<1>2. PICK bases : bases = Bases(lines)
  OBVIOUS
<1>3. /\ finals \in Seq(Nat) /\ Len(finals) = n /\ bases \in Seq(Nat) /\ Len(bases) = n
      /\ \A i \in 1..n : /\ bases[i] = Base(lines[i]) /\ finals[i] \in 0..Base(lines[i])
                         /\ Base(lines[i]) \in Nat
  BY <1>1, <1>2, WorldFacts, FinalsBounded
<1>4. DOMAIN lines = 1..n /\ \A i \in 1..n : IsLine(lines[i])
  BY <1>1 DEF AreLines
<1>5. quote = [error |-> "none",
               lines |-> [i \in 1..n |->
                            [sku |-> lines[i].sku, seller |-> lines[i].seller,
                             base |-> Base(lines[i]), final |-> finals[i] - shares[i],
                             promo |-> shares[i]]],
               subtotal |-> AddUp(Bases(lines)),
               discount |-> AddUp(Bases(lines)) - (AddUp(finals) - d),
               total |-> AddUp(finals) - d]
  BY <1>1, <1>4 DEF QuoteOf
<1>6. ASSUME NEW i \in 1..n
      PROVE  /\ quote.lines[i].sku = lines[i].sku /\ quote.lines[i].seller = lines[i].seller
             /\ quote.lines[i].base = bases[i] /\ quote.lines[i].promo = shares[i]
             /\ quote.lines[i].final = finals[i] - shares[i]
  BY <1>3, <1>5
<1>7. ASSUME NEW i \in 1..n
      PROVE  shares[i] <= finals[i] /\ finals[i] <= bases[i] /\ bases[i] > 0
  <2>1. shares[i] <= finals[i]
    BY <1>1, <1>3 DEF Fits
  <2>2. bases[i] > 0
    BY <1>1, <1>3, <1>4, BaseIsNat
  <2>3. finals[i] <= bases[i]
    BY <1>3
  <2> QED BY <2>1, <2>2, <2>3
<1>8. shares \in Seq(Nat) /\ Len(shares) = n
  BY <1>1 DEF Spread
<1>9. DOMAIN quote.lines = 1..n
  BY <1>5
<1>10. Fair(quote.lines, n, bases, finals, shares)
  BY <1>3, <1>6, <1>7, <1>8, <1>9 DEF Fair
<1>11. \A i \in 1..n : /\ quote.lines[i].sku = items[i].sku
                       /\ quote.lines[i].seller \in Range(SellerOf)
  BY <1>1, <1>6, LinesAreLines
<1>12. Len(quote.lines) = n
  <2>1. PICK A : A = {quote.lines[i] : i \in 1..n}
    OBVIOUS
  <2>2. quote.lines \in [1..n -> A]
    BY <1>5, <2>1
  <2> QED BY <2>2, IsSequence
<1> QED BY <1>2, <1>5, <1>10, <1>11, <1>12

(* What the lines of an order cost, and the sum over its sellers.          *)
Column(quoted, field) == [i \in DOMAIN quoted |-> quoted[i][field]]
TotalsOf(quoted, field) == [s \in SellersIn(quoted) |-> Total(quoted, s, field)]

LEMMA SellersFinite ==
    ASSUME NEW n \in Nat, NEW quoted, DOMAIN quoted = 1..n
    PROVE  IsFiniteSet(SellersIn(quoted))
<1>1. IsFiniteSet(1..n)
  BY FS_Interval
<1>2. PICK seller : seller = [i \in 1..n |-> quoted[i].seller]
  OBVIOUS
<1>3. SellersIn(quoted) = {seller[i] : i \in 1..n}
  BY <1>2 DEF SellersIn
<1>4. seller \in [1..n -> SellersIn(quoted)]
  BY <1>2, <1>3
<1>5. \A s \in SellersIn(quoted) : \E i \in 1..n : seller[i] = s
  BY <1>3
<1>6. seller \in Surjection(1..n, SellersIn(quoted))
  BY <1>4, <1>5 DEF Surjection
<1> QED BY <1>1, <1>6, FS_Surjection

LEMMA TotalsAddUp ==
    ASSUME NEW n \in Nat, NEW quoted, DOMAIN quoted = 1..n, NEW field,
           \A i \in 1..n : Column(quoted, field)[i] \in Nat
    PROVE  /\ AddUp(TotalsOf(quoted, field)) = AddUp(Column(quoted, field))
           /\ \A s \in SellersIn(quoted) : TotalsOf(quoted, field)[s] \in Nat
<1>1. PICK val : val = Column(quoted, field)
  OBVIOUS
<1>2. PICK total : total = TotalsOf(quoted, field)
  OBVIOUS
<1>3. PICK C : C = SellersIn(quoted)
  OBVIOUS
<1>4. PICK class : class = [i \in 1..n |-> quoted[i].seller]
  OBVIOUS
<1>5. IsFiniteSet(1..n) /\ IsFiniteSet(C)
  BY <1>3, FS_Interval, SellersFinite
<1>6. DOMAIN val = 1..n /\ \A i \in 1..n : val[i] \in Nat
  BY <1>1 DEF Column
<1>7. ASSUME NEW s \in C
      PROVE  total[s] = SumFunctionOnSet(val, {i \in 1..n : class[i] = s})
  <2>1. total[s] = Total(quoted, s, field)
    BY <1>2, <1>3 DEF TotalsOf
  <2>2. {i \in 1..n : quoted[i].seller = s} = {i \in 1..n : class[i] = s}
    BY <1>4
  <2> QED BY <1>1, <2>1, <2>2 DEF Total, Column
<1>8. \A i \in 1..n : class[i] \in C
  BY <1>3, <1>4 DEF SellersIn
<1>9. Classes(1..n, class, val, C, total)
  <2>1. \A i \in 1..n : val[i] \in Int
    BY <1>6
  <2> QED BY <1>7, <1>8, <2>1 DEF Classes
<1>10. SumFunctionOnSet(total, C) = SumFunctionOnSet(val, 1..n)
  BY <1>5, <1>9, SumOfClasses
<1>11. ASSUME NEW s \in C PROVE total[s] \in Nat
  <2>1. PICK T : T = {i \in 1..n : class[i] = s}
    OBVIOUS
  <2>2. T \in SUBSET (1..n)
    BY <2>1
  <2>3. IsFiniteSet(T)
    BY <1>5, <2>2, FS_Subset
  <2>4. \A i \in T : val[i] \in Nat
    BY <1>6, <2>2
  <2>5. SumFunctionOnSet(val, T) \in Nat
    BY <2>3, <2>4, SumIsNat
  <2>6. total[s] = SumFunctionOnSet(val, T)
    BY <1>7, <2>1
  <2> QED BY <2>5, <2>6
<1>12. DOMAIN total = C
  BY <1>2, <1>3 DEF TotalsOf
<1> QED BY <1>1, <1>2, <1>3, <1>6, <1>10, <1>11, <1>12 DEF AddUp, SumFunction

(* What the columns of such lines add up to.                               *)
AddsUpTo(n, quoted, bases, finals, shares) ==
    /\ \A i \in 1..n : /\ Column(quoted, "base")[i] \in Nat
                       /\ Column(quoted, "final")[i] \in Nat
                       /\ Column(quoted, "final")[i] <= Column(quoted, "base")[i]
    /\ AddUp(Column(quoted, "base")) = AddUp(bases)
    /\ AddUp(Column(quoted, "final")) + AddUp(shares) = AddUp(finals)
    /\ AddUp([i \in DOMAIN quoted |-> PromoBasis(quoted[i])]) = AddUp(finals)
    /\ AddUp(bases) \in Nat /\ AddUp(finals) \in Nat /\ AddUp(shares) \in Nat

LEMMA FairColumns ==
    ASSUME NEW n \in Nat, NEW quoted, NEW bases, NEW finals, NEW shares,
           Fair(quoted, n, bases, finals, shares)
    PROVE  AddsUpTo(n, quoted, bases, finals, shares)
<1>1. /\ DOMAIN quoted = 1..n
      /\ bases \in Seq(Nat) /\ Len(bases) = n /\ finals \in Seq(Nat) /\ Len(finals) = n
      /\ shares \in Seq(Nat) /\ Len(shares) = n
  BY DEF Fair
<1>2. PICK base : base = Column(quoted, "base")
  OBVIOUS
<1>3. PICK final : final = Column(quoted, "final")
  OBVIOUS
<1>4. PICK before : before = [i \in DOMAIN quoted |-> PromoBasis(quoted[i])]
  OBVIOUS
<1>5. ASSUME NEW i \in 1..n
      PROVE  /\ bases[i] \in Nat /\ finals[i] \in Nat /\ shares[i] \in Nat
             /\ base[i] = bases[i] /\ final[i] = finals[i] - shares[i]
             /\ shares[i] <= finals[i] /\ finals[i] <= bases[i]
             /\ before[i] = final[i] + shares[i]
  <2>1. bases[i] \in Nat /\ finals[i] \in Nat /\ shares[i] \in Nat
    BY <1>1
  <2>2. /\ quoted[i].base = bases[i] /\ quoted[i].promo = shares[i]
        /\ quoted[i].final = finals[i] - shares[i]
        /\ shares[i] <= finals[i] /\ finals[i] <= bases[i]
    BY DEF Fair
  <2>3. base[i] = quoted[i].base /\ final[i] = quoted[i].final
    BY <1>1, <1>2, <1>3 DEF Column
  <2>4. before[i] = quoted[i].final + quoted[i].promo
    BY <1>1, <1>4 DEF PromoBasis
  <2> QED BY <2>1, <2>2, <2>3, <2>4
<1>6. ASSUME NEW i \in 1..n
      PROVE  /\ base[i] \in Nat /\ final[i] \in Nat /\ final[i] <= base[i]
             /\ before[i] = finals[i] /\ before[i] \in Int
  BY <1>5
<1>7. DOMAIN base = 1..n /\ DOMAIN final = 1..n /\ DOMAIN before = 1..n
  BY <1>1, <1>2, <1>3, <1>4 DEF Column
<1>8. DOMAIN bases = 1..n /\ DOMAIN finals = 1..n /\ DOMAIN shares = 1..n
  BY <1>1
<1>9. IsFiniteSet(1..n)
  BY FS_Interval
<1>10. SumFunctionOnSet(base, 1..n) = SumFunctionOnSet(bases, 1..n)
  <2>1. \A i \in 1..n : base[i] = bases[i] /\ base[i] \in Int
    BY <1>5
  <2> QED BY <1>9, <2>1, SumsSame
<1>11. SumFunctionOnSet(before, 1..n) = SumFunctionOnSet(finals, 1..n)
  BY <1>5, <1>6, <1>9, SumsSame
<1>12. SumFunctionOnSet(before, 1..n) =
          SumFunctionOnSet(final, 1..n) + SumFunctionOnSet(shares, 1..n)
  <2>1. \A i \in 1..n : final[i] \in Int /\ shares[i] \in Int /\ before[i] = final[i] + shares[i]
    BY <1>5, <1>6
  <2> QED BY <1>9, <2>1, SumOfSums
<1>13. SumFunctionOnSet(final, 1..n) \in Nat
  BY <1>6, <1>9, SumIsNat
<1>14. AddUp(bases) \in Nat /\ AddUp(finals) \in Nat /\ AddUp(shares) \in Nat
  BY <1>1, AddUpIsNat
<1>15. AddUp(base) = AddUp(bases) /\ AddUp(before) = AddUp(finals)
  BY <1>7, <1>8, <1>10, <1>11 DEF AddUp, SumFunction
<1>16. /\ AddUp(final) \in Nat /\ AddUp(finals) = AddUp(final) + AddUp(shares)
  BY <1>7, <1>8, <1>11, <1>12, <1>13 DEF AddUp, SumFunction
<1>17. AddUp(final) + AddUp(shares) = AddUp(finals)
  BY <1>16
<1> QED BY <1>2, <1>3, <1>4, <1>6, <1>14, <1>15, <1>17 DEF AddsUpTo

LEMMA CostIsNat == ASSUME NEW subtotal PROVE Cost(subtotal) \in Nat
BY QuotationAssumption DEF Cost

LEMMA PartsAddUp ==
    ASSUME NEW C, IsFiniteSet(C), NEW bases, NEW finals, DOMAIN bases = C, DOMAIN finals = C,
           \A s \in C : bases[s] \in Nat /\ finals[s] \in Nat /\ finals[s] <= bases[s],
           NEW lines, NEW parts, parts = [s \in C |-> NewPart(bases[s], finals[s])],
           NEW order, order = NewOrder(lines, parts)
    PROVE  /\ order.subtotal = AddUp(bases)
           /\ order.discount + AddUp(finals) = AddUp(bases)
           /\ order.total = AddUp(finals) + order.shipping
           /\ order.discount \in Nat /\ order.shipping \in Nat
           /\ AddUp(finals) \in Nat /\ AddUp(bases) \in Nat
<1>1. PICK subtotal : subtotal = [s \in C |-> parts[s]["subtotal"]]
  OBVIOUS
<1>2. PICK discount : discount = [s \in C |-> parts[s]["discount"]]
  OBVIOUS
<1>3. PICK shipping : shipping = [s \in C |-> parts[s]["shipping"]]
  OBVIOUS
<1>4. PICK total : total = [s \in C |-> parts[s]["total"]]
  OBVIOUS
<1>5. DOMAIN parts = C
  OBVIOUS
<1>6. /\ order.subtotal = AddUp(subtotal) /\ order.discount = AddUp(discount)
      /\ order.shipping = AddUp(shipping) /\ order.total = AddUp(total)
  BY <1>1, <1>2, <1>3, <1>4, <1>5 DEF NewOrder, Sum
<1>7. ASSUME NEW s \in C
      PROVE  /\ subtotal[s] = bases[s] /\ discount[s] = bases[s] - finals[s]
             /\ shipping[s] = Cost(finals[s]) /\ total[s] = finals[s] + Cost(finals[s])
  <2>1. parts[s] = NewPart(bases[s], finals[s])
    OBVIOUS
  <2> QED BY <1>1, <1>2, <1>3, <1>4, <2>1 DEF NewPart
<1>8. ASSUME NEW s \in C
      PROVE  /\ subtotal[s] = bases[s] /\ subtotal[s] \in Int
             /\ discount[s] \in Nat /\ shipping[s] \in Nat
             /\ finals[s] \in Nat /\ bases[s] \in Nat
             /\ bases[s] = discount[s] + finals[s] /\ total[s] = finals[s] + shipping[s]
  <2>1. bases[s] \in Nat /\ finals[s] \in Nat /\ finals[s] <= bases[s]
    OBVIOUS
  <2>2. Cost(finals[s]) \in Nat
    BY CostIsNat
  <2> QED BY <1>7, <2>1, <2>2
<1>9. /\ DOMAIN subtotal = C /\ DOMAIN discount = C /\ DOMAIN shipping = C
      /\ DOMAIN total = C
  BY <1>1, <1>2, <1>3, <1>4
<1>10. SumFunctionOnSet(subtotal, C) = SumFunctionOnSet(bases, C)
  BY <1>8, SumsSame
<1>11. SumFunctionOnSet(bases, C) = SumFunctionOnSet(discount, C) + SumFunctionOnSet(finals, C)
  <2>1. \A s \in C : /\ discount[s] \in Int /\ finals[s] \in Int
                     /\ bases[s] = discount[s] + finals[s]
    BY <1>8
  <2> QED BY <2>1, SumOfSums
<1>12. SumFunctionOnSet(total, C) = SumFunctionOnSet(finals, C) + SumFunctionOnSet(shipping, C)
  <2>1. \A s \in C : /\ finals[s] \in Int /\ shipping[s] \in Int
                     /\ total[s] = finals[s] + shipping[s]
    BY <1>8
  <2> QED BY <2>1, SumOfSums
<1>13. /\ SumFunctionOnSet(discount, C) \in Nat /\ SumFunctionOnSet(shipping, C) \in Nat
       /\ SumFunctionOnSet(finals, C) \in Nat /\ SumFunctionOnSet(bases, C) \in Nat
  BY <1>8, SumIsNat
<1> QED BY <1>6, <1>9, <1>10, <1>11, <1>12, <1>13 DEF AddUp, SumFunction

LEMMA OrderAddsUp ==
    ASSUME NEW n \in Nat, NEW quoted, NEW bases, NEW finals, NEW shares,
           Fair(quoted, n, bases, finals, shares),
           NEW order, order = Order(quoted)
    PROVE  /\ order.total - order.shipping = AddUp(finals) - AddUp(shares)
           /\ order.discount = AddUp(bases) - (AddUp(finals) - AddUp(shares))
           /\ order.basis = AddUp(finals)
           /\ order.error = "none" /\ DOMAIN order.parts = SellersIn(quoted)
           /\ {order.subtotal, order.discount, order.shipping, order.total, order.basis}
                 \subseteq Nat
<1>0. AddsUpTo(n, quoted, bases, finals, shares)
  BY FairColumns
<1>1. DOMAIN quoted = 1..n
  BY DEF Fair
<1>2. PICK C : C = SellersIn(quoted)
  OBVIOUS
<1>3. PICK tb : tb = TotalsOf(quoted, "base")
  OBVIOUS
<1>4. PICK tf : tf = TotalsOf(quoted, "final")
  OBVIOUS
<1>5. IsFiniteSet(C) /\ DOMAIN tb = C /\ DOMAIN tf = C
  BY <1>1, <1>2, <1>3, <1>4, SellersFinite DEF TotalsOf
<1>6. /\ AddUp(tb) = AddUp(bases) /\ AddUp(tf) + AddUp(shares) = AddUp(finals)
      /\ \A s \in C : tb[s] \in Nat /\ tf[s] \in Nat
  <2>1. /\ \A i \in 1..n : Column(quoted, "base")[i] \in Nat
        /\ \A i \in 1..n : Column(quoted, "final")[i] \in Nat
        /\ AddUp(Column(quoted, "base")) = AddUp(bases)
        /\ AddUp(Column(quoted, "final")) + AddUp(shares) = AddUp(finals)
    BY <1>0 DEF AddsUpTo
  <2>2. /\ AddUp(TotalsOf(quoted, "base")) = AddUp(Column(quoted, "base"))
        /\ \A s \in SellersIn(quoted) : TotalsOf(quoted, "base")[s] \in Nat
    BY <1>1, <2>1, TotalsAddUp
  <2>3. /\ AddUp(TotalsOf(quoted, "final")) = AddUp(Column(quoted, "final"))
        /\ \A s \in SellersIn(quoted) : TotalsOf(quoted, "final")[s] \in Nat
    BY <1>1, <2>1, TotalsAddUp
  <2> QED BY <1>2, <1>3, <1>4, <2>1, <2>2, <2>3
<1>7. ASSUME NEW s \in C PROVE tf[s] <= tb[s]
  <2>1. PICK T : T = {i \in 1..n : quoted[i].seller = s}
    OBVIOUS
  <2>2. T \in SUBSET (1..n)
    BY <2>1
  <2>3. IsFiniteSet(1..n)
    BY FS_Interval
  <2>4. IsFiniteSet(T)
    BY <2>2, <2>3, FS_Subset
  <2>5. PICK a : a = Column(quoted, "final")
    OBVIOUS
  <2>6. PICK b : b = Column(quoted, "base")
    OBVIOUS
  <2>7. \A i \in 1..n : a[i] \in Nat /\ b[i] \in Nat /\ a[i] <= b[i]
    BY <1>0, <2>5, <2>6 DEF AddsUpTo
  <2>8. \A i \in T : a[i] \in Int /\ b[i] \in Int /\ a[i] <= b[i]
    BY <2>2, <2>7
  <2>9. SumFunctionOnSet(a, T) <= SumFunctionOnSet(b, T)
    BY <2>4, <2>8, SumBounds
  <2>10. tf[s] = Total(quoted, s, "final") /\ tb[s] = Total(quoted, s, "base")
    BY <1>2, <1>3, <1>4 DEF TotalsOf
  <2>11. tf[s] = SumFunctionOnSet(a, T) /\ tb[s] = SumFunctionOnSet(b, T)
    BY <1>1, <2>1, <2>5, <2>6, <2>10 DEF Total, Column
  <2> QED BY <2>9, <2>11
<1>8. PICK parts : parts = [s \in C |-> NewPart(tb[s], tf[s])]
  OBVIOUS
<1>9. parts = [s \in SellersIn(quoted) |-> Part(quoted, s)]
  BY <1>2, <1>3, <1>4, <1>8 DEF Part, TotalsOf
<1>10. order = NewOrder(quoted, parts)
  BY <1>9 DEF Order
<1>11. /\ order.subtotal = AddUp(tb)
       /\ order.discount + AddUp(tf) = AddUp(tb)
       /\ order.total = AddUp(tf) + order.shipping
       /\ order.discount \in Nat /\ order.shipping \in Nat
       /\ AddUp(tf) \in Nat /\ AddUp(tb) \in Nat
  BY <1>5, <1>6, <1>7, <1>8, <1>10, PartsAddUp
<1>12. order.error = "none" /\ order.parts = parts
       /\ order.basis = AddUp([i \in DOMAIN quoted |-> PromoBasis(quoted[i])])
  BY <1>10 DEF NewOrder
<1>13. order.basis = AddUp(finals)
  BY <1>0, <1>12 DEF AddsUpTo
<1>14. AddUp(finals) \in Nat /\ AddUp(shares) \in Nat
  BY <1>0 DEF AddsUpTo
<1>15. order.total - order.shipping = AddUp(finals) - AddUp(shares)
  BY <1>6, <1>11, <1>14
<1>16. order.discount = AddUp(bases) - (AddUp(finals) - AddUp(shares))
  BY <1>6, <1>11, <1>14
<1>17. order.subtotal \in Nat /\ order.total \in Nat /\ order.basis \in Nat
  BY <1>11, <1>13, <1>14
<1>18. DOMAIN order.parts = SellersIn(quoted)
  BY <1>2, <1>8, <1>12
<1> QED BY <1>11, <1>12, <1>13, <1>15, <1>16, <1>17, <1>18

(* What Place checks once more, a quote of different SKUs has.             *)
LEMMA QuoteIsOrdered ==
    ASSUME NEW w, IsWorld(w), NEW items \in Seq(CartItem), NEW promo, NEW n \in Nat,
           \A i, j \in DOMAIN items : items[i].sku = items[j].sku => i = j,
           NEW lines, NEW finals, NEW d, NEW shares,
           Quoted(w, items, promo, n, lines, finals, d, shares),
           NEW quote, quote = Quote(w, items, promo)
    PROVE  FromQuote(quote) = Order(quote.lines)
<1>1. n = Len(items) /\ n <= MaxLines
  BY DEF Quoted
<1>2. PICK ql : ql = quote.lines
  OBVIOUS
<1>3. Fair(ql, n, Bases(lines), finals, shares) /\ Len(ql) = n /\ quote.error = "none"
  BY <1>2, QuotedIsFair
<1>4. \A i \in 1..n : ql[i].sku = items[i].sku
  BY <1>2, QuotedIsFair
<1>5. DOMAIN ql = 1..n /\ DOMAIN items = 1..n
  BY <1>1, <1>3 DEF Fair
<1>6. ASSUME NEW i \in 1..n
      PROVE  ql[i].base > 0 /\ ql[i].final \in 0..ql[i].base
  <2>1. /\ finals \in Seq(Nat) /\ Len(finals) = n /\ shares \in Seq(Nat) /\ Len(shares) = n
        /\ Bases(lines) \in Seq(Nat) /\ Len(Bases(lines)) = n
    BY <1>3 DEF Fair
  <2>2. /\ ql[i].base = Bases(lines)[i] /\ ql[i].final = finals[i] - shares[i]
        /\ shares[i] <= finals[i] /\ finals[i] <= Bases(lines)[i] /\ Bases(lines)[i] > 0
    BY <1>3 DEF Fair
  <2>3. finals[i] \in Nat /\ shares[i] \in Nat /\ Bases(lines)[i] \in Nat
    BY <2>1
  <2> QED BY <2>2, <2>3
<1>7. ASSUME NEW i \in 1..n, NEW j \in 1..n, ql[i].sku = ql[j].sku
      PROVE  i = j
  BY <1>4, <1>5, <1>7
<1>8. ValidItems(ql)
  BY <1>5, <1>6, <1>7 DEF ValidItems
<1>9. ~(Len(ql) > MaxLines)
  BY <1>1, <1>3, QuotationAssumption
<1> QED BY <1>2, <1>3, <1>8, <1>9 DEF FromQuote

LEMMA NoOrderFails == ASSUME NEW error PROVE NoOrder(error).error = error
BY DEF NoOrder

(* A draft is an order only of a quote of everything in the cart.          *)
LEMMA DraftIsQuoted ==
    ASSUME NEW w, IsWorld(w), Draft(w).error = "none"
    PROVE  /\ Draft(w) = FromQuote(Quote(w, w.items, w.promo))
           /\ Quote(w, w.items, w.promo).error = "none"
<1>1. PICK quote : quote = Quote(w, w.items, w.promo)
  OBVIOUS
<1>2. Draft(w) = FromQuote(quote)
  BY <1>1, NoOrderFails DEF Draft
<1>3. quote.error = "none"
  BY <1>2, NoOrderFails DEF FromQuote
<1> QED BY <1>1, <1>2, <1>3

LEMMA DraftKeepsQuote ==
    ASSUME NEW w, IsWorld(w), NEW order, order = Draft(w), order.error = "none",
           NEW quote, quote = Quote(w, w.items, w.promo),
           NEW bare, bare = Quote(w, w.items, NoPromo)
    PROVE  /\ order.total - order.shipping = quote.total
           /\ order.discount = quote.discount
           /\ w.promo # NoPromo =>
                 /\ EnsureUsable(w, w.promo, order.basis)
                 /\ PromoDiscount(w.promo, order.basis) = bare.total - quote.total
<1>1. PICK items : items = w.items
  OBVIOUS
<1>2. PICK promo : promo = w.promo
  OBVIOUS
<1>3. /\ items \in Seq(CartItem) /\ IsPromo(promo)
      /\ \A i, j \in DOMAIN items : items[i].sku = items[j].sku => i = j
  BY <1>1, <1>2, WorldFacts
<1>4. quote = Quote(w, items, promo) /\ quote.error = "none" /\ order = FromQuote(quote)
  BY <1>1, <1>2, DraftIsQuoted
<1>5. \E n, lines, finals, d, shares :
         n \in Nat /\ Quoted(w, items, promo, n, lines, finals, d, shares)
  BY <1>3, <1>4, QuoteRestsOn
<1>6. PICK n, lines, finals, d, shares :
         n \in Nat /\ Quoted(w, items, promo, n, lines, finals, d, shares)
  BY <1>5
<1>7. order = Order(quote.lines)
  BY <1>3, <1>4, <1>6, QuoteIsOrdered
<1>8. /\ Fair(quote.lines, n, Bases(lines), finals, shares)
      /\ quote.total = AddUp(finals) - d
      /\ quote.discount = AddUp(Bases(lines)) - (AddUp(finals) - d)
  BY <1>3, <1>4, <1>6, QuotedIsFair
<1>9. /\ order.total - order.shipping = AddUp(finals) - AddUp(shares)
      /\ order.discount = AddUp(Bases(lines)) - (AddUp(finals) - AddUp(shares))
      /\ order.basis = AddUp(finals)
  BY <1>6, <1>7, <1>8, OrderAddsUp
<1>10. /\ d = DiscountOf(promo, AddUp(finals)) /\ Spread(n, finals, d, shares)
       /\ promo # NoPromo => EnsureUsable(w, promo, AddUp(finals))
       /\ finals = Finals(lines, w.rules)
  BY <1>6 DEF Quoted
<1>11. d = AddUp(shares) /\ d \in Nat
  BY <1>10 DEF Spread
<1>12. AddUp(finals) \in Nat
  BY <1>8, AddUpIsNat DEF Fair
<1>13. bare.total = AddUp(finals)
  BY <1>1, <1>3, <1>6, QuoteWithout
<1>14. promo # NoPromo => PromoDiscount(promo, AddUp(finals)) = d
  BY <1>10 DEF DiscountOf
<1>15. AddUp(finals) - (AddUp(finals) - d) = d
  BY <1>11, <1>12
<1>16. promo # NoPromo => PromoDiscount(promo, order.basis) = bare.total - quote.total
  BY <1>8, <1>9, <1>13, <1>14, <1>15
<1>17. promo # NoPromo => EnsureUsable(w, promo, order.basis)
  BY <1>9, <1>10
<1> QED BY <1>2, <1>8, <1>9, <1>11, <1>16, <1>17

LEMMA DraftTyped ==
    ASSUME NEW w, IsWorld(w), NEW order, order = Draft(w)
    PROVE  /\ {order.subtotal, order.discount, order.shipping, order.total, order.basis}
                 \subseteq Nat
           /\ DOMAIN order.parts \subseteq Range(SellerOf)
<1>1. CASE \E error : order = NoOrder(error)
  BY <1>1 DEF NoOrder
<1>2. CASE order.error = "none"
  <2>1. PICK items : items = w.items
    OBVIOUS
  <2>2. PICK promo : promo = w.promo
    OBVIOUS
  <2>3. PICK quote : quote = Quote(w, items, promo)
    OBVIOUS
  <2>4. /\ items \in Seq(CartItem) /\ IsPromo(promo)
        /\ \A i, j \in DOMAIN items : items[i].sku = items[j].sku => i = j
    BY <2>1, <2>2, WorldFacts
  <2>5. quote.error = "none" /\ order = FromQuote(quote)
    BY <1>2, <2>1, <2>2, <2>3, DraftIsQuoted
  <2>6. \E n, lines, finals, d, shares :
           n \in Nat /\ Quoted(w, items, promo, n, lines, finals, d, shares)
    BY <2>3, <2>4, <2>5, QuoteRestsOn
  <2>7. PICK n, lines, finals, d, shares :
           n \in Nat /\ Quoted(w, items, promo, n, lines, finals, d, shares)
    BY <2>6
  <2>8. order = Order(quote.lines)
    BY <2>3, <2>4, <2>5, <2>7, QuoteIsOrdered
  <2>9. Fair(quote.lines, n, Bases(lines), finals, shares)
    BY <2>3, <2>4, <2>7, QuotedIsFair
  <2>10. \A i \in 1..n : quote.lines[i].seller \in Range(SellerOf)
    BY <2>3, <2>4, <2>7, QuotedIsFair
  <2>11. /\ DOMAIN order.parts = SellersIn(quote.lines)
         /\ {order.subtotal, order.discount, order.shipping, order.total, order.basis}
               \subseteq Nat
    BY <2>7, <2>8, <2>9, OrderAddsUp
  <2>12. DOMAIN quote.lines = 1..n
    BY <2>9 DEF Fair
  <2>13. SellersIn(quote.lines) \subseteq Range(SellerOf)
    BY <2>10, <2>12 DEF SellersIn
  <2> QED BY <2>11, <2>13
<1>3. (\E error : order = NoOrder(error)) \/ order.error = "none"
  <2>1. PICK quote : quote = Quote(w, w.items, w.promo)
    OBVIOUS
  <2>2. (\E error : order = NoOrder(error)) \/ order = FromQuote(quote)
    BY <2>1 DEF Draft
  <2>3. (\E error : FromQuote(quote) = NoOrder(error)) \/ FromQuote(quote) = Order(quote.lines)
    BY DEF FromQuote
  <2>4. Order(quote.lines).error = "none"
    BY DEF Order, NewOrder
  <2> QED BY <2>2, <2>3, <2>4
<1> QED BY <1>1, <1>2, <1>3

-----------------------------------------------------------------------------
(* The preview.                                                            *)

LEMMA KeepMembers ==
    ASSUME NEW A, NEW seq \in Seq(A), NEW kept
    PROVE  /\ Keep(seq, kept) \in Seq(A)
           /\ \A i \in DOMAIN Keep(seq, kept) :
                 Keep(seq, kept)[i] \in kept /\ Keep(seq, kept)[i] \in Range(seq)
<1>1. PICK chosen \in Seq(A) : chosen = Keep(seq, kept)
  BY KeepPicks
<1>2. PICK m : Picks(seq, kept, Len(seq), chosen, m)
  BY <1>1, KeepPicks
<1>3. ASSUME NEW i \in DOMAIN chosen
      PROVE  chosen[i] \in kept /\ chosen[i] \in Range(seq)
  <2>1. i \in 1..Len(chosen)
    BY <1>1
  <2>2. chosen[i] = seq[m[i]] /\ seq[m[i]] \in kept /\ m[i] \in 1..Len(seq)
    BY <1>2, <2>1 DEF Picks
  <2>3. m[i] \in DOMAIN seq
    BY <2>2
  <2> QED BY <2>2, <2>3 DEF Range
<1> QED BY <1>1, <1>3

(* The items of a preview are items of the cart that can be ordered.       *)
LEMMA PreviewItems ==
    ASSUME NEW w, IsWorld(w), NEW items, items = Priceable(w, Available(w))
    PROVE  /\ items \in Seq(CartItem)
           /\ \A i \in DOMAIN items : LineStatus(w, items[i]) = "available"
<1>1. PICK all \in Seq(CartItem) : all = w.items
  BY WorldFacts
<1>2. PICK ready : ready = {i \in Range(all) : LineStatus(w, i) = "available"}
  OBVIOUS
<1>3. PICK some : some = Available(w)
  OBVIOUS
<1>4. some = Keep(all, ready)
  BY <1>1, <1>2, <1>3 DEF Available
<1>5. some \in Seq(CartItem) /\ \A i \in DOMAIN some : some[i] \in ready
  BY <1>4, KeepMembers
<1>6. \A i \in DOMAIN some : LineStatus(w, some[i]) = "available"
  BY <1>2, <1>5
<1>7. CASE items = some
  BY <1>5, <1>6, <1>7
<1>8. CASE items = Exclude(w, some)
  <2>1. PICK priced : priced = {i \in Range(some) : Quote(w, <<i>>, NoPromo).error # "unpriced"}
    OBVIOUS
  <2>2. items = Keep(some, priced)
    BY <1>8, <2>1 DEF Exclude
  <2>3. /\ items \in Seq(CartItem)
        /\ \A i \in DOMAIN items : items[i] \in Range(some)
    BY <1>5, <2>2, KeepMembers
  <2>4. \A i \in Range(some) : LineStatus(w, i) = "available"
    BY <1>6 DEF Range
  <2> QED BY <2>3, <2>4
<1>9. items = some \/ items = Exclude(w, some)
  BY <1>3 DEF Priceable
<1> QED BY <1>7, <1>8, <1>9

LEMMA AvailableIsOffered ==
    ASSUME NEW w, NEW item, LineStatus(w, item) = "available"
    PROVE  item.sku \in w.offered
BY DEF LineStatus

(* A quote that fails has no lines.                                        *)
LEMMA RefusedHasNone ==
    ASSUME NEW w, NEW items, NEW promo, Quote(w, items, promo).error # "none"
    PROVE  Quote(w, items, promo).lines = <<>>
<1>1. PICK lines : lines = Lines(w, items)
  OBVIOUS
<1>2. PICK quote : quote = Quote(w, items, promo)
  OBVIOUS
<1>3. \/ \E error : quote = Refused(error)
      \/ quote = Calculate(lines, w.rules, promo)
  BY <1>1, <1>2 DEF Quote, QuoteLines
<1>4. \/ \E error : quote = Refused(error)
      \/ \E finals, base, total, shares : quote = QuoteOf(lines, finals, base, total, shares)
  <2>1. \/ \E error : Calculate(lines, w.rules, promo) = Refused(error)
        \/ \E finals : Calculate(lines, w.rules, promo) = FromFinals(lines, finals, promo)
    BY DEF Calculate
  <2>2. ASSUME NEW finals
        PROVE  \E base, total, shares :
                  FromFinals(lines, finals, promo) = QuoteOf(lines, finals, base, total, shares)
    <3>1. \E subtotal, discount :
             FromFinals(lines, finals, promo) = WithPromo(lines, finals, subtotal, discount)
      BY DEF FromFinals, Discounted
    <3>2. ASSUME NEW subtotal, NEW discount
          PROVE  \E base, total, shares :
                    WithPromo(lines, finals, subtotal, discount) =
                       QuoteOf(lines, finals, base, total, shares)
      BY DEF WithPromo
    <3> QED BY <3>1, <3>2
  <2> QED BY <1>3, <2>1, <2>2
<1>5. \E error : quote = Refused(error)
  <2>1. ASSUME NEW finals, NEW base, NEW total, NEW shares,
               quote = QuoteOf(lines, finals, base, total, shares)
        PROVE  \E error : quote = Refused(error)
    BY <1>2, <2>1 DEF QuoteOf
  <2> QED BY <1>4, <2>1
<1> QED BY <1>2, <1>5 DEF Refused

(* The quote of a preview is one with the promo code or without it; or no  *)
(* lines have a price.                                                     *)
LEMMA PreviewQuote ==
    ASSUME NEW w, NEW items, NEW quote, quote = QuoteOrNoPromo(w, items)
    PROVE  \/ quote.lines = <<>>
           \/ \E promo \in {w.promo, NoPromo} :
                 quote = Quote(w, items, promo) /\ quote.error = "none"
<1>1. CASE items = <<>>
  BY <1>1 DEF QuoteOrNoPromo, Refused
<1>2. CASE items # <<>>
  <2>1. \E promo \in {w.promo, NoPromo} : quote = Quote(w, items, promo)
    BY <1>2 DEF QuoteOrNoPromo, OrNoPromo
  <2> QED BY <2>1, RefusedHasNone
<1> QED BY <1>1, <1>2

LEMMA ViewTyped ==
    ASSUME NEW w, IsWorld(w), NEW v, v = Assemble(w)
    PROVE  v.total \in Nat /\ v.ready \in BOOLEAN
<1>1. PICK items \in Seq(CartItem) : items = Priceable(w, Available(w))
  BY PreviewItems
<1>2. PICK quote : quote = QuoteOrNoPromo(w, items)
  OBVIOUS
<1>3. PICK parcels : parcels = {s \in SellersIn(quote.lines) : Total(quote.lines, s, "final") > 0}
  OBVIOUS
<1>4. v = View(w, items, quote, parcels)
  BY <1>1, <1>2, <1>3 DEF Assemble, AssembleItems, Group
<1>5. v.ready \in BOOLEAN
  BY <1>4 DEF View
<1>6. PICK costs : costs = [s \in parcels |-> Cost(Total(quote.lines, s, "final"))]
  OBVIOUS
<1>7. v.total = IF parcels = {} THEN 0 ELSE quote.total + AddUp(costs)
  BY <1>4, <1>6 DEF View
<1>8. CASE quote.lines = <<>>
  <2>1. parcels = {}
    BY <1>3, <1>8 DEF SellersIn
  <2> QED BY <1>5, <1>7, <2>1
<1>9. ASSUME NEW promo \in {w.promo, NoPromo}, quote = Quote(w, items, promo),
             quote.error = "none"
      PROVE  v.total \in Nat
  <2>1. IsPromo(promo)
    BY WorldFacts, NoPromoIsPromo
  <2>2. \E n, lines, finals, d, shares :
           n \in Nat /\ Quoted(w, items, promo, n, lines, finals, d, shares)
    BY <1>1, <1>9, <2>1, QuoteRestsOn
  <2>3. PICK n, lines, finals, d, shares :
           n \in Nat /\ Quoted(w, items, promo, n, lines, finals, d, shares)
    BY <2>2
  <2>4. Fair(quote.lines, n, Bases(lines), finals, shares) /\ quote.total = AddUp(finals) - d
    BY <1>1, <1>9, <2>3, QuotedIsFair
  <2>5. DOMAIN quote.lines = 1..n /\ finals \in Seq(Nat)
    BY <2>4 DEF Fair
  <2>6. d \in Nat /\ d <= AddUp(finals)
    BY <2>3 DEF Quoted, Spread
  <2>7. AddUp(finals) \in Nat
    BY <2>5, AddUpIsNat
  <2>8. quote.total \in Nat
    BY <2>4, <2>6, <2>7
  <2>9. IsFiniteSet(parcels)
    <3>1. IsFiniteSet(SellersIn(quote.lines))
      BY <2>5, SellersFinite
    <3>2. parcels \in SUBSET SellersIn(quote.lines)
      BY <1>3
    <3> QED BY <3>1, <3>2, FS_Subset
  <2>10. DOMAIN costs = parcels /\ \A s \in parcels : costs[s] \in Nat
    BY <1>6, CostIsNat
  <2>11. AddUp(costs) \in Nat
    BY <2>9, <2>10, SumIsNat DEF AddUp, SumFunction
  <2> QED BY <1>7, <2>8, <2>11
<1> QED BY <1>2, <1>5, <1>8, <1>9, PreviewQuote

(* What is shown as ready is the cart as it is, on sale, with the quote    *)
(* that the order asks for.                                                *)
LEMMA ReadyIsQuoted ==
    ASSUME NEW w, IsWorld(w), Assemble(w).ready
    PROVE  /\ w.items # <<>>
           /\ \A i \in DOMAIN w.items : w.items[i].sku \in w.offered
           /\ Quote(w, w.items, w.promo).error = "none"
<1>1. PICK items : items = Priceable(w, Available(w))
  OBVIOUS
<1>2. PICK quote : quote = QuoteOrNoPromo(w, items)
  OBVIOUS
<1>3. PICK parcels : parcels = {s \in SellersIn(quote.lines) : Total(quote.lines, s, "final") > 0}
  OBVIOUS
<1>4. Assemble(w) = View(w, items, quote, parcels)
  BY <1>1, <1>2, <1>3 DEF Assemble, AssembleItems, Group
<1>5. /\ quote.error = "none" /\ parcels # {} /\ items = w.items
      /\ ~PromoRefused(w, items)
  BY <1>4 DEF View
<1>6. items # <<>>
  <2> SUFFICES ASSUME items = <<>> PROVE FALSE
    OBVIOUS
  <2>1. quote.lines = <<>>
    BY <1>2 DEF QuoteOrNoPromo, Refused
  <2>2. parcels = {}
    BY <1>3, <2>1 DEF SellersIn
  <2> QED BY <1>5, <2>2
<1>7. Quote(w, items, w.promo).error # "promo_code"
  BY <1>5, <1>6 DEF PromoRefused
<1>8. quote = Quote(w, items, w.promo)
  BY <1>2, <1>6, <1>7 DEF QuoteOrNoPromo, OrNoPromo
<1>9. \A i \in DOMAIN items : items[i].sku \in w.offered
  BY <1>1, PreviewItems, AvailableIsOffered
<1> QED BY <1>5, <1>6, <1>8, <1>9

LEMMA ReadyIsOrdered ==
    ASSUME NEW w, IsWorld(w), Assemble(w).ready
    PROVE  Draft(w).error = "none"
<1>1. PICK items : items = w.items
  OBVIOUS
<1>2. PICK promo : promo = w.promo
  OBVIOUS
<1>3. PICK quote : quote = Quote(w, items, promo)
  OBVIOUS
<1>4. /\ items # <<>> /\ \A i \in DOMAIN items : items[i].sku \in w.offered
      /\ quote.error = "none"
  BY <1>1, <1>2, <1>3, ReadyIsQuoted
<1>5. /\ items \in Seq(CartItem) /\ IsPromo(promo)
      /\ \A i, j \in DOMAIN items : items[i].sku = items[j].sku => i = j
  BY <1>1, <1>2, WorldFacts
<1>6. \E n, lines, finals, d, shares :
         n \in Nat /\ Quoted(w, items, promo, n, lines, finals, d, shares)
  BY <1>3, <1>4, <1>5, QuoteRestsOn
<1>7. FromQuote(quote) = Order(quote.lines)
  BY <1>3, <1>5, <1>6, QuoteIsOrdered
<1>8. Draft(w) = FromQuote(quote)
  BY <1>1, <1>2, <1>3, <1>4 DEF Draft
<1> QED BY <1>7, <1>8 DEF Order, NewOrder

-----------------------------------------------------------------------------
(* The customer's steps.                                                   *)

QInv ==
    /\ world \in Worlds
    /\ view = Unasked \/ view = Assemble(world)
    /\ placed = Unasked \/ placed = Draft(world)
    /\ placed # Unasked => view # Unasked

LEMMA QuotationInvariance == QuotationSpec => []QInv
<1>1. QuotationInit => QInv
  BY DEF QuotationInit, QInv
<1>2. QInv /\ [QuotationNext]_quotationVars => QInv'
  <2> SUFFICES ASSUME QInv, [QuotationNext]_quotationVars PROVE QInv'
    OBVIOUS
  <2>1. CASE Preview
    BY <2>1 DEF QInv, Preview
  <2>2. CASE Place
    BY <2>2 DEF QInv, Place
  <2>3. CASE UNCHANGED quotationVars
    BY <2>3 DEF QInv, quotationVars
  <2> QED BY <2>1, <2>2, <2>3 DEF QuotationNext
<1> QED BY <1>1, <1>2, PTL DEF QuotationSpec

(* No amount of a quote, a preview or an order is ever negative, and the   *)
(* parts of an order are of sellers: type correctness of preview and draft *)
(* for every cart, price, promotion and promo code the code admits.        *)
THEOREM QuotationTypeCorrect == QuotationSpec => []QuotationTypeOK
<1>1. QInv => QuotationTypeOK
  <2> SUFFICES ASSUME QInv PROVE QuotationTypeOK
    OBVIOUS
  <2>1. world \in Worlds /\ IsWorld(world)
    BY QuotationAssumption DEF QInv
  <2>2. DOMAIN world = WorldFields
    BY <2>1 DEF IsWorld
  <2>3. view # Unasked => view.total \in Nat /\ view.ready \in BOOLEAN
    BY <2>1, ViewTyped DEF QInv
  <2>4. placed # Unasked =>
          /\ {placed.subtotal, placed.discount, placed.shipping, placed.total,
              placed.basis} \subseteq Nat
          /\ DOMAIN placed.parts \subseteq Range(SellerOf)
    <3> SUFFICES ASSUME placed # Unasked
                 PROVE  /\ {placed.subtotal, placed.discount, placed.shipping, placed.total,
                            placed.basis} \subseteq Nat
                        /\ DOMAIN placed.parts \subseteq Range(SellerOf)
      OBVIOUS
    <3>1. placed = Draft(world)
      BY DEF QInv
    <3> QED BY <2>1, <3>1, DraftTyped
  <2> QED BY <2>1, <2>2, <2>3, <2>4 DEF QuotationTypeOK
<1> QED BY <1>1, QuotationInvariance, PTL

(* Adding up an order seller by seller loses nothing of the quote's total  *)
(* and discount, whatever the rules, the shares' rounding and the sellers; *)
(* and what the promo code is redeemed for gives that discount again.      *)
THEOREM AlwaysKeepsQuote == QuotationSpec => []OrderKeepsQuote
<1>1. QInv => OrderKeepsQuote
  <2> SUFFICES ASSUME QInv, Ordered PROVE OrderKeepsQuote
    BY DEF OrderKeepsQuote
  <2>1. IsWorld(world) /\ placed = Draft(world) /\ placed.error = "none"
    BY QuotationAssumption DEF QInv, Ordered
  <2>2. PICK quote : quote = Quote(world, world.items, world.promo)
    OBVIOUS
  <2>3. PICK bare : bare = Quote(world, world.items, NoPromo)
    OBVIOUS
  <2>4. /\ placed.total - placed.shipping = quote.total
        /\ placed.discount = quote.discount
        /\ world.promo # NoPromo =>
              /\ EnsureUsable(world, world.promo, placed.basis)
              /\ PromoDiscount(world.promo, placed.basis) = bare.total - quote.total
    BY <2>1, <2>2, <2>3, DraftKeepsQuote
  <2> QED BY <2>2, <2>3, <2>4 DEF OrderKeepsQuote
<1> QED BY <1>1, QuotationInvariance, PTL

(* PlaceOrder accepts every cart whose preview is ready for checkout, when *)
(* nothing changed between the two.                                        *)
THEOREM AlwaysReadyIsAccepted == QuotationSpec => []ReadyIsAccepted
<1>1. QInv => ReadyIsAccepted
  <2> SUFFICES ASSUME QInv, placed # Unasked, view.ready PROVE placed.error = "none"
    BY DEF ReadyIsAccepted
  <2>1. IsWorld(world) /\ placed = Draft(world) /\ view = Assemble(world)
    BY QuotationAssumption DEF QInv
  <2>2. Assemble(world).ready
    BY <2>1
  <2> QED BY <2>1, <2>2, ReadyIsOrdered
<1> QED BY <1>1, QuotationInvariance, PTL
=============================================================================
