---------------------------- MODULE SupplyProofs ----------------------------
(***************************************************************************)
(* Proofs about what serves the sellers: their stock, and their admission  *)
(* and settlement, for any instance of each.                               *)
(*                                                                         *)
(* The inventory: a reservation is sold and returned as a whole, whichever *)
(* lines the expiry job takes first; the row locks leave no cycle of       *)
(* sessions that wait; the inventory implements the specification          *)
(* Reservation; the quantities of an item keep within their limit and add  *)
(* up to its holds and its journal.                                        *)
(*                                                                         *)
(* Sellers: a seller is approved as it was submitted, whatever a request   *)
(* reads of a seller while others change it; rows and ratings keep their   *)
(* types; a completed order is settled with each of its sellers once.      *)
(***************************************************************************)
EXTENDS Inventory, Settlement, Sums

-----------------------------------------------------------------------------
(* The inventory.                                                          *)

(* The commands that select the rows of a whole reservation.               *)
Whole == {"reserve", "commit", "release", "restore"}

Typed ==
    /\ due \subseteq Reservations
    /\ hold \in [Reservations -> [Skus -> HoldStatus]]
    /\ cmd \in [Workers -> Commands]
    /\ want \in [Workers -> SUBSET Skus]
    /\ lock \in [Skus -> Workers \cup {None}]

(* The rows a transaction has locked or waits for: none without one, those *)
(* of every line when it is about a reservation, and it waits for later    *)
(* ones than it has locked.                                                *)
RowsOK(w) ==
    /\ cmd[w] = Idle => want[w] \cup Locked(w) = {}
    /\ cmd[w].op \in Whole => want[w] \cup Locked(w) = LineSkus(cmd[w].res)
    /\ \A s \in want[w], t \in Locked(w) : t < s

(* Only lines of a reservation have holds, and if one is not held and has  *)
(* not expired, they all have the same status.                             *)
Ended == {"none", "committed", "released", "restored"}

HoldsOK(r) ==
    /\ hold[r] \in [Skus -> HoldStatus]
    /\ \A s \in Skus \ LineSkus(r) : hold[r][s] = "none"
    /\ \A s, t \in LineSkus(r) : hold[r][s] \in Ended => hold[r][t] = hold[r][s]

IInv ==
    /\ Typed
    /\ \A w \in Workers : RowsOK(w)
    /\ \A r \in Reservations : HoldsOK(r)

-----------------------------------------------------------------------------
(* A set of stock items has a first one.                                   *)
LEMMA FirstIsMember ==
    ASSUME NEW S \in SUBSET Skus, S # {}
    PROVE  Min(S) \in S /\ \A y \in S : Min(S) <= y
<1>1. \E x \in S : \A y \in S : x <= y
  BY LeastNumber, InventoryAssumption
<1> QED
  BY <1>1 DEF Min

(* A set of stock items has a last one, since they are finitely many.      *)
LEMMA LastIsMember ==
    ASSUME NEW S \in SUBSET Skus, S # {}
    PROVE  \E x \in S : \A y \in S : y <= x
<1>1. S \in SUBSET Nat /\ IsFiniteSet(S)
  BY InventoryAssumption, FS_Subset
<1> QED
  BY <1>1, LastNumber

(* The units that reservations ask for of one item: what the lemmas about  *)
(* sums say of them.                                                       *)
LEMMA UnitsOfNone == ASSUME NEW s PROVE Units(s, {}) = 0
BY SumOfNone DEF Units

LEMMA UnitsAreNat ==
    ASSUME NEW s \in Skus, NEW S \in SUBSET Reservations, IsFiniteSet(S)
    PROVE  Units(s, S) \in Nat
<1>1. PICK asked : asked = [r \in Reservations |-> Lines[r][s]]
  OBVIOUS
<1>2. \A r \in S : asked[r] \in Nat
  BY <1>1, InventoryAssumption
<1>3. SumFunctionOnSet(asked, S) \in Nat
  BY <1>2, SumIsNat
<1> QED
  BY <1>1, <1>3 DEF Units

LEMMA UnitsWithout ==
    ASSUME NEW s \in Skus, NEW S \in SUBSET Reservations, IsFiniteSet(S), NEW r \in S
    PROVE  Units(s, S) = Lines[r][s] + Units(s, S \ {r})
<1>1. PICK asked : asked = [q \in Reservations |-> Lines[q][s]]
  OBVIOUS
<1>2. (\A q \in S : asked[q] \in Int) /\ asked[r] = Lines[r][s]
  BY <1>1, InventoryAssumption
<1>3. SumFunctionOnSet(asked, S) = asked[r] + SumFunctionOnSet(asked, S \ {r})
  BY <1>2, SumWithout
<1> QED
  BY <1>1, <1>2, <1>3 DEF Units

LEMMA UnitsOfParts ==
    ASSUME NEW s \in Skus, NEW S \in SUBSET Reservations, IsFiniteSet(S), NEW D \in SUBSET S
    PROVE  Units(s, S) = Units(s, D) + Units(s, S \ D)
<1>1. PICK asked : asked = [q \in Reservations |-> Lines[q][s]]
  OBVIOUS
<1>2. \A q \in S : asked[q] \in Int
  BY <1>1, InventoryAssumption
<1>3. SumFunctionOnSet(asked, S) = SumFunctionOnSet(asked, D) + SumFunctionOnSet(asked, S \ D)
  BY <1>2, SumOfParts
<1> QED
  BY <1>1, <1>3 DEF Units

-----------------------------------------------------------------------------
(* A command of a reservation names one.                                   *)
LEMMA CommandsNameReservations ==
    ASSUME NEW c \in Commands, c.op \in Whole
    PROVE  c.res \in Reservations
BY DEF Commands, Whole

-----------------------------------------------------------------------------
(* Transactions begin with the rows they select, add no other and give all *)
(* of them up at their end, whoever else works.                            *)

(* The one that begins waits for what it selected and holds nothing.       *)
LEMMA BeginKeeps ==
    ASSUME Typed, \A v \in Workers : RowsOK(v),
           NEW w \in Workers, NEW c \in Commands, NEW S \in SUBSET Skus,
           Begin(w, c, S), c.op # "none",
           c.op \in Whole => S = LineSkus(c.res)
    PROVE  /\ cmd' \in [Workers -> Commands]
           /\ want' \in [Workers -> SUBSET Skus]
           /\ lock' \in [Skus -> Workers \cup {None}]
           /\ \A v \in Workers : RowsOK(v)'
<1>1. /\ cmd' = [cmd EXCEPT ![w] = c] /\ want' = [want EXCEPT ![w] = S]
      /\ lock' = lock /\ cmd[w] = Idle
  BY DEF Begin
<1>2. Locked(w) = {}
  BY <1>1 DEF RowsOK
<1>3. \A v : Locked(v)' = Locked(v)
  BY <1>1 DEF Locked
<1>4. cmd'[w] = c /\ want'[w] = S
  BY <1>1 DEF Typed
<1>5. RowsOK(w)'
  <2>1. c # Idle
    BY DEF Idle
  <2> QED
    BY <1>2, <1>3, <1>4, <2>1 DEF RowsOK, LineSkus
<1>6. \A v \in Workers \ {w} : RowsOK(v)'
  BY <1>1, <1>3 DEF RowsOK, LineSkus, Typed
<1> QED
  BY <1>1, <1>5, <1>6 DEF Typed

(* A lock moves the first row waited for to those that are locked.         *)
LEMMA LockKeeps ==
    ASSUME Typed, None \notin Workers, \A v \in Workers : RowsOK(v),
           NEW w \in Workers, Lock(w)
    PROVE  /\ cmd' \in [Workers -> Commands]
           /\ want' \in [Workers -> SUBSET Skus]
           /\ lock' \in [Skus -> Workers \cup {None}]
           /\ \A v \in Workers : RowsOK(v)'
<1> DEFINE s == Min(want[w])
<1>1. s \in want[w] /\ s \in Skus /\ want[w] \subseteq Skus /\ \A y \in want[w] : s <= y
  BY FirstIsMember DEF Lock, Typed
<1>2. /\ lock[s] = None /\ lock' = [lock EXCEPT ![s] = w]
      /\ want' = [want EXCEPT ![w] = want[w] \ {s}] /\ cmd' = cmd
  BY DEF Lock
<1> HIDE DEF s
<1>3. Locked(w)' = Locked(w) \cup {s}
  BY <1>1, <1>2 DEF Locked, Typed
<1>4. \A v \in Workers \ {w} : Locked(v)' = Locked(v)
  BY <1>1, <1>2 DEF Locked, Typed
<1>5. want'[w] \cup Locked(w)' = want[w] \cup Locked(w)
  BY <1>1, <1>2, <1>3 DEF Typed
<1>6. \A v \in Workers \ {w} : want'[v] \cup Locked(v)' = want[v] \cup Locked(v)
  BY <1>2, <1>4 DEF Typed
<1>7. \A x \in want'[w], t \in Locked(w)' : t < x
  <2> SUFFICES ASSUME NEW x \in want'[w], NEW t \in Locked(w)' PROVE t < x
    OBVIOUS
  <2>1. x \in want[w] /\ x # s /\ x \in Nat /\ s \in Nat
    BY <1>1, <1>2, InventoryAssumption DEF Typed
  <2>2. CASE t = s
    BY <1>1, <2>1, <2>2
  <2>3. CASE t \in Locked(w)
    BY <2>1, <2>3 DEF RowsOK
  <2> QED
    BY <1>3, <2>2, <2>3
<1>8. RowsOK(w)'
  BY <1>2, <1>5, <1>7 DEF RowsOK, LineSkus
<1>9. \A v \in Workers \ {w} : RowsOK(v)'
  BY <1>2, <1>4, <1>6 DEF RowsOK, LineSkus, Typed
<1> QED
  BY <1>1, <1>2, <1>8, <1>9 DEF Typed

(* The end of a transaction frees its rows and no other's.                 *)
LEMMA EndKeeps ==
    ASSUME Typed, None \notin Workers, \A v \in Workers : RowsOK(v),
           NEW w \in Workers, End(w)
    PROVE  /\ cmd' \in [Workers -> Commands]
           /\ want' \in [Workers -> SUBSET Skus]
           /\ lock' \in [Skus -> Workers \cup {None}]
           /\ \A v \in Workers : RowsOK(v)'
<1>1. /\ cmd' = [cmd EXCEPT ![w] = Idle] /\ want' = [want EXCEPT ![w] = {}]
      /\ lock' = [s \in Skus |-> IF lock[s] = w THEN None ELSE lock[s]]
  BY DEF End
<1>2. Idle \in Commands /\ Idle.op \notin Whole
  BY DEF Idle, Commands, Whole
<1>3. Locked(w)' = {}
  BY <1>1 DEF Locked
<1>4. \A v \in Workers \ {w} : Locked(v)' = Locked(v)
  BY <1>1 DEF Locked
<1>5. cmd'[w] = Idle /\ want'[w] = {}
  BY <1>1 DEF Typed
<1>6. RowsOK(w)'
  BY <1>2, <1>3, <1>5 DEF RowsOK
<1>7. \A v \in Workers \ {w} : RowsOK(v)'
  BY <1>1, <1>4 DEF RowsOK, LineSkus, Typed
<1> QED
  BY <1>1, <1>2, <1>6, <1>7 DEF Typed

-----------------------------------------------------------------------------
(* A reservation on whose every line a transaction of it may take holds    *)
(* has a hold on every line afterwards.                                    *)
LEMMA ReserveKeeps ==
    ASSUME Typed, \A v \in Workers : RowsOK(v), \A r \in Reservations : HoldsOK(r),
           NEW w \in Workers, Reserve(w)
    PROVE  /\ hold' \in [Reservations -> [Skus -> HoldStatus]]
           /\ \A r \in Reservations : HoldsOK(r)'
<1>1. cmd[w].op = "reserve" /\ want[w] = {}
  BY DEF Reserve, Ready
<1>2. PICK r \in Reservations : r = cmd[w].res
  BY <1>1, CommandsNameReservations DEF Typed, Whole
<1> DEFINE new == {s \in Locked(w) : hold[r][s] = "none"}
           mine == [s \in Skus |-> IF s \in new THEN "held" ELSE hold[r][s]]
<1>3. Locked(w) = LineSkus(r)
  BY <1>1, <1>2 DEF RowsOK, Whole
<1>4. \/ hold' = hold
      \/ /\ \A s \in Locked(w) : hold[r][s] \in {"none", "held"}
         /\ hold' = [hold EXCEPT ![r] = mine]
  BY <1>2 DEF Reserve, stock
<1>5. CASE hold' = hold
  BY <1>5 DEF HoldsOK, LineSkus, Typed
<1>6. CASE /\ \A s \in Locked(w) : hold[r][s] \in {"none", "held"}
           /\ hold' = [hold EXCEPT ![r] = mine]
  <2>1. mine \in [Skus -> HoldStatus]
    BY <1>2 DEF Typed, HoldStatus
  <2>2. hold'[r] = mine /\ \A q \in Reservations \ {r} : hold'[q] = hold[q]
    BY <1>2, <1>6 DEF Typed
  <2>3. \A s \in LineSkus(r) : mine[s] = "held"
    BY <1>3, <1>6 DEF LineSkus
  <2>4. \A s \in Skus \ LineSkus(r) : mine[s] = "none"
    BY <1>2, <1>3 DEF HoldsOK
  <2> HIDE DEF mine
  <2>5. HoldsOK(r)'
    BY <2>1, <2>2, <2>3, <2>4 DEF HoldsOK, LineSkus, Ended
  <2>6. \A q \in Reservations \ {r} : HoldsOK(q)'
    BY <2>2 DEF HoldsOK, LineSkus
  <2> QED
    BY <1>2, <1>6, <2>1, <2>5, <2>6 DEF Typed
<1> QED
  BY <1>4, <1>5, <1>6

(* A reservation that is sold, given back or returned is so on every line. *)
LEMMA ResolveKeeps ==
    ASSUME Typed, \A v \in Workers : RowsOK(v), \A r \in Reservations : HoldsOK(r),
           NEW w \in Workers, NEW op \in {"commit", "release", "restore"}, Resolve(w, op)
    PROVE  /\ hold' \in [Reservations -> [Skus -> HoldStatus]]
           /\ \A r \in Reservations : HoldsOK(r)'
<1>1. cmd[w].op = op /\ want[w] = {}
  BY DEF Resolve, Ready
<1>2. PICK r \in Reservations : r = cmd[w].res
  BY <1>1, CommandsNameReservations DEF Typed, Whole
<1> DEFINE moved == {s \in Locked(w) : hold[r][s] = From(op)}
           mine == [s \in Skus |-> IF s \in moved THEN To(op) ELSE hold[r][s]]
<1>3. Locked(w) = LineSkus(r)
  BY <1>1, <1>2 DEF RowsOK, Whole
<1>4. \/ hold' = hold
      \/ /\ \A s \in Locked(w) : hold[r][s] \in {From(op), To(op)}
         /\ hold' = [hold EXCEPT ![r] = mine]
  BY <1>2 DEF Resolve, stock
<1>5. CASE hold' = hold
  BY <1>5 DEF HoldsOK, LineSkus, Typed
<1>6. CASE /\ \A s \in Locked(w) : hold[r][s] \in {From(op), To(op)}
           /\ hold' = [hold EXCEPT ![r] = mine]
  <2>1. To(op) \in HoldStatus
    BY DEF To, HoldStatus
  <2>2. mine \in [Skus -> HoldStatus]
    BY <1>2, <2>1 DEF Typed
  <2>3. hold'[r] = mine /\ \A q \in Reservations \ {r} : hold'[q] = hold[q]
    BY <1>2, <1>6 DEF Typed
  <2>4. \A s \in LineSkus(r) : mine[s] = To(op)
    BY <1>3, <1>6 DEF LineSkus
  <2>5. \A s \in Skus \ LineSkus(r) : mine[s] = "none"
    BY <1>2, <1>3 DEF HoldsOK
  <2> HIDE DEF mine
  <2>6. HoldsOK(r)'
    BY <2>2, <2>3, <2>4, <2>5 DEF HoldsOK, LineSkus
  <2>7. \A q \in Reservations \ {r} : HoldsOK(q)'
    BY <2>3 DEF HoldsOK, LineSkus
  <2> QED
    BY <1>2, <1>6, <2>2, <2>6, <2>7 DEF Typed
<1> QED
  BY <1>4, <1>5, <1>6

(* The expiry job takes only what is held, so that nothing of the          *)
(* reservation was sold, given back or free before.                        *)
LEMMA ExpireKeeps ==
    ASSUME Typed, \A r \in Reservations : HoldsOK(r), NEW w \in Workers, Expire(w)
    PROVE  /\ hold' \in [Reservations -> [Skus -> HoldStatus]]
           /\ \A r \in Reservations : HoldsOK(r)'
<1> DEFINE expired == [s \in Skus |->
              IF s \in Locked(w) THEN DueOn(s, cmd[w].before) ELSE {}]
           after == [r \in Reservations |-> [s \in Skus |->
              IF r \in expired[s] THEN "expired" ELSE hold[r][s]]]
<1>1. hold' = hold \/ hold' = after
  BY DEF Expire, stock
<1>2. \A s \in Skus : \A r \in expired[s] : hold[r][s] = "held"
  BY DEF DueOn
<1> HIDE DEF expired
<1>3. CASE hold' = hold
  BY <1>3 DEF HoldsOK, LineSkus, Typed
<1>4. CASE hold' = after
  <2>1. after \in [Reservations -> [Skus -> HoldStatus]]
    BY DEF Typed, HoldStatus
  <2>2. ASSUME NEW r \in Reservations PROVE HoldsOK(r)'
    <3>1. hold'[r] = after[r] /\ after[r] \in [Skus -> HoldStatus]
      BY <1>4, <2>1
    <3>2. \A s \in Skus : \/ after[r][s] = hold[r][s]
                          \/ hold[r][s] = "held" /\ after[r][s] = "expired"
      BY <1>2
    <3> HIDE DEF after
    <3>3. ASSUME NEW s \in Skus \ LineSkus(r) PROVE after[r][s] = "none"
      BY <3>2 DEF HoldsOK
    <3>4. ASSUME NEW s \in LineSkus(r), NEW t \in LineSkus(r), after[r][s] \in Ended
          PROVE  after[r][t] = after[r][s]
      <4>1. s \in Skus /\ t \in Skus
        BY DEF LineSkus
      <4>2. after[r][s] = hold[r][s]
        BY <3>2, <3>4, <4>1 DEF Ended
      <4>3. hold[r][t] = hold[r][s]
        BY <3>4, <4>2 DEF HoldsOK
      <4>4. hold[r][t] # "held"
        BY <3>4, <4>2, <4>3 DEF Ended
      <4> QED
        BY <3>2, <4>1, <4>2, <4>3, <4>4
    <3> QED
      BY <3>1, <3>3, <3>4 DEF HoldsOK, LineSkus
  <2> QED
    BY <1>4, <2>1, <2>2
<1> QED
  BY <1>1, <1>3, <1>4

-----------------------------------------------------------------------------
(* Nothing runs and nothing is held.                                       *)
LEMMA Initially == Init => IInv
<1> SUFFICES ASSUME Init PROVE IInv
  OBVIOUS
<1>1. Idle \in Commands /\ Idle.op \notin Whole
  BY DEF Idle, Commands, Whole
<1>2. Typed
  BY <1>1 DEF Init, Typed, HoldStatus
<1>3. \A w \in Workers : RowsOK(w)
  BY <1>1, InventoryAssumption DEF Init, RowsOK, Locked
<1>4. \A r \in Reservations : HoldsOK(r)
  BY DEF Init, HoldsOK, HoldStatus, LineSkus
<1> QED
  BY <1>2, <1>3, <1>4 DEF IInv

(* Every step of the inventory keeps the rows and the holds in order.      *)
LEMMA Inductive == IInv /\ [Next]_vars => IInv'
<1> SUFFICES ASSUME IInv, [Next]_vars PROVE IInv'
  OBVIOUS
<1> DEFINE Tx == /\ cmd' \in [Workers -> Commands]
                 /\ want' \in [Workers -> SUBSET Skus]
                 /\ lock' \in [Skus -> Workers \cup {None}]
                 /\ \A v \in Workers : RowsOK(v)'
           Hd == /\ hold' \in [Reservations -> [Skus -> HoldStatus]]
                 /\ \A r \in Reservations : HoldsOK(r)'
<1>a. None \notin Workers
  BY InventoryAssumption
<1>b. Typed /\ \A v \in Workers : RowsOK(v)
  BY DEF IInv
<1>c. \A r \in Reservations : HoldsOK(r)
  BY DEF IInv
<1>0. due' \subseteq Reservations
  <2>1. CASE \E r \in Reservations : TimePasses(r)
    BY <1>b, <2>1 DEF TimePasses, Typed
  <2>2. CASE due' \subseteq due
    BY <1>b, <2>2 DEF Typed
  <2>3. (\E r \in Reservations : TimePasses(r)) \/ due' \subseteq due
    <3>1. CASE \E w \in Workers : Command(w)
      BY <3>1 DEF Command, BeginReserve, BeginResolve, BeginExpire, BeginSet, Begin
    <3>2. CASE \E w \in Workers : Work(w)
      BY <3>2 DEF Work, Reserve, Resolve, Expire, SetStock, End
    <3>5. CASE \E w \in Workers : BeginExpire(w) \/ Lock(w) \/ Abort(w)
      BY <3>5 DEF BeginExpire, Begin, Lock, Abort, End
    <3>3. CASE \E s \in Skus : EnsureStock(s)
      BY <3>3 DEF EnsureStock
    <3>4. CASE UNCHANGED vars
      BY <3>4 DEF vars
    <3> QED
      BY <3>1, <3>2, <3>3, <3>4, <3>5 DEF Next
  <2> QED
    BY <2>1, <2>2, <2>3
<1>d. ASSUME Tx, Hd PROVE IInv'
  BY <1>0, <1>d DEF IInv, Typed
<1>e. ASSUME UNCHANGED hold PROVE Hd
  BY <1>e, <1>b, <1>c DEF HoldsOK, LineSkus, Typed
<1>f. ASSUME UNCHANGED <<cmd, want, lock>> PROVE Tx
  BY <1>f, <1>b DEF RowsOK, Locked, LineSkus, Typed
<1>1. CASE UNCHANGED vars
  BY <1>1, <1>d, <1>e, <1>f DEF vars, stock
<1>2. ASSUME NEW s \in Skus, EnsureStock(s) PROVE IInv'
  BY <1>2, <1>d, <1>e, <1>f DEF EnsureStock
<1>3. ASSUME NEW r \in Reservations, TimePasses(r) PROVE IInv'
  BY <1>3, <1>d, <1>e, <1>f DEF TimePasses, stock
<1>4. ASSUME NEW w \in Workers, NEW r \in Reservations, BeginReserve(w, r) PROVE IInv'
  <2> DEFINE c == [op |-> "reserve", res |-> r]
  <2>1. c \in Commands /\ c.op = "reserve" /\ c.res = r
    BY DEF Commands
  <2>2. Begin(w, c, LineSkus(r))
    BY <1>4 DEF BeginReserve
  <2> HIDE DEF c
  <2>3. Tx
    BY <1>b, <2>1, <2>2, BeginKeeps DEF LineSkus
  <2> QED
    BY <1>d, <1>e, <2>2, <2>3 DEF Begin, stock
<1>5. ASSUME NEW w \in Workers, NEW r \in Reservations,
             NEW op \in {"commit", "release", "restore"}, BeginResolve(w, op, r)
      PROVE  IInv'
  <2> DEFINE c == [op |-> op, res |-> r]
  <2>1. c \in Commands /\ c.op = op /\ c.res = r
    BY DEF Commands
  <2>2. Begin(w, c, HeldSkus(r))
    BY <1>5 DEF BeginResolve
  <2>3. HeldSkus(r) # {}
    BY <2>2 DEF Begin
  <2>4. HeldSkus(r) = LineSkus(r)
    BY <1>c, <2>3 DEF HoldsOK, HeldSkus, LineSkus, Ended
  <2> HIDE DEF c
  <2>5. Tx
    BY <1>b, <2>1, <2>2, <2>4, BeginKeeps DEF LineSkus
  <2> QED
    BY <1>d, <1>e, <2>2, <2>5 DEF Begin, stock
<1>6. ASSUME NEW w \in Workers, BeginExpire(w) PROVE IInv'
  <2>1. PICK c, S : /\ c = [op |-> "expire", before |-> due]
                    /\ S \in SUBSET Skus
                    /\ Begin(w, c, S)
    BY <1>6 DEF BeginExpire
  <2>2. c \in Commands /\ c.op = "expire"
    BY <1>b, <2>1 DEF Commands, Typed
  <2>3. Tx
    BY <1>b, <2>1, <2>2, BeginKeeps DEF Whole
  <2> QED
    BY <1>d, <1>e, <2>1, <2>3 DEF Begin, stock
<1>7. ASSUME NEW w \in Workers, NEW s \in Skus, NEW level \in Levels,
             NEW k \in ClientKeys \cup {None}, BeginSet(w, s, level, k)
      PROVE  IInv'
  <2> DEFINE c == [op |-> "set", level |-> level, key |-> k]
  <2>1. c \in Commands /\ c.op = "set"
    BY DEF Commands
  <2>2. Begin(w, c, {s})
    BY <1>7 DEF BeginSet
  <2> HIDE DEF c
  <2>3. Tx
    BY <1>b, <2>1, <2>2, BeginKeeps DEF Whole
  <2> QED
    BY <1>d, <1>e, <2>2, <2>3 DEF Begin, stock
<1>8. ASSUME NEW w \in Workers, Lock(w) PROVE IInv'
  BY <1>8, <1>a, <1>b, <1>d, <1>e, LockKeeps DEF Lock, stock
<1>9. ASSUME NEW w \in Workers, End(w), Hd PROVE IInv'
  BY <1>9, <1>a, <1>b, <1>d, EndKeeps
<1>10. ASSUME NEW w \in Workers, Reserve(w) PROVE IInv'
  BY <1>10, <1>9, <1>b, <1>c, ReserveKeeps DEF Reserve
<1>11. ASSUME NEW w \in Workers, NEW op \in {"commit", "release", "restore"}, Resolve(w, op)
       PROVE  IInv'
  BY <1>11, <1>9, <1>b, <1>c, ResolveKeeps DEF Resolve
<1>12. ASSUME NEW w \in Workers, Expire(w) PROVE IInv'
  BY <1>12, <1>9, <1>b, <1>c, ExpireKeeps DEF Expire
<1>13. ASSUME NEW w \in Workers, SetStock(w) PROVE IInv'
  BY <1>13, <1>9, <1>e DEF SetStock
<1>14. ASSUME NEW w \in Workers, Abort(w) PROVE IInv'
  BY <1>14, <1>9, <1>e DEF Abort, stock
<1> QED
  BY <1>1, <1>2, <1>3, <1>4, <1>5, <1>6, <1>7, <1>8, <1>10, <1>11, <1>12, <1>13, <1>14
     DEF Next, Command, Work

(* The invariant holds in every reachable state.                           *)
LEMMA Invariance == Spec => []IInv
BY Initially, Inductive, PTL DEF Spec

(* A sale and its return are of every line of a reservation or of none:    *)
(* a command acts on the rows it locked, and those are the rows of every   *)
(* line, though the expiry job may have taken some lines before.           *)
THEOREM AlwaysAllOrNothing == Spec => []AllOrNothing
<1>1. IInv => AllOrNothing
  BY DEF IInv, HoldsOK, AllOrNothing, Ended
<1> QED
  BY <1>1, Invariance, PTL

-----------------------------------------------------------------------------
(* A transaction that can go on: its next row is free, or it has them all. *)
GoesOn(w) ==
    /\ cmd[w] # Idle
    /\ want[w] = {} \/ lock[Min(want[w])] = None

(* Sessions that wait for each other's rows never all wait.                *)
NoWaitCycle == \A w \in Workers : want[w] # {} => \E v \in Workers : GoesOn(v)

(* However many items and sessions there are, some transaction can go on   *)
(* while any waits: each query locks its rows ORDER BY sku FOR UPDATE, so  *)
(* that who holds the last of the rows waited for waits for none.          *)
THEOREM NeverWaitCycle == Spec => []NoWaitCycle
<1>1. ASSUME IInv PROVE NoWaitCycle
  <2> SUFFICES ASSUME NEW w \in Workers, want[w] # {}
               PROVE  \E v \in Workers : GoesOn(v)
    BY DEF NoWaitCycle
  <2> DEFINE asked == {s \in Skus : \E v \in Workers : want[v] # {} /\ s = Min(want[v])}
  <2>1. \A v \in Workers : want[v] # {} =>
           Min(want[v]) \in want[v] /\ want[v] \subseteq Skus
    BY <1>1, FirstIsMember DEF IInv, Typed
  <2>2. asked \in SUBSET Skus /\ asked # {}
    BY <2>1
  <2>3. PICK m \in asked : \A s \in asked : s <= m
    BY <2>2, LastIsMember
  <2>4. PICK v \in Workers : want[v] # {} /\ m = Min(want[v])
    OBVIOUS
  <2>5. CASE lock[m] = None
    BY <1>1, <2>4, <2>5 DEF GoesOn, IInv, RowsOK
  <2>6. CASE lock[m] # None
    <3>1. PICK u \in Workers : u = lock[m]
      BY <1>1, <2>6 DEF IInv, Typed
    <3>2. m \in Locked(u) /\ cmd[u] # Idle
      BY <1>1, <3>1 DEF Locked, IInv, RowsOK
    <3>3. want[u] = {}
      <4> SUFFICES ASSUME want[u] # {} PROVE FALSE
        OBVIOUS
      <4>1. Min(want[u]) \in asked /\ Min(want[u]) \in want[u]
        BY <2>1
      <4>2. m < Min(want[u])
        BY <1>1, <3>2, <4>1 DEF IInv, RowsOK
      <4>3. Min(want[u]) <= m /\ m \in Nat /\ Min(want[u]) \in Nat
        BY <2>3, <4>1, InventoryAssumption
      <4> QED
        BY <4>2, <4>3
    <3> QED
      BY <3>2, <3>3 DEF GoesOn
  <2> QED
    BY <2>5, <2>6
<1> QED
  BY <1>1, Invariance, PTL

-----------------------------------------------------------------------------
(* What a client sees of a reservation with the holds h on its lines.      *)
Seen(r, h) ==
    LET statuses == {h[s] : s \in LineSkus(r)} IN
    IF "expired" \in statuses THEN "lapsed" ELSE CHOOSE x \in statuses : TRUE

View == [r \in Reservations |-> Seen(r, hold[r])]

(* One line that has expired makes the reservation lapsed.                 *)
LEMMA SeenLapsed ==
    ASSUME NEW r \in Reservations, NEW h, NEW s \in LineSkus(r), h[s] = "expired"
    PROVE  Seen(r, h) = "lapsed"
BY DEF Seen

(* Lines that agree show their status.                                     *)
LEMMA SeenWhole ==
    ASSUME NEW r \in Reservations, NEW h, NEW x, x # "expired",
           \A s \in LineSkus(r) : h[s] = x
    PROVE  Seen(r, h) = x
<1>1. LineSkus(r) # {}
  BY InventoryAssumption DEF LineSkus
<1>2. {h[s] : s \in LineSkus(r)} = {x}
  BY <1>1
<1> QED
  BY <1>2 DEF Seen

(* What the client sees depends on the holds alone.                        *)
LEMMA ViewKept == hold' = hold => View' = View
BY DEF View, Seen, LineSkus

(* A change of one reservation only is seen of that reservation only.      *)
LEMMA ViewOfOne ==
    ASSUME Typed, NEW r \in Reservations, NEW mine, hold' = [hold EXCEPT ![r] = mine]
    PROVE  View' = [View EXCEPT ![r] = Seen(r, mine)]
<1>1. hold'[r] = mine /\ \A q \in Reservations \ {r} : hold'[q] = hold[q]
  BY DEF Typed
<1>2. View' = [q \in Reservations |-> Seen(q, hold'[q])]
  BY DEF View, Seen, LineSkus
<1>3. View = [q \in Reservations |-> Seen(q, hold[q])]
  BY DEF View
<1>4. [View EXCEPT ![r] = Seen(r, mine)]
        = [q \in Reservations |-> IF q = r THEN Seen(r, mine) ELSE Seen(q, hold[q])]
  BY <1>3
<1> QED
  BY <1>1, <1>2, <1>4

(* ReserveStock takes all lines of a reservation, or it had them.          *)
LEMMA ReserveTakes ==
    ASSUME Typed, \A v \in Workers : RowsOK(v), \A r \in Reservations : HoldsOK(r),
           NEW w \in Workers, Reserve(w)
    PROVE  \/ View' = View
           \/ \E r \in Reservations : View[r] = "none" /\ View' = [View EXCEPT ![r] = "held"]
<1>1. cmd[w].op = "reserve" /\ want[w] = {}
  BY DEF Reserve, Ready
<1>2. PICK r \in Reservations : r = cmd[w].res
  BY <1>1, CommandsNameReservations DEF Typed, Whole
<1> DEFINE new == {s \in Locked(w) : hold[r][s] = "none"}
           mine == [s \in Skus |-> IF s \in new THEN "held" ELSE hold[r][s]]
<1>3. Locked(w) = LineSkus(r) /\ LineSkus(r) \subseteq Skus
  BY <1>1, <1>2 DEF RowsOK, Whole, LineSkus
<1>4. \/ hold' = hold
      \/ /\ \A s \in Locked(w) : hold[r][s] \in {"none", "held"}
         /\ hold' = [hold EXCEPT ![r] = mine]
  BY <1>2 DEF Reserve, stock
<1>5. CASE hold' = hold
  BY <1>5, ViewKept
<1>6. CASE /\ \A s \in Locked(w) : hold[r][s] \in {"none", "held"}
           /\ hold' = [hold EXCEPT ![r] = mine]
  <2>1. \A s \in LineSkus(r) : mine[s] = "held"
    BY <1>3, <1>6
  <2> HIDE DEF mine
  <2>2. View' = [View EXCEPT ![r] = "held"]
    <3>1. Seen(r, mine) = "held"
      BY <2>1, SeenWhole
    <3> QED
      BY <1>6, <3>1, ViewOfOne
  <2>3. CASE \A s \in LineSkus(r) : hold[r][s] = "none"
    <3>1. View[r] = "none"
      BY <2>3, SeenWhole DEF View
    <3> QED
      BY <2>2, <3>1
  <2>4. CASE \E s \in LineSkus(r) : hold[r][s] # "none"
    <3>1. \A s \in LineSkus(r) : hold[r][s] = "held"
      BY <1>3, <1>6, <2>4 DEF HoldsOK, Ended
    <3>2. View[r] = "held"
      BY <3>1, SeenWhole DEF View
    <3>3. View' = View
      BY <2>2, <3>2 DEF View
    <3> QED
      BY <3>3
  <2> QED
    BY <2>3, <2>4
<1> QED
  BY <1>4, <1>5, <1>6

(* CommitReservation, ReleaseReservation and RestoreReservation change all *)
(* lines of a reservation, or they have done so before.                    *)
LEMMA ResolveMoves ==
    ASSUME Typed, \A v \in Workers : RowsOK(v), \A r \in Reservations : HoldsOK(r),
           NEW w \in Workers, NEW op \in {"commit", "release", "restore"}, Resolve(w, op)
    PROVE  \/ View' = View
           \/ \E r \in Reservations : View[r] = From(op) /\ View' = [View EXCEPT ![r] = To(op)]
<1>1. cmd[w].op = op /\ want[w] = {}
  BY DEF Resolve, Ready
<1>2. PICK r \in Reservations : r = cmd[w].res
  BY <1>1, CommandsNameReservations DEF Typed, Whole
<1> DEFINE moved == {s \in Locked(w) : hold[r][s] = From(op)}
           mine == [s \in Skus |-> IF s \in moved THEN To(op) ELSE hold[r][s]]
<1>3. Locked(w) = LineSkus(r) /\ LineSkus(r) \subseteq Skus
  BY <1>1, <1>2 DEF RowsOK, Whole, LineSkus
<1>4. \/ hold' = hold
      \/ /\ \A s \in Locked(w) : hold[r][s] \in {From(op), To(op)}
         /\ hold' = [hold EXCEPT ![r] = mine]
  BY <1>2 DEF Resolve, stock
<1>5. CASE hold' = hold
  BY <1>5, ViewKept
<1>6. CASE /\ \A s \in Locked(w) : hold[r][s] \in {From(op), To(op)}
           /\ hold' = [hold EXCEPT ![r] = mine]
  <2>1. /\ From(op) # "expired" /\ To(op) # "expired"
        /\ To(op) \in Ended /\ To(op) # From(op)
    BY DEF From, To, Ended
  <2>2. \A s \in LineSkus(r) : mine[s] = To(op)
    BY <1>3, <1>6
  <2> HIDE DEF mine
  <2>3. View' = [View EXCEPT ![r] = To(op)]
    <3>1. Seen(r, mine) = To(op)
      BY <2>1, <2>2, SeenWhole
    <3> QED
      BY <1>6, <3>1, ViewOfOne
  <2>4. CASE \A s \in LineSkus(r) : hold[r][s] = From(op)
    <3>1. View[r] = From(op)
      BY <2>1, <2>4, SeenWhole DEF View
    <3> QED
      BY <2>3, <3>1
  <2>5. CASE \E s \in LineSkus(r) : hold[r][s] # From(op)
    <3>1. \A s \in LineSkus(r) : hold[r][s] = To(op)
      BY <1>3, <1>6, <2>1, <2>5 DEF HoldsOK
    <3>2. View[r] = To(op)
      BY <2>1, <3>1, SeenWhole DEF View
    <3>3. View' = View
      BY <2>3, <3>2 DEF View
    <3> QED
      BY <3>3
  <2> QED
    BY <2>4, <2>5
<1> QED
  BY <1>4, <1>5, <1>6

(* The expiry job makes whole reservations lapse, though it takes some of  *)
(* their lines only.                                                       *)
LEMMA ExpireLapses ==
    ASSUME Typed, \A r \in Reservations : HoldsOK(r), NEW w \in Workers, Expire(w)
    PROVE  \E batch \in SUBSET Reservations :
              /\ \A r \in batch : View[r] = "held"
              /\ View' = [r \in Reservations |-> IF r \in batch THEN "lapsed" ELSE View[r]]
<1> DEFINE expired == [s \in Skus |->
              IF s \in Locked(w) THEN DueOn(s, cmd[w].before) ELSE {}]
           after == [r \in Reservations |-> [s \in Skus |->
              IF r \in expired[s] THEN "expired" ELSE hold[r][s]]]
           Chosen(r) == \E s \in Skus : r \in expired[s]
           batch == {r \in Reservations : Chosen(r) /\ View[r] = "held"}
<1>1. hold' = hold \/ hold' = after
  BY DEF Expire, stock
<1>2. \A s \in Skus : \A r \in expired[s] : hold[r][s] = "held"
  BY DEF DueOn
<1> HIDE DEF expired
<1>3. View' = [r \in Reservations |-> Seen(r, hold'[r])]
  BY DEF View, Seen, LineSkus
<1>4. CASE hold' = hold
  <2>1. View' = View
    BY <1>4, ViewKept
  <2>2. View' = [r \in Reservations |-> IF r \in {} THEN "lapsed" ELSE View[r]]
    BY <2>1 DEF View
  <2> WITNESS {} \in SUBSET Reservations
  <2> QED
    BY <2>2
<1>5. CASE hold' = after
  <2>1. ASSUME NEW r \in Reservations
        PROVE  Seen(r, after[r]) = IF r \in batch THEN "lapsed" ELSE View[r]
    <3>1. CASE Chosen(r)
      <4>1. PICK s \in Skus : r \in expired[s]
        BY <3>1
      <4>2. hold[r][s] = "held" /\ after[r][s] = "expired"
        BY <1>2, <4>1
      <4>3. s \in LineSkus(r)
        BY <4>2 DEF HoldsOK
      <4>4. Seen(r, after[r]) = "lapsed"
        <5> HIDE DEF after
        <5> QED
          BY <4>2, <4>3, SeenLapsed
      <4>5. CASE \E t \in LineSkus(r) : hold[r][t] = "expired"
        <5>1. View[r] = "lapsed"
          BY <4>5, SeenLapsed DEF View
        <5> QED
          BY <4>4, <5>1
      <4>6. CASE \A t \in LineSkus(r) : hold[r][t] # "expired"
        <5>1. \A t \in LineSkus(r) : hold[r][t] \in HoldStatus /\ hold[r][t] \notin Ended
          BY <4>2, <4>3 DEF HoldsOK, Ended, LineSkus
        <5>2. \A t \in LineSkus(r) : hold[r][t] = "held"
          BY <4>6, <5>1 DEF HoldStatus, Ended
        <5>3. View[r] = "held"
          BY <5>2, SeenWhole DEF View
        <5> QED
          BY <3>1, <4>4, <5>3
      <4> QED
        BY <4>5, <4>6
    <3>2. CASE ~ Chosen(r)
      <4>1. after[r] = hold[r]
        BY <3>2 DEF Typed
      <4>2. Seen(r, after[r]) = View[r]
        BY <4>1 DEF View
      <4> QED
        BY <3>2, <4>2
    <3> QED
      BY <3>1, <3>2
  <2>2. View' = [r \in Reservations |-> IF r \in batch THEN "lapsed" ELSE View[r]]
    <3> HIDE DEF after, batch
    <3> QED
      BY <1>3, <1>5, <2>1
  <2> QED
    BY <2>2
<1> QED
  BY <1>1, <1>4, <1>5

(* The transactions over several rows, and a job over items instead of     *)
(* reservations, look to ordering like steps of whole reservations.        *)
THEOREM KeepsTheContract == Spec => KeepsContract
<1>1. View = [r \in Reservations |-> StateOf(r)]
  BY DEF View, Seen, StateOf
<1>2. View' = [r \in Reservations |-> StateOf(r)]'
  BY DEF View, Seen, StateOf
<1>3. ASSUME Init PROVE Contract!Init
  <2>1. \A r \in Reservations : Seen(r, hold[r]) = "none"
    BY <1>3, SeenWhole DEF Init, LineSkus
  <2> QED
    BY <1>1, <2>1 DEF Contract!Init, View
<1>4. ASSUME IInv, [Next]_vars PROVE Contract!Next \/ View' = View
  <2>1. /\ Typed /\ \A v \in Workers : RowsOK(v)
        /\ \A r \in Reservations : HoldsOK(r)
    BY <1>4 DEF IInv
  <2>2. ASSUME UNCHANGED hold PROVE View' = View
    BY <2>2, ViewKept
  <2>3. ASSUME NEW w \in Workers, Reserve(w) PROVE Contract!Next \/ View' = View
    BY <1>1, <1>2, <2>1, <2>3, ReserveTakes DEF Contract!Next, Contract!Take, Contract!Move
  <2>4. ASSUME NEW w \in Workers, NEW op \in {"commit", "release", "restore"}, Resolve(w, op)
        PROVE  Contract!Next \/ View' = View
    BY <1>1, <1>2, <2>1, <2>4, ResolveMoves
       DEF Contract!Next, Contract!Commit, Contract!Release, Contract!Restore,
           Contract!Move, From, To
  <2>5. ASSUME NEW w \in Workers, Expire(w) PROVE Contract!Next \/ View' = View
    <3>1. PICK batch \in SUBSET Reservations :
              /\ \A r \in batch : View[r] = "held"
              /\ View' = [r \in Reservations |-> IF r \in batch THEN "lapsed" ELSE View[r]]
      BY <2>1, <2>5, ExpireLapses
    <3>2. CASE batch = {}
      BY <3>1, <3>2 DEF View
    <3>3. CASE batch # {}
      BY <1>1, <1>2, <3>1, <3>3 DEF Contract!Next, Contract!Lapse
    <3> QED
      BY <3>2, <3>3
  <2>6. CASE UNCHANGED hold
    BY <2>2, <2>6
  <2> QED
    BY <1>4, <2>3, <2>4, <2>5, <2>6
       DEF Next, Command, Work, EnsureStock, TimePasses, BeginReserve, BeginResolve,
           BeginExpire, BeginSet, Begin, Lock, SetStock, Abort, stock, vars
<1>5. IInv /\ [Next]_vars => [Contract!Next]_[r \in Reservations |-> StateOf(r)]
  BY <1>1, <1>2, <1>4
<1> QED
  BY <1>3, <1>5, Invariance, PTL DEF Spec, KeepsContract, Contract!Spec

-----------------------------------------------------------------------------
(* Quantities: every unit of an item is free or in a hold, and the journal *)
(* knows how many there are.                                               *)
HeldOn(s) == {r \in Reservations : hold[r][s] = "held"}

(* The reserved quantity of an item adds up its holds, of which there are  *)
(* finitely many, and both quantities keep within the kernel's limit.      *)
QuantityOK(s) ==
    /\ available[s] \in 0..MaxQuantity
    /\ reserved[s] \in 0..MaxQuantity
    /\ ledger[s] \in Int
    /\ IsFiniteSet(HeldOn(s))
    /\ reserved[s] = Units(s, HeldOn(s))

OnSkus(f) == f = [s \in Skus |-> f[s]]

QInv ==
    /\ open \subseteq Skus
    /\ journaled \subseteq ClientKeys \X Skus
    /\ sets \in 0..MaxSets
    /\ faults \in 0..MaxFaults
    /\ OnSkus(available) /\ OnSkus(reserved) /\ OnSkus(ledger)
    /\ \A s \in Skus : QuantityOK(s)

(* What moves between free, reserved and the journal is balanced.          *)
Balanced(s) ==
    available'[s] + reserved'[s] - ledger'[s] = available[s] + reserved[s] - ledger[s]

QuantitiesKept ==
    /\ OnSkus(available') /\ OnSkus(reserved') /\ OnSkus(ledger')
    /\ \A s \in Skus : QuantityOK(s)' /\ Balanced(s)

(* Nothing moves.                                                          *)
LEMMA StillKeeps ==
    ASSUME QInv, UNCHANGED <<available, reserved, hold, ledger>>
    PROVE  QuantitiesKept
<1>1. \A s : HeldOn(s)' = HeldOn(s)
  BY DEF HeldOn
<1>2. \A s \in Skus : QuantityOK(s)'
  BY <1>1 DEF QInv, QuantityOK
<1>3. \A s \in Skus : Balanced(s)
  BY DEF QInv, QuantityOK, Balanced
<1> QED
  BY <1>2, <1>3 DEF QuantitiesKept, QInv

(* One more hold, of units that were free.                                 *)
LEMMA HoldTaken ==
    ASSUME QInv, NEW s \in Skus, NEW r \in Reservations \ HeldOn(s),
           HeldOn(s)' = HeldOn(s) \cup {r},
           available[s] >= Lines[r][s], reserved[s] + Lines[r][s] <= MaxQuantity,
           available'[s] = available[s] - Lines[r][s],
           reserved'[s] = reserved[s] + Lines[r][s],
           ledger'[s] = ledger[s]
    PROVE  QuantityOK(s)' /\ Balanced(s)
<1>1. PICK H : H = HeldOn(s)
  OBVIOUS
<1>2. H \cup {r} \in SUBSET Reservations /\ (H \cup {r}) \ {r} = H
  BY <1>1 DEF HeldOn
<1>3. QuantityOK(s) /\ Lines[r][s] \in Nat /\ MaxQuantity \in Nat
  BY InventoryAssumption DEF QInv
<1>4. IsFiniteSet(H) /\ reserved[s] = Units(s, H)
  BY <1>1, <1>3 DEF QuantityOK
<1>5. IsFiniteSet(H \cup {r})
  BY <1>4, FS_AddElement
<1>6. Units(s, H \cup {r}) = Lines[r][s] + Units(s, H)
  BY <1>2, <1>5, UnitsWithout
<1>7. reserved'[s] = Units(s, HeldOn(s)')
  <2>1. Units(s, H) \in Nat
    BY <1>2, <1>4, UnitsAreNat
  <2> QED
    BY <1>1, <1>4, <1>6, <2>1, <1>3
<1>8. IsFiniteSet(HeldOn(s)')
  BY <1>1, <1>5
<1>9. available'[s] \in 0..MaxQuantity /\ reserved'[s] \in 0..MaxQuantity /\ ledger'[s] \in Int
  BY <1>3 DEF QuantityOK
<1>10. (Units(s, HeldOn(s)))' = Units(s, HeldOn(s)')
  OBVIOUS
<1> QED
  BY <1>3, <1>7, <1>8, <1>9, <1>10 DEF QuantityOK, Balanced

(* The units of a single reservation.                                      *)
LEMMA UnitsOfOne ==
    ASSUME NEW s \in Skus, NEW r \in Reservations
    PROVE  Units(s, {r}) = Lines[r][s]
<1>1. IsFiniteSet({r}) /\ {r} \ {r} = {}
  BY FS_Singleton
<1>2. Units(s, {r}) = Lines[r][s] + Units(s, {})
  BY <1>1, UnitsWithout
<1> QED
  BY <1>2, UnitsOfNone, InventoryAssumption

(* Holds end: their units go back to the free ones, or leave the journal.  *)
LEMMA HoldsEnd ==
    ASSUME QInv, NEW s \in Skus, NEW D \in SUBSET HeldOn(s), NEW back \in {0, Units(s, D)},
           HeldOn(s)' = HeldOn(s) \ D,
           available[s] + back <= MaxQuantity,
           available'[s] = available[s] + back,
           reserved'[s] = reserved[s] - Units(s, D),
           ledger'[s] = ledger[s] + back - Units(s, D)
    PROVE  QuantityOK(s)' /\ Balanced(s)
<1>1. PICK H : H = HeldOn(s)
  OBVIOUS
<1>2. H \in SUBSET Reservations /\ D \in SUBSET H
  BY <1>1 DEF HeldOn
<1>3. QuantityOK(s) /\ MaxQuantity \in Nat
  BY InventoryAssumption DEF QInv
<1>4. IsFiniteSet(H) /\ reserved[s] = Units(s, H)
  BY <1>1, <1>3 DEF QuantityOK
<1>5. IsFiniteSet(D) /\ IsFiniteSet(H \ D) /\ H \ D \in SUBSET Reservations
  BY <1>2, <1>4, FS_Subset
<1>6. Units(s, H) = Units(s, D) + Units(s, H \ D)
  BY <1>2, <1>4, UnitsOfParts
<1>7. Units(s, D) \in Nat /\ Units(s, H \ D) \in Nat
  BY <1>2, <1>5, UnitsAreNat
<1>8. reserved'[s] = Units(s, HeldOn(s)')
  BY <1>1, <1>4, <1>6, <1>7
<1>9. IsFiniteSet(HeldOn(s)')
  BY <1>1, <1>5
<1>10. available'[s] \in 0..MaxQuantity /\ reserved'[s] \in 0..MaxQuantity /\ ledger'[s] \in Int
  <2> USE <1>3 DEF QuantityOK
  <2>1. available'[s] \in 0..MaxQuantity /\ ledger'[s] \in Int
    BY <1>7
  <2>2. reserved'[s] \in 0..MaxQuantity
    BY <1>4, <1>6, <1>7
  <2> QED
    BY <2>1, <2>2
<1>11. (Units(s, HeldOn(s)))' = Units(s, HeldOn(s)')
  OBVIOUS
<1>12. Balanced(s)
  BY <1>3, <1>7 DEF QuantityOK, Balanced
<1> QED
  BY <1>8, <1>9, <1>10, <1>11, <1>12 DEF QuantityOK

(* Units that were sold come back.                                         *)
LEMMA UnitsReturn ==
    ASSUME QInv, NEW s \in Skus, NEW back \in Nat,
           HeldOn(s)' = HeldOn(s),
           available[s] + back <= MaxQuantity,
           available'[s] = available[s] + back,
           reserved'[s] = reserved[s],
           ledger'[s] = ledger[s] + back
    PROVE  QuantityOK(s)' /\ Balanced(s)
<1>1. QuantityOK(s) /\ MaxQuantity \in Nat
  BY InventoryAssumption DEF QInv
<1>2. available'[s] \in 0..MaxQuantity /\ ledger'[s] \in Int
  BY <1>1 DEF QuantityOK
<1>3. (Units(s, HeldOn(s)))' = Units(s, HeldOn(s)')
  OBVIOUS
<1>4. Balanced(s)
  BY <1>1 DEF QuantityOK, Balanced
<1> QED
  BY <1>1, <1>2, <1>3, <1>4 DEF QuantityOK

-----------------------------------------------------------------------------
(* A reservation moves the units of its new holds from free to reserved.   *)
LEMMA ReserveMoves ==
    ASSUME IInv, QInv, NEW w \in Workers, Reserve(w)
    PROVE  QuantitiesKept /\ UNCHANGED <<open, journaled, faults>>
<1>1. cmd[w].op = "reserve"
  BY DEF Reserve, Ready
<1>2. PICK r \in Reservations : r = cmd[w].res
  BY <1>1, CommandsNameReservations DEF IInv, Typed, Whole
<1> DEFINE new == {s \in Locked(w) : hold[r][s] = "none"}
           mine == [s \in Skus |-> IF s \in new THEN "held" ELSE hold[r][s]]
<1>3. \/ UNCHANGED stock
      \/ /\ \A s \in new : /\ available[s] >= Lines[r][s]
                           /\ reserved[s] + Lines[r][s] <= MaxQuantity
         /\ hold' = [hold EXCEPT ![r] = mine]
         /\ available' = [s \in Skus |-> available[s] - IF s \in new THEN Lines[r][s] ELSE 0]
         /\ reserved' = [s \in Skus |-> reserved[s] + IF s \in new THEN Lines[r][s] ELSE 0]
         /\ UNCHANGED <<open, ledger, journaled>>
  BY <1>2 DEF Reserve
<1>4. UNCHANGED faults
  BY DEF Reserve
<1>5. CASE UNCHANGED stock
  BY <1>4, <1>5, StillKeeps DEF stock
<1>6. CASE /\ \A s \in new : /\ available[s] >= Lines[r][s]
                           /\ reserved[s] + Lines[r][s] <= MaxQuantity
           /\ hold' = [hold EXCEPT ![r] = mine]
           /\ available' = [s \in Skus |-> available[s] - IF s \in new THEN Lines[r][s] ELSE 0]
           /\ reserved' = [s \in Skus |-> reserved[s] + IF s \in new THEN Lines[r][s] ELSE 0]
           /\ UNCHANGED <<open, ledger, journaled>>
  <2>1. DOMAIN hold = Reservations
    BY DEF IInv, Typed
  <2>2. \A q \in Reservations, s \in Skus :
           hold'[q][s] = IF q = r /\ s \in new THEN "held" ELSE hold[q][s]
    BY <1>6, <2>1
  <2>3. ASSUME NEW s \in Skus PROVE QuantityOK(s)' /\ Balanced(s)
    <3>1. QuantityOK(s)
      BY DEF QInv
    <3>2. CASE s \in new
      <4>1. hold[r][s] = "none"
        BY <3>2
      <4>2. HeldOn(s)' = HeldOn(s) \cup {r} /\ r \notin HeldOn(s)
        BY <2>2, <3>2, <4>1 DEF HeldOn
      <4>3. /\ available'[s] = available[s] - Lines[r][s]
            /\ reserved'[s] = reserved[s] + Lines[r][s]
            /\ ledger'[s] = ledger[s]
        BY <1>6, <3>2
      <4> QED
        BY <1>6, <3>2, <4>2, <4>3, HoldTaken
    <3>3. CASE s \notin new
      <4>1. HeldOn(s)' = HeldOn(s)
        BY <2>2, <3>3 DEF HeldOn
      <4>2. /\ available'[s] = available[s] + 0
            /\ reserved'[s] = reserved[s]
            /\ ledger'[s] = ledger[s] + 0
            /\ available[s] + 0 <= MaxQuantity
        BY <1>6, <3>1, <3>3, InventoryAssumption DEF QuantityOK
      <4> QED
        BY <4>1, <4>2, UnitsReturn
    <3> QED
      BY <3>2, <3>3
  <2>4. OnSkus(available') /\ OnSkus(reserved') /\ OnSkus(ledger')
    BY <1>6 DEF OnSkus, QInv
  <2> QED
    BY <1>4, <1>6, <2>3, <2>4 DEF QuantitiesKept
<1> HIDE DEF new, mine
<1> QED
  BY <1>3, <1>5, <1>6

(* A sale takes the units of the holds it ends out of the stock, a release *)
(* frees them, and a return brings sold ones back.                         *)
LEMMA ResolveMovesUnits ==
    ASSUME IInv, QInv, NEW w \in Workers,
           NEW op \in {"commit", "release", "restore"}, Resolve(w, op)
    PROVE  QuantitiesKept /\ UNCHANGED <<open, journaled, faults>>
<1>1. cmd[w].op = op
  BY DEF Resolve, Ready
<1>2. PICK r \in Reservations : r = cmd[w].res
  BY <1>1, CommandsNameReservations DEF IInv, Typed, Whole
<1> DEFINE moved == {s \in Locked(w) : hold[r][s] = From(op)}
           back == IF op = "commit" THEN {} ELSE moved
           freed == IF op = "restore" THEN {} ELSE moved
           units(S, s) == IF s \in S THEN Lines[r][s] ELSE 0
           mine == [s \in Skus |-> IF s \in moved THEN To(op) ELSE hold[r][s]]
           Fits == /\ \A s \in back : available[s] + Lines[r][s] <= MaxQuantity
                   /\ hold' = [hold EXCEPT ![r] = mine]
                   /\ available' = [s \in Skus |-> available[s] + units(back, s)]
                   /\ reserved' = [s \in Skus |-> reserved[s] - units(freed, s)]
                   /\ ledger' = [s \in Skus |-> ledger[s] + units(back, s) - units(freed, s)]
                   /\ UNCHANGED <<open, journaled>>
<1>3. UNCHANGED stock \/ Fits
  BY <1>2 DEF Resolve
<1>4. UNCHANGED faults
  BY DEF Resolve
<1>5. CASE UNCHANGED stock
  BY <1>4, <1>5, StillKeeps DEF stock
<1>6. CASE Fits
  <2>1. DOMAIN hold = Reservations
    BY DEF IInv, Typed
  <2>2. \A q \in Reservations, s \in Skus :
           hold'[q][s] = IF q = r /\ s \in moved THEN To(op) ELSE hold[q][s]
    BY <1>6, <2>1
  <2>3. ASSUME NEW s \in Skus PROVE QuantityOK(s)' /\ Balanced(s)
    <3>1. QuantityOK(s) /\ Lines[r][s] \in Nat
      BY InventoryAssumption DEF QInv
    <3>2. CASE s \in moved /\ op \in {"commit", "release"}
      <4>1. hold[r][s] = "held" /\ To(op) # "held" /\ s \in freed
        BY <3>2 DEF From, To
      <4>2. HeldOn(s)' = HeldOn(s) \ {r} /\ {r} \in SUBSET HeldOn(s)
        BY <2>2, <3>2, <4>1 DEF HeldOn
      <4>3. Units(s, {r}) = Lines[r][s]
        BY UnitsOfOne
      <4>4. PICK b \in {0, Units(s, {r})} : b = units(back, s)
        BY <4>3
      <4>5. /\ available'[s] = available[s] + b
            /\ reserved'[s] = reserved[s] - Units(s, {r})
            /\ ledger'[s] = ledger[s] + b - Units(s, {r})
        BY <1>6, <4>1, <4>3, <4>4
      <4>6. available[s] + b <= MaxQuantity
        BY <1>6, <3>1, <4>4, InventoryAssumption DEF QuantityOK
      <4> HIDE DEF moved, back, freed, units, mine, Fits
      <4> QED
        BY <4>2, <4>5, <4>6, HoldsEnd
    <3>3. CASE s \in moved /\ op = "restore"
      <4>1. hold[r][s] # "held" /\ To(op) # "held" /\ s \in back /\ s \notin freed
        BY <3>3 DEF From, To
      <4>2. HeldOn(s)' = HeldOn(s)
        BY <2>2, <3>3, <4>1 DEF HeldOn
      <4>3. /\ available'[s] = available[s] + Lines[r][s]
            /\ reserved'[s] = reserved[s]
            /\ ledger'[s] = ledger[s] + Lines[r][s]
            /\ available[s] + Lines[r][s] <= MaxQuantity
        BY <1>6, <3>1, <4>1 DEF QuantityOK
      <4> HIDE DEF moved, back, freed, units, mine, Fits
      <4> QED
        BY <3>1, <4>2, <4>3, UnitsReturn
    <3>4. CASE s \notin moved
      <4>1. HeldOn(s)' = HeldOn(s)
        BY <2>2, <3>4 DEF HeldOn
      <4>2. /\ available'[s] = available[s] + 0
            /\ reserved'[s] = reserved[s]
            /\ ledger'[s] = ledger[s] + 0
            /\ available[s] + 0 <= MaxQuantity
        BY <1>6, <3>1, <3>4, InventoryAssumption DEF QuantityOK
      <4> HIDE DEF moved, back, freed, units, mine, Fits
      <4> QED
        BY <4>1, <4>2, UnitsReturn
    <3> QED
      BY <3>2, <3>3, <3>4
  <2>4. OnSkus(available') /\ OnSkus(reserved') /\ OnSkus(ledger')
    BY <1>6 DEF OnSkus
  <2>5. UNCHANGED <<open, journaled>>
    BY <1>6
  <2> HIDE DEF moved, back, freed, units, mine, Fits
  <2> QED
    BY <1>4, <2>3, <2>4, <2>5 DEF QuantitiesKept
<1> HIDE DEF Fits
<1> QED
  BY <1>3, <1>5, <1>6

(* The expiry job frees the units of the holds it takes, and no others.    *)
LEMMA ExpireMoves ==
    ASSUME IInv, QInv, NEW w \in Workers, Expire(w)
    PROVE  QuantitiesKept /\ UNCHANGED <<open, journaled, faults>>
<1> DEFINE expired == [s \in Skus |-> IF s \in Locked(w) THEN DueOn(s, cmd[w].before) ELSE {}]
           units == [s \in Skus |-> Units(s, expired[s])]
           Fits == /\ \A s \in Skus : available[s] + units[s] <= MaxQuantity \/ units[s] = 0
                   /\ hold' = [r \in Reservations |-> [s \in Skus |->
                                 IF r \in expired[s] THEN "expired" ELSE hold[r][s]]]
                   /\ available' = [s \in Skus |-> available[s] + units[s]]
                   /\ reserved' = [s \in Skus |-> reserved[s] - units[s]]
                   /\ UNCHANGED <<open, ledger, journaled>>
<1>1. UNCHANGED stock \/ Fits
  BY DEF Expire
<1>2. UNCHANGED faults
  BY DEF Expire
<1>3. CASE UNCHANGED stock
  BY <1>2, <1>3, StillKeeps DEF stock
<1>4. CASE Fits
  <2>1. cmd[w].before \subseteq Reservations
    <3>1. cmd[w] \in Commands /\ cmd[w].op = "expire"
      BY DEF Expire, Ready, IInv, Typed
    <3> QED
      BY <3>1 DEF Commands
  <2>2. ASSUME NEW s \in Skus PROVE QuantityOK(s)' /\ Balanced(s)
    <3>1. PICK D : D = expired[s]
      OBVIOUS
    <3>2. D \in SUBSET HeldOn(s)
      BY <2>1, <3>1 DEF DueOn, HeldOn
    <3>3. HeldOn(s)' = HeldOn(s) \ D
      BY <1>4, <3>1 DEF HeldOn
    <3>4. units[s] = Units(s, D)
      BY <3>1
    <3>5. /\ available'[s] = available[s] + Units(s, D)
          /\ reserved'[s] = reserved[s] - Units(s, D)
          /\ ledger'[s] = ledger[s]
          /\ available[s] + Units(s, D) <= MaxQuantity \/ Units(s, D) = 0
      BY <1>4, <3>4
    <3> HIDE DEF expired, units, Fits
    <3>6. QuantityOK(s) /\ IsFiniteSet(D) /\ D \in SUBSET Reservations
      BY <3>2, FS_Subset DEF QInv, QuantityOK, HeldOn
    <3>7. Units(s, D) \in Nat
      BY <3>6, UnitsAreNat
    <3>8. PICK b \in {0, Units(s, D)} : b = Units(s, D)
      OBVIOUS
    <3>9. ledger'[s] = ledger[s] + b - Units(s, D)
      BY <3>5, <3>6, <3>7, <3>8 DEF QuantityOK
    <3>10. available[s] + b <= MaxQuantity
      BY <3>5, <3>6, <3>7, <3>8, InventoryAssumption DEF QuantityOK
    <3>11. available'[s] = available[s] + b
      BY <3>5, <3>8
    <3> QED
      BY <3>2, <3>3, <3>5, <3>9, <3>10, <3>11, HoldsEnd
  <2>3. OnSkus(available') /\ OnSkus(reserved')
    BY <1>4 DEF OnSkus
  <2>4. OnSkus(ledger') /\ UNCHANGED <<open, journaled>>
    BY <1>4 DEF OnSkus, QInv
  <2> HIDE DEF expired, units, Fits
  <2> QED
    BY <1>2, <2>2, <2>3, <2>4 DEF QuantitiesKept
<1> HIDE DEF Fits
<1> QED
  BY <1>1, <1>3, <1>4

(* A quantity that a seller sets leaves the holds alone, and unless the    *)
(* journal knows the seller's key, the journal takes the difference.       *)
LEMMA SetMoves ==
    ASSUME IInv, QInv, NEW w \in Workers, SetStock(w)
    PROVE  /\ OnSkus(available') /\ OnSkus(reserved') /\ OnSkus(ledger')
           /\ \A s \in Skus : QuantityOK(s)'
           /\ \A s \in Skus : <<cmd[w].key, s>> \notin journaled => Balanced(s)
           /\ journaled' \subseteq ClientKeys \X Skus
           /\ UNCHANGED <<open, faults>>
<1>1. cmd[w].level \in 0..MaxQuantity /\ cmd[w].key \in ClientKeys \cup {None}
  <2>1. cmd[w] \in Commands /\ cmd[w].op = "set"
    BY DEF SetStock, Ready, IInv, Typed
  <2>2. cmd[w].level \in Levels /\ cmd[w].key \in ClientKeys \cup {None}
    BY <2>1 DEF Commands
  <2> QED
    BY <2>2, InventoryAssumption
<1>2. PICK level, key : level = cmd[w].level /\ key = cmd[w].key
  OBVIOUS
<1>3. PICK x \in Skus : /\ Correct(x, level - available[x], key)
                        /\ available' = [available EXCEPT ![x] = level]
  BY <1>2 DEF SetStock, Locked
<1>4. UNCHANGED <<open, reserved, hold, faults>>
  BY DEF SetStock
<1>5. \A s \in Skus : QuantityOK(s)
  BY DEF QInv
<1>6. /\ \/ UNCHANGED <<ledger, journaled>>
         \/ /\ ledger' = [ledger EXCEPT ![x] = ledger[x] + (level - available[x])]
            /\ \/ journaled' = journaled
               \/ journaled' = journaled \cup {<<key, x>>} /\ key # None
      /\ level - available[x] # 0 /\ <<key, x>> \notin journaled
            => ledger' = [ledger EXCEPT ![x] = ledger[x] + (level - available[x])]
  BY <1>3 DEF Correct
<1>7. journaled' \subseteq ClientKeys \X Skus
  BY <1>1, <1>2, <1>6 DEF QInv
<1>8. OnSkus(available') /\ OnSkus(reserved') /\ OnSkus(ledger')
  BY <1>3, <1>4, <1>6 DEF OnSkus, QInv
<1>9. ASSUME NEW s \in Skus
      PROVE  QuantityOK(s)' /\ (<<key, s>> \notin journaled => Balanced(s))
  <2>1. HeldOn(s)' = HeldOn(s)
    BY <1>4 DEF HeldOn
  <2>2. (Units(s, HeldOn(s)))' = Units(s, HeldOn(s)')
    OBVIOUS
  <2>3. QuantityOK(s) /\ QuantityOK(x)
    BY <1>5
  <2>4. available'[s] = IF s = x THEN level ELSE available[s]
    BY <1>3 DEF OnSkus, QInv
  <2>5. ledger'[s] \in {ledger[s], ledger[s] + (level - available[s])}
    BY <1>6 DEF OnSkus, QInv
  <2>6. available'[s] \in 0..MaxQuantity /\ ledger'[s] \in Int /\ reserved'[s] = reserved[s]
    BY <1>1, <1>2, <1>4, <2>3, <2>4, <2>5 DEF QuantityOK
  <2>7. QuantityOK(s)'
    BY <2>1, <2>2, <2>3, <2>6 DEF QuantityOK
  <2>8. ASSUME <<key, s>> \notin journaled PROVE Balanced(s)
    <3>1. CASE s # x
      <4>1. ledger'[s] = ledger[s]
        BY <1>6, <3>1 DEF OnSkus, QInv
      <4> QED
        BY <1>4, <2>3, <2>4, <3>1, <4>1 DEF Balanced, QuantityOK
    <3>2. CASE s = x /\ level - available[x] = 0
      <4>1. ledger'[s] = ledger[s]
        BY <1>3, <3>2 DEF Correct
      <4> QED
        BY <1>1, <1>2, <1>4, <2>3, <2>4, <3>2, <4>1 DEF Balanced, QuantityOK
    <3>3. CASE s = x /\ level - available[x] # 0
      <4>1. ledger'[s] = ledger[s] + (level - available[s])
        BY <1>6, <2>8, <3>3 DEF OnSkus, QInv
      <4> QED
        BY <1>1, <1>2, <1>4, <2>3, <2>4, <3>3, <4>1 DEF Balanced, QuantityOK
    <3> QED
      BY <3>1, <3>2, <3>3
  <2> QED
    BY <2>7, <2>8
<1> QED
  BY <1>2, <1>4, <1>7, <1>8, <1>9

-----------------------------------------------------------------------------
(* At first there is no unit and no hold.                                  *)
LEMMA QInitially == Init => QInv
<1> SUFFICES ASSUME Init PROVE QInv
  OBVIOUS
<1>1. \A s \in Skus : HeldOn(s) = {}
  BY DEF Init, HeldOn
<1>2. IsFiniteSet({})
  BY FS_EmptySet
<1>3. ASSUME NEW s \in Skus PROVE QuantityOK(s)
  <2>1. available[s] = 0 /\ reserved[s] = 0 /\ ledger[s] = 0
    BY DEF Init
  <2>2. Units(s, HeldOn(s)) = 0
    BY <1>1, UnitsOfNone
  <2>3. IsFiniteSet(HeldOn(s))
    BY <1>1, <1>2
  <2>4. 0 \in 0..MaxQuantity /\ 0 \in Int
    BY InventoryAssumption
  <2> QED
    BY <2>1, <2>2, <2>3, <2>4 DEF QuantityOK
<1> QED
  BY <1>3, InventoryAssumption DEF Init, QInv, OnSkus

(* A step keeps the quantities, and their balance with the journal unless  *)
(* it sets a quantity under a key that the journal knows.                  *)
LEMMA QInductive ==
    ASSUME IInv, QInv, [Next]_vars
    PROVE  /\ QInv'
           /\ journaled = {} => \A s \in Skus : Balanced(s)
<1> DEFINE Rest == /\ UNCHANGED <<open, journaled>>
                   /\ sets' \in 0..MaxSets /\ faults' \in 0..MaxFaults
<1>a. sets \in 0..MaxSets /\ faults \in 0..MaxFaults /\ MaxSets \in Nat /\ MaxFaults \in Nat
  BY InventoryAssumption DEF QInv
<1>b. ASSUME QuantitiesKept, Rest
      PROVE  QInv' /\ \A s \in Skus : Balanced(s)
  BY <1>b DEF QuantitiesKept, QInv
<1>c. ASSUME UNCHANGED stock, sets' \in 0..MaxSets, faults' \in 0..MaxFaults
      PROVE  QInv' /\ \A s \in Skus : Balanced(s)
  BY <1>b, <1>c, StillKeeps DEF stock
<1>1. CASE UNCHANGED vars
  BY <1>1, <1>a, <1>c DEF vars
<1>2. ASSUME NEW x \in Skus, EnsureStock(x)
      PROVE  QInv' /\ \A s \in Skus : Balanced(s)
  <2>1. UNCHANGED <<available, reserved, hold, ledger, journaled, sets, faults>>
    BY <1>2 DEF EnsureStock
  <2>2. QuantitiesKept
    BY <2>1, StillKeeps
  <2>3. open' \subseteq Skus
    BY <1>2 DEF EnsureStock, QInv
  <2> QED
    BY <2>1, <2>2, <2>3 DEF QuantitiesKept, QInv
<1>3. ASSUME NEW r \in Reservations, TimePasses(r)
      PROVE  QInv' /\ \A s \in Skus : Balanced(s)
  BY <1>3, <1>a, <1>c DEF TimePasses
<1>4. ASSUME NEW w \in Workers, Command(w) \/ BeginExpire(w) \/ Lock(w) \/ Abort(w)
      PROVE  QInv' /\ \A s \in Skus : Balanced(s)
  <2>1. UNCHANGED stock
    BY <1>4 DEF Command, BeginReserve, BeginResolve, BeginSet, BeginExpire, Begin, Lock, Abort
  <2>2. UNCHANGED sets \/ (sets < MaxSets /\ sets' = sets + 1)
    BY <1>4 DEF Command, BeginReserve, BeginResolve, BeginSet, BeginExpire, Begin, Lock, Abort,
       End
  <2>3. UNCHANGED faults \/ (faults < MaxFaults /\ faults' = faults + 1)
    BY <1>4 DEF Command, BeginReserve, BeginResolve, BeginSet, BeginExpire, Begin, Lock, Abort
  <2>4. sets' \in 0..MaxSets /\ faults' \in 0..MaxFaults
    BY <1>a, <2>2, <2>3
  <2> QED
    BY <1>c, <2>1, <2>4
<1>5. ASSUME NEW w \in Workers,
             \/ Reserve(w) \/ Expire(w)
             \/ \E op \in {"commit", "release", "restore"} : Resolve(w, op)
      PROVE  QInv' /\ \A s \in Skus : Balanced(s)
  <2>1. UNCHANGED sets
    BY <1>5 DEF Reserve, Expire, Resolve, End
  <2>2. QuantitiesKept /\ UNCHANGED <<open, journaled, faults>>
    BY <1>5, ReserveMoves, ExpireMoves, ResolveMovesUnits
  <2> QED
    BY <1>a, <1>b, <2>1, <2>2
<1>6. ASSUME NEW w \in Workers, SetStock(w)
      PROVE  QInv' /\ (journaled = {} => \A s \in Skus : Balanced(s))
  <2>1. UNCHANGED sets
    BY <1>6 DEF SetStock, End
  <2>2. /\ OnSkus(available') /\ OnSkus(reserved') /\ OnSkus(ledger')
        /\ \A s \in Skus : QuantityOK(s)'
        /\ \A s \in Skus : <<cmd[w].key, s>> \notin journaled => Balanced(s)
        /\ journaled' \subseteq ClientKeys \X Skus
        /\ UNCHANGED <<open, faults>>
    BY <1>6, SetMoves
  <2> QED
    BY <2>1, <2>2 DEF QInv
<1> QED
  BY <1>1, <1>2, <1>3, <1>4, <1>5, <1>6 DEF Next, Work

(* Both invariants hold in every reachable state.                          *)
LEMMA QInvariance == Spec => [](IInv /\ QInv)
<1>1. Init => IInv /\ QInv
  BY Initially, QInitially
<1>2. IInv /\ QInv /\ [Next]_vars => (IInv /\ QInv)'
  BY Inductive, QInductive
<1> QED
  BY <1>1, <1>2, PTL DEF Spec

(* Quantities keep within the kernel's limit and never become negative,    *)
(* and a row lock belongs to a transaction that runs.                      *)
THEOREM TypeCorrect == Spec => []TypeOK
<1>1. IInv /\ QInv => TypeOK
  <2> SUFFICES ASSUME IInv, QInv PROVE TypeOK
    OBVIOUS
  <2>1. /\ available \in [Skus -> 0..MaxQuantity]
        /\ reserved \in [Skus -> 0..MaxQuantity]
        /\ ledger \in [Skus -> Int]
    <3>1. \A s \in Skus : /\ available[s] \in 0..MaxQuantity
                          /\ reserved[s] \in 0..MaxQuantity
                          /\ ledger[s] \in Int
      BY DEF QInv, QuantityOK
    <3>2. OnSkus(available) /\ OnSkus(reserved) /\ OnSkus(ledger)
      BY DEF QInv
    <3> QED
      BY <3>1, <3>2 DEF OnSkus
  <2>2. ASSUME NEW s \in Skus, lock[s] # None PROVE cmd[lock[s]] # Idle
    <3>1. PICK w \in Workers : w = lock[s]
      BY <2>2 DEF IInv, Typed
    <3>2. s \in Locked(w)
      BY <3>1 DEF Locked
    <3>3. RowsOK(w)
      BY DEF IInv
    <3> QED
      BY <3>1, <3>2, <3>3 DEF RowsOK
  <2> QED
    BY <2>1, <2>2 DEF TypeOK, IInv, Typed, QInv
<1> QED
  BY <1>1, QInvariance, PTL

(* Every reserved unit of an item is in one of its holds and every hold is *)
(* counted, whatever keys sellers send.                                    *)
THEOREM ReservedAlwaysHeld == Spec => []ReservedIsHeld
<1>1. QInv => ReservedIsHeld
  BY DEF QInv, QuantityOK, HeldOn, ReservedIsHeld
<1> QED
  BY <1>1, QInvariance, PTL

(* Without client keys, the quantities add up to the journal as well: each *)
(* step balances what it moves.  Under a key that is sent again, SetStock  *)
(* changes the quantity and the journal refuses the movement.              *)
THEOREM StockAlwaysAddsUp == ASSUME ClientKeys = {} PROVE Spec => []StockAddsUp
<1>1. QInv => journaled = {}
  BY DEF QInv
<1>2. Init => JournalMatches
  BY DEF Init, JournalMatches
<1>3. IInv /\ QInv /\ JournalMatches /\ [Next]_vars => JournalMatches'
  <2> SUFFICES ASSUME IInv, QInv, JournalMatches, [Next]_vars,
                      NEW s \in Skus
               PROVE  available'[s] + reserved'[s] = ledger'[s]
    BY DEF JournalMatches
  <2>1. Balanced(s) /\ QInv'
    BY <1>1, QInductive
  <2>2. available[s] + reserved[s] = ledger[s]
    BY DEF JournalMatches
  <2>3. QuantityOK(s) /\ QuantityOK(s)'
    BY <2>1 DEF QInv
  <2>4. available[s] \in Int /\ reserved[s] \in Int /\ ledger[s] \in Int
    BY <2>3, InventoryAssumption DEF QuantityOK
  <2>5. available'[s] \in Int /\ reserved'[s] \in Int /\ ledger'[s] \in Int
    BY <2>3, InventoryAssumption DEF QuantityOK
  <2>6. available'[s] + reserved'[s] - ledger'[s] = available[s] + reserved[s] - ledger[s]
    BY <2>1 DEF Balanced
  <2>7. PICK a \in Int, b \in Int, c \in Int : a = available'[s] /\ b = reserved'[s] /\ c = ledger'[s]
    BY <2>5
  <2>8. a + b - c = 0
    BY <2>2, <2>4, <2>6, <2>7
  <2>9. a + b = c
    BY <2>8
  <2> QED
    BY <2>7, <2>9
<1>4. Spec => []JournalMatches
  BY <1>2, <1>3, QInvariance, PTL DEF Spec
<1>5. ReservedIsHeld /\ JournalMatches /\ AllOrNothing => StockAddsUp
  BY DEF StockAddsUp
<1> QED
  BY <1>4, <1>5, ReservedAlwaysHeld, AlwaysAllOrNothing, PTL

-----------------------------------------------------------------------------
(* Sellers and settlement.                                                 *)

Ops == {"legal", "bank", "attach", "submit", "add", "remove", "approve", "reject",
        "verify", "suspend", "reinstate", "terminate", "override", "clear", "performance"}

Fields == {"status", "owner", "legal", "bank", "verified", "documents", "members",
           "overrides", "rating", "version"}

IsRow(row) == DOMAIN row = Fields /\ row.version \in Nat

IsCall(c) ==
    /\ DOMAIN c = {"at", "op", "id", "actor", "arg", "row"}
    /\ c.at \in {"idle", "root", "children", "category", "save"}

RowsTyped ==
    /\ DOMAIN seller = Sellers
    /\ DOMAIN filed = Sellers
    /\ DOMAIN call = Callers
    /\ \A s \in Sellers : IsRow(seller[s])
    /\ \A r \in Callers : IsCall(call[r])

(* What a decision is about is in two rows the same.                       *)
Agree(a, b) ==
    /\ a.status = b.status /\ a.legal = b.legal
    /\ a.bank = b.bank /\ a.documents = b.documents

(* A seller before its moderator is as it was submitted; without a version *)
(* it does not exist.                                                      *)
SellerOK(s) ==
    /\ seller[s].version = 0 => seller[s].status = "none" /\ seller[s].bank = Absent
    /\ seller[s].status = "pending_review" =>
          filed[s] = [legal |-> seller[s].legal, documents |-> seller[s].documents]

(* The row a request has is the seller, children included, or older.       *)
RowOK(c) ==
    /\ c.id \in Sellers
    /\ IsRow(c.row)
    /\ c.row.version <= seller[c.id].version
    /\ c.row.version = seller[c.id].version => Agree(c.row, seller[c.id])

CallOK(c) ==
    /\ c.at \in {"root", "children"} => c.id \in Sellers /\ c.op \in Ops
    /\ c.at = "children" => RowOK(c)
    /\ c.at = "save" =>
          \/ c.op \in Ops /\ RowOK(c)
          \/ /\ c.op = "open" /\ c.id \in Sellers /\ IsRow(c.row)
             /\ c.row.version = 0 /\ c.row.status = "draft" /\ c.row.bank = Absent
          \/ c.op = "category"
    /\ c.at = "category" => c.op = "category"

SellerInv ==
    /\ RowsTyped
    /\ \A s \in Sellers : SellerOK(s)
    /\ \A r \in Callers : CallOK(call[r])

-----------------------------------------------------------------------------
(* A status is changed, or the change is refused.                          *)
LEMMA Transitions ==
    ASSUME NEW row, IsRow(row), NEW target, NEW after,
           after = Transition(row, target), after # Absent
    PROVE  /\ IsRow(after) /\ after.status = target
           /\ after.version = row.version /\ after.legal = row.legal
           /\ after.bank = row.bank /\ after.documents = row.documents
BY DEF Transition, IsRow, Fields

(* What any method makes of a row: only an approval or a reinstatement     *)
(* makes it active, only a submission brings it before a moderator, and    *)
(* nothing changes what is before one.                                     *)
LEMMA Methods ==
    ASSUME NEW op \in Ops, NEW actor, NEW arg, NEW row, IsRow(row),
           NEW after, after = Changed(op, actor, arg, row), after # Absent
    PROVE  /\ IsRow(after) /\ after.version = row.version
           /\ after.bank # row.bank => ~ after.verified
           /\ after.status = "active" => row.status \in {"active", "suspended", "pending_review"}
           /\ after.status = "pending_review" /\ op # "submit" => row.status = "pending_review"
           /\ row.status = "pending_review" =>
                 after.legal = row.legal /\ after.documents = row.documents
<1> DEFINE Kept == /\ IsRow(after) /\ after.version = row.version
                   /\ after.legal = row.legal /\ after.documents = row.documents
           Same == Kept /\ after.status = row.status
<1>1. CASE op = "legal"
  <2>1. after = UpdateLegalDetails(row, actor, arg)
    BY <1>1 DEF Changed
  <2> QED
    BY <1>1, <2>1 DEF UpdateLegalDetails, IsRow, Fields
<1>2. CASE op = "bank"
  <2>1. after = ChangeBankAccount(row, actor, arg)
    BY <1>2 DEF Changed
  <2>2. Same /\ (after.bank # row.bank => ~ after.verified)
    BY <2>1 DEF ChangeBankAccount, IsRow, Fields
  <2> QED
    BY <2>2
<1>3. CASE op = "attach"
  <2>1. after = AttachDocument(row, actor, arg)
    BY <1>3 DEF Changed
  <2> QED
    BY <1>3, <2>1 DEF AttachDocument, IsRow, Fields
<1>4. CASE op = "submit"
  <2>1. after = Transition(row, "pending_review")
    BY <1>4 DEF Changed, SubmitForReview
  <2> QED
    BY <1>4, <2>1, Transitions
<1>5. CASE op = "add"
  <2>1. after = AddMember(row, actor, arg[1], arg[2])
    BY <1>5 DEF Changed
  <2>2. Same /\ after.bank = row.bank
    BY <2>1 DEF AddMember, IsRow, Fields
  <2> QED
    BY <2>2
<1>6. CASE op = "remove"
  <2>1. after = RemoveMember(row, actor, arg)
    BY <1>6 DEF Changed
  <2>2. Same /\ after.bank = row.bank
    BY <2>1 DEF RemoveMember, IsRow, Fields
  <2> QED
    BY <2>2
<1>7. CASE op = "approve"
  <2>1. after = Approve(row)
    BY <1>7 DEF Changed
  <2> QED
    BY <1>7, <2>1 DEF Approve, IsRow, Fields
<1>8. CASE op = "reject"
  <2>1. after = Transition(row, "draft")
    BY <1>8 DEF Changed, Reject
  <2> QED
    BY <2>1, Transitions
<1>9. CASE op = "verify"
  <2>1. after = VerifyBankAccount(row)
    BY <1>9 DEF Changed
  <2>2. Same /\ after.bank = row.bank
    BY <2>1 DEF VerifyBankAccount, IsRow, Fields
  <2> QED
    BY <2>2
<1>10. CASE op = "suspend"
  <2>1. after = Transition(row, "suspended")
    BY <1>10 DEF Changed, Suspend
  <2> QED
    BY <2>1, Transitions
<1>11. CASE op = "reinstate"
  <2>1. row.status = "suspended" /\ after = Transition(row, "active")
    BY <1>11 DEF Changed, Reinstate
  <2> QED
    BY <2>1, Transitions
<1>12. CASE op = "terminate"
  <2>1. after = Transition(row, "terminated")
    BY <1>12 DEF Changed, Terminate
  <2> QED
    BY <2>1, Transitions
<1>13. CASE op = "override"
  <2>1. after = SetCommissionOverride(row, arg[1], arg[2])
    BY <1>13 DEF Changed
  <2>2. Same /\ after.bank = row.bank
    BY <2>1 DEF SetCommissionOverride, IsRow, Fields
  <2> QED
    BY <2>2
<1>14. CASE op = "clear"
  <2>1. after = ClearCommissionOverride(row, arg)
    BY <1>14 DEF Changed
  <2>2. Same /\ after.bank = row.bank
    BY <2>1 DEF ClearCommissionOverride, IsRow, Fields
  <2> QED
    BY <2>2
<1>15. CASE op = "performance"
  <2>1. PICK rated : rated = [row EXCEPT !.rating = Calculate(arg)]
    OBVIOUS
  <2>2. /\ IsRow(rated) /\ rated.version = row.version /\ rated.status = row.status
        /\ rated.legal = row.legal /\ rated.bank = row.bank
        /\ rated.documents = row.documents
    BY <2>1 DEF IsRow, Fields
  <2>3. after = ApplyPerformance(row, arg)
    BY <1>15 DEF Changed
  <2>4. after = rated \/ after = Transition(rated, "suspended")
    BY <2>1, <2>3 DEF ApplyPerformance, Suspend
  <2>5. CASE after = rated
    BY <2>2, <2>5
  <2>6. CASE after = Transition(rated, "suspended")
    BY <2>2, <2>6, Transitions
  <2> QED
    BY <2>4, <2>5, <2>6
<1> QED
  BY <1>1, <1>2, <1>3, <1>4, <1>5, <1>6, <1>7, <1>8, <1>9, <1>10, <1>11, <1>12, <1>13,
     <1>14, <1>15 DEF Ops

-----------------------------------------------------------------------------
(* Nobody has read or submitted anything yet.                              *)
LEMMA SellerInitially == SellerInit => SellerInv
<1> SUFFICES ASSUME SellerInit PROVE SellerInv
  OBVIOUS
<1>1. \A s \in Sellers : seller[s] = NoSeller
  BY DEF SellerInit
<1>2. \A r \in Callers : call[r] = Quiet
  BY DEF SellerInit
<1>3. IsRow(NoSeller)
  BY DEF NoSeller, IsRow, Fields
<1>4. IsCall(Quiet) /\ CallOK(Quiet)
  BY DEF Quiet, IsCall, CallOK
<1>5. RowsTyped
  BY <1>1, <1>2, <1>3, <1>4 DEF SellerInit, RowsTyped
<1>6. \A s \in Sellers : SellerOK(s)
  BY <1>1 DEF SellerOK, NoSeller
<1> QED
  BY <1>2, <1>4, <1>5, <1>6 DEF SellerInv

(* A step that changes no seller is harmless when the call it leaves is.   *)
LEMMA Reading ==
    ASSUME SellerInv, NEW r \in Callers, NEW after, IsCall(after), CallOK(after),
           call' = [call EXCEPT ![r] = after], UNCHANGED <<seller, filed>>
    PROVE  SellerInv'
<1> USE DEF SellerInv
<1>1. \A q \in Callers : call'[q] = IF q = r THEN after ELSE call[q]
  BY DEF RowsTyped
<1>2. RowsTyped'
  BY <1>1 DEF RowsTyped
<1>3. \A s \in Sellers : SellerOK(s)'
  BY DEF SellerOK
<1>4. \A q \in Callers : CallOK(call[q])'
  <2> SUFFICES ASSUME NEW q \in Callers PROVE CallOK(call[q])'
    OBVIOUS
  <2>1. CallOK(call'[q])
    BY <1>1
  <2> QED
    BY <2>1 DEF CallOK, RowOK
<1> QED
  BY <1>2, <1>3, <1>4

(* What another request has read is as old, or older, after a save.        *)
LEMMA Saved ==
    ASSUME RowsTyped, NEW id \in Sellers, NEW row, IsRow(row),
           row.version = seller[id].version, Save(id, row), NEW c, CallOK(c)
    PROVE  CallOK(c)'
<1>1. \A s \in Sellers : seller[s].version \in Nat
  BY DEF RowsTyped, IsRow
<1>2. seller'[id].version = seller[id].version + 1
  BY DEF Save, RowsTyped, IsRow, Fields
<1>3. \A s \in Sellers \ {id} : seller'[s] = seller[s]
  BY DEF Save, RowsTyped
<1>4. RowOK(c) => RowOK(c)'
  <2> SUFFICES ASSUME RowOK(c) PROVE RowOK(c)'
    OBVIOUS
  <2>1. c.id \in Sellers /\ c.row.version \in Nat /\ c.row.version <= seller[c.id].version
    BY DEF RowOK, IsRow
  <2>2. CASE c.id = id
    BY <1>1, <1>2, <2>1, <2>2 DEF RowOK
  <2>3. CASE c.id # id
    BY <1>3, <2>1, <2>3 DEF RowOK
  <2> QED
    BY <2>2, <2>3
<1> QED
  BY <1>4 DEF CallOK

LEMMA Starts ==
    ASSUME SellerInv, NEW r \in Callers, NEW id \in Sellers, NEW actor, NEW op, NEW arg,
           op \in Ops, StartCall(r, id, actor, op, arg)
    PROVE  SellerInv' /\ UNCHANGED seller
<1> DEFINE after == [at |-> "root", op |-> op, id |-> id, actor |-> actor,
                     arg |-> arg, row |-> NoSeller]
<1>1. call' = [call EXCEPT ![r] = after] /\ UNCHANGED <<seller, filed>>
  BY DEF StartCall
<1>2. IsCall(after) /\ CallOK(after)
  BY DEF IsCall, CallOK
<1> HIDE DEF after
<1> QED
  BY <1>1, <1>2, Reading

LEMMA Opens ==
    ASSUME SellerInv, NEW r \in Callers, NEW id \in Sellers, NEW owner, NEW legal,
           StartOpen(r, id, owner, legal)
    PROVE  SellerInv' /\ UNCHANGED seller
<1> DEFINE row == OpenApplication(owner, legal)
           after == [at |-> "save", op |-> "open", id |-> id, actor |-> owner,
                     arg |-> Absent, row |-> row]
<1>1. call' = [call EXCEPT ![r] = after] /\ UNCHANGED <<seller, filed>>
  BY DEF StartOpen
<1>2. IsRow(row) /\ row.version = 0 /\ row.status = "draft" /\ row.bank = Absent
  BY DEF OpenApplication, NoSeller, IsRow, Fields
<1> HIDE DEF row
<1>3. IsCall(after) /\ CallOK(after)
  BY <1>2 DEF IsCall, CallOK
<1> HIDE DEF after
<1> QED
  BY <1>1, <1>3, Reading

(* The row of the seller is read as it is.                                 *)
LEMMA Finds ==
    ASSUME SellerInv, NEW r \in Callers, FindByID(r)
    PROVE  SellerInv' /\ UNCHANGED seller
<1>1. PICK c : c = call[r]
  OBVIOUS
<1>2. PICK row : row = seller[c.id]
  OBVIOUS
<1>3. PICK after : after = [c EXCEPT !.at = "children", !.row = row]
  OBVIOUS
<1>4. IsCall(c) /\ CallOK(c) /\ c.at = "root"
  BY <1>1 DEF SellerInv, RowsTyped, FindByID
<1>5. c.id \in Sellers /\ c.op \in Ops /\ IsRow(row)
  BY <1>2, <1>4 DEF CallOK, SellerInv, RowsTyped
<1>6. call' = [call EXCEPT ![r] = after] /\ UNCHANGED <<seller, filed>>
  BY <1>1, <1>2, <1>3 DEF FindByID, SellerInv, RowsTyped
<1>7. /\ IsCall(after) /\ after.at = "children" /\ after.op = c.op
      /\ after.id = c.id /\ after.row = row
  BY <1>3, <1>4 DEF IsCall
<1>8. RowOK(after)
  BY <1>2, <1>5, <1>7 DEF RowOK, Agree, IsRow
<1>9. CallOK(after)
  BY <1>5, <1>7, <1>8 DEF CallOK
<1> QED
  BY <1>6, <1>7, <1>9, Reading

(* Its children are read: if the version is still the one of the row, they *)
(* are the ones of that version.                                           *)
LEMMA Loads ==
    ASSUME SellerInv, NEW r \in Callers, LoadChildren(r)
    PROVE  SellerInv' /\ UNCHANGED seller
<1>1. PICK c : c = call[r]
  OBVIOUS
<1>2. PICK now : now = seller[c.id]
  OBVIOUS
<1>3. PICK after : after = [c EXCEPT !.at = "save", !.row.members = now.members,
                                     !.row.documents = now.documents,
                                     !.row.overrides = now.overrides]
  OBVIOUS
<1>4. PICK row : row = after.row
  OBVIOUS
<1>5. IsCall(c) /\ CallOK(c) /\ c.at = "children"
  BY <1>1 DEF SellerInv, RowsTyped, LoadChildren
<1>6. c.op \in Ops /\ RowOK(c)
  BY <1>5 DEF CallOK
<1>7. c.id \in Sellers /\ IsRow(c.row)
  BY <1>6 DEF RowOK
<1>8. /\ IsRow(row) /\ row.version = c.row.version /\ row.status = c.row.status
      /\ row.legal = c.row.legal /\ row.bank = c.row.bank
      /\ row.documents = now.documents
  BY <1>3, <1>4, <1>5, <1>7 DEF IsRow, Fields, IsCall
<1>9. call' = [call EXCEPT ![r] = after] /\ UNCHANGED <<seller, filed>>
  BY <1>1, <1>2, <1>3 DEF LoadChildren, SellerInv, RowsTyped
<1>10. /\ IsCall(after) /\ after.at = "save" /\ after.op = c.op
       /\ after.id = c.id /\ after.row = row
  BY <1>3, <1>4, <1>5 DEF IsCall
<1>11. RowOK(after)
  BY <1>2, <1>6, <1>7, <1>8, <1>10 DEF RowOK, Agree
<1>12. CallOK(after)
  BY <1>6, <1>10, <1>11 DEF CallOK
<1> QED
  BY <1>9, <1>10, <1>12, Reading

(* The seller as a step finds it and as it leaves it.                      *)
Decided(s, before, now) ==
    /\ now.status = "active" /\ before.status # "active" =>
          \/ before.status = "suspended"
          \/ /\ before.status = "pending_review"
             /\ filed[s] = [legal |-> now.legal, documents |-> now.documents]
    /\ now.bank # before.bank => ~ now.verified

(* A save takes place on the version that was read, so that what a method  *)
(* makes of the row is what it would have made of the seller.              *)
LEMMA Commits ==
    ASSUME SellerInv, NEW r \in Callers, Commit(r)
    PROVE  SellerInv' /\ \A s \in Sellers : Decided(s, seller[s], seller'[s])
<1>1. PICK c : c = call[r]
  OBVIOUS
<1>2. PICK row : row = IF c.op = "open" THEN c.row
                       ELSE IF c.op \in MemberOps /\ ~ IsMember(c.row, c.actor) THEN Absent
                       ELSE Changed(c.op, c.actor, c.arg, c.row)
  OBVIOUS
<1>3. /\ RowsTyped /\ IsCall(c) /\ CallOK(c) /\ c.at = "save" /\ c.op # "category"
      /\ \A s \in Sellers : IsRow(seller[s]) /\ SellerOK(s)
      /\ \A q \in Callers : CallOK(call[q])
  BY <1>1 DEF SellerInv, RowsTyped, Commit
<1>4. c.id \in Sellers /\ IsRow(c.row)
  BY <1>3 DEF CallOK, RowOK
<1>5. PICK old : old = seller[c.id]
  OBVIOUS
<1>6. IsRow(old)
  BY <1>3, <1>4, <1>5
<1>7. \A q \in Callers : call'[q] = IF q = r THEN Quiet ELSE call[q]
  BY <1>3 DEF Commit, RowsTyped
<1>8. IsCall(Quiet) /\ CallOK(Quiet)' /\ CallOK(Quiet)
  BY DEF IsCall, CallOK, Quiet
<1>9. DOMAIN call' = Callers /\ \A q \in Callers : IsCall(call'[q])
  BY <1>3, <1>7, <1>8 DEF Commit, RowsTyped
<1>10. CASE ~ (row # Absent /\ CanSave(c.id, row))
  <2>1. UNCHANGED <<seller, filed>>
    BY <1>1, <1>2, <1>10 DEF Commit
  <2>2. call' = [call EXCEPT ![r] = Quiet]
    BY DEF Commit
  <2>3. SellerInv'
    BY <1>8, <2>1, <2>2, Reading
  <2>4. \A s \in Sellers : Decided(s, seller[s], seller'[s])
    BY <2>1 DEF Decided
  <2> QED
    BY <2>3, <2>4
<1>11. CASE row # Absent /\ CanSave(c.id, row)
  <2>1. /\ Save(c.id, row)
        /\ filed' = IF c.op = "submit"
             THEN [filed EXCEPT ![c.id] = [legal |-> row.legal, documents |-> row.documents]]
             ELSE filed
    BY <1>1, <1>2, <1>11 DEF Commit
  <2>2. old.version = row.version
    BY <1>5, <1>11 DEF CanSave
  <2>3. /\ IsRow(row)
        /\ row.bank # old.bank => ~ row.verified
        /\ row.status = "active" => old.status \in {"active", "suspended", "pending_review"}
        /\ row.status = "pending_review" /\ c.op # "submit" => old.status = "pending_review"
        /\ old.status = "pending_review" =>
              row.legal = old.legal /\ row.documents = old.documents
    <3>1. CASE c.op = "open"
      <4>1. row = c.row /\ row.version = 0 /\ row.status = "draft" /\ row.bank = Absent
        BY <1>2, <1>3, <3>1 DEF CallOK, Ops
      <4>2. old.status = "none" /\ old.bank = Absent
        BY <1>3, <1>4, <1>5, <2>2, <4>1 DEF SellerOK
      <4> QED
        BY <1>4, <4>1, <4>2
    <3>2. CASE c.op # "open"
      <4>1. c.op \in Ops /\ RowOK(c)
        BY <1>3, <3>2 DEF CallOK
      <4>2. row = Changed(c.op, c.actor, c.arg, c.row)
        BY <1>2, <1>11, <3>2
      <4>3. /\ IsRow(row) /\ row.version = c.row.version
            /\ row.bank # c.row.bank => ~ row.verified
            /\ row.status = "active" => c.row.status \in {"active", "suspended", "pending_review"}
            /\ row.status = "pending_review" /\ c.op # "submit" => c.row.status = "pending_review"
            /\ c.row.status = "pending_review" =>
                  row.legal = c.row.legal /\ row.documents = c.row.documents
        BY <1>4, <1>11, <4>1, <4>2, Methods
      <4>4. /\ c.row.status = old.status /\ c.row.legal = old.legal
            /\ c.row.bank = old.bank /\ c.row.documents = old.documents
        BY <1>5, <2>2, <4>1, <4>3 DEF RowOK, Agree
      <4> QED
        BY <4>3, <4>4
    <3> QED
      BY <3>1, <3>2
  <2>4. PICK new : new = [row EXCEPT !.version = @ + 1]
    OBVIOUS
  <2>5. /\ IsRow(new) /\ new.version = old.version + 1 /\ new.status = row.status
        /\ new.legal = row.legal /\ new.documents = row.documents
        /\ new.bank = row.bank /\ new.verified = row.verified
    BY <2>2, <2>3, <2>4 DEF IsRow, Fields
  <2>6. \A s \in Sellers : seller'[s] = IF s = c.id THEN new ELSE seller[s]
    BY <1>3, <2>1, <2>4 DEF Save, RowsTyped
  <2>7. RowsTyped'
    BY <1>3, <1>9, <2>1, <2>5, <2>6 DEF RowsTyped, Save
  <2>8. \A s \in Sellers : SellerOK(s)'
    <3> SUFFICES ASSUME NEW s \in Sellers PROVE SellerOK(s)'
      OBVIOUS
    <3>1. CASE s # c.id
      <4>1. seller'[s] = seller[s] /\ filed'[s] = filed[s]
        BY <1>3, <2>1, <2>6, <3>1 DEF RowsTyped
      <4> QED
        BY <1>3, <4>1 DEF SellerOK
    <3>2. CASE s = c.id
      <4>1. seller'[s] = new /\ new.version # 0
        BY <1>6, <2>5, <2>6, <3>2 DEF IsRow
      <4>2. new.status = "pending_review" =>
               filed'[s] = [legal |-> new.legal, documents |-> new.documents]
        <5>1. CASE c.op = "submit"
          BY <1>3, <2>1, <2>5, <3>2, <5>1 DEF RowsTyped
        <5>2. CASE c.op # "submit"
          BY <1>3, <1>4, <1>5, <2>1, <2>3, <2>5, <3>2, <5>2 DEF SellerOK
        <5> QED
          BY <5>1, <5>2
      <4> QED
        BY <4>1, <4>2 DEF SellerOK
    <3> QED
      BY <3>1, <3>2
  <2>9. \A q \in Callers : CallOK(call[q])'
    <3> SUFFICES ASSUME NEW q \in Callers PROVE CallOK(call[q])'
      OBVIOUS
    <3>1. PICK d : d = call[q]
      OBVIOUS
    <3>2. CallOK(d)'
      BY <1>3, <1>4, <1>5, <2>1, <2>2, <2>3, <3>1, Saved
    <3>3. call'[q] = Quiet \/ call'[q] = d
      BY <1>7, <3>1
    <3> QED
      BY <1>8, <3>2, <3>3 DEF CallOK, RowOK
  <2>10. \A s \in Sellers : Decided(s, seller[s], seller'[s])
    <3> SUFFICES ASSUME NEW s \in Sellers PROVE Decided(s, seller[s], seller'[s])
      OBVIOUS
    <3>1. CASE s # c.id
      BY <2>6, <3>1 DEF Decided
    <3>2. CASE s = c.id
      <4>1. seller'[s] = new /\ seller[s] = old
        BY <1>5, <2>6, <3>2
      <4>2. old.status = "pending_review" =>
               filed[s] = [legal |-> old.legal, documents |-> old.documents]
        BY <1>3, <4>1 DEF SellerOK
      <4>3. Decided(s, old, new)
        BY <2>3, <2>5, <4>2 DEF Decided
      <4> QED
        BY <4>1, <4>3
    <3> QED
      BY <3>1, <3>2
  <2> QED
    BY <2>7, <2>8, <2>9, <2>10 DEF SellerInv
<1> QED
  BY <1>10, <1>11

(* The rates of categories are no concern of a seller's row.               *)
LEMMA CategoryCalls ==
    ASSUME SellerInv, NEW r \in Callers,
           \/ \E c \in RatedCategories, rate \in Rates : StartCategory(r, c, rate)
           \/ FindByCategory(r)
           \/ CommitRate(r)
    PROVE  SellerInv' /\ UNCHANGED seller
<1>1. CASE \E c \in RatedCategories, rate \in Rates : StartCategory(r, c, rate)
  <2>1. PICK category \in RatedCategories, rate \in Rates : StartCategory(r, category, rate)
    BY <1>1
  <2>2. PICK after : after = [Quiet EXCEPT !.at = "category", !.op = "category",
                                           !.id = category, !.arg = rate]
    OBVIOUS
  <2>3. call' = [call EXCEPT ![r] = after] /\ UNCHANGED <<seller, filed>>
    BY <2>1, <2>2 DEF StartCategory
  <2>4. IsCall(after) /\ CallOK(after)
    BY <2>2 DEF IsCall, CallOK, Quiet
  <2> QED
    BY <2>3, <2>4, Reading
<1>2. CASE FindByCategory(r)
  <2>1. PICK c : c = call[r]
    OBVIOUS
  <2>2. PICK after : after = [c EXCEPT !.at = "save", !.row = commission[c.id]]
    OBVIOUS
  <2>3. IsCall(c) /\ c.at = "category" /\ c.op = "category"
    BY <1>2, <2>1 DEF SellerInv, RowsTyped, FindByCategory, CallOK
  <2>4. call' = [call EXCEPT ![r] = after] /\ UNCHANGED <<seller, filed>>
    BY <1>2, <2>1, <2>2 DEF FindByCategory, SellerInv, RowsTyped
  <2>5. IsCall(after) /\ after.at = "save" /\ after.op = "category"
    BY <2>2, <2>3 DEF IsCall
  <2>6. CallOK(after)
    BY <2>5 DEF CallOK
  <2> QED
    BY <2>4, <2>5, <2>6, Reading
<1>3. CASE CommitRate(r)
  <2>1. call' = [call EXCEPT ![r] = Quiet] /\ UNCHANGED <<seller, filed>>
    BY <1>3 DEF CommitRate
  <2>2. IsCall(Quiet) /\ CallOK(Quiet)
    BY DEF IsCall, CallOK, Quiet
  <2> QED
    BY <2>1, <2>2, Reading
<1> QED
  BY <1>1, <1>2, <1>3

LEMMA SellerInductive ==
    ASSUME SellerInv, [SellerNext]_sellerVars
    PROVE  SellerInv' /\ \A s \in Sellers : Decided(s, seller[s], seller'[s])
<1>1. UNCHANGED seller => \A s \in Sellers : Decided(s, seller[s], seller'[s])
  BY DEF Decided
<1>2. CASE UNCHANGED sellerVars
  <2>1. UNCHANGED <<seller, filed, call>>
    BY <1>2 DEF sellerVars
  <2>2. SellerInv'
    BY <2>1 DEF SellerInv, RowsTyped, SellerOK, CallOK, RowOK
  <2> QED
    BY <1>1, <2>1, <2>2
<1>3. CASE SellerNext
  <2>1. PICK r \in Callers :
          \/ FindByID(r) \/ LoadChildren(r) \/ Commit(r)
          \/ FindByCategory(r) \/ CommitRate(r)
          \/ \E id \in Sellers, u \in Users :
                \/ \E legal \in Legal : StartOpen(r, id, u, legal)
                \/ \E op \in MayRun[r] \cap DOMAIN Arguments :
                      /\ op \notin MemberOps => u = seller[id].owner
                      /\ \E arg \in Arguments[op] : StartCall(r, id, u, op, arg)
          \/ \E c \in RatedCategories, rate \in Rates : StartCategory(r, c, rate)
    BY <1>3 DEF SellerNext
  <2>2. DOMAIN Arguments = Ops
    BY DEF Arguments, Ops
  <2>3. CASE FindByID(r)
    BY <1>1, <2>3, Finds
  <2>4. CASE LoadChildren(r)
    BY <1>1, <2>4, Loads
  <2>5. CASE Commit(r)
    BY <2>5, Commits
  <2>6. CASE FindByCategory(r) \/ CommitRate(r)
             \/ \E c \in RatedCategories, rate \in Rates : StartCategory(r, c, rate)
    BY <1>1, <2>6, CategoryCalls
  <2>7. CASE \E id \in Sellers, u \in Users, legal \in Legal : StartOpen(r, id, u, legal)
    BY <1>1, <2>7, Opens
  <2>8. CASE \E id \in Sellers, u \in Users, op \in MayRun[r] \cap DOMAIN Arguments :
               \E arg \in Arguments[op] : StartCall(r, id, u, op, arg)
    <3>1. PICK id \in Sellers, u \in Users, op \in MayRun[r] \cap DOMAIN Arguments :
            \E arg \in Arguments[op] : StartCall(r, id, u, op, arg)
      BY <2>8
    <3>2. PICK arg : StartCall(r, id, u, op, arg)
      BY <3>1
    <3>3. op \in Ops
      BY <2>2
    <3> QED
      BY <1>1, <3>2, <3>3, Starts
  <2> QED
    BY <2>1, <2>3, <2>4, <2>5, <2>6, <2>7, <2>8
<1> QED
  BY <1>2, <1>3

-----------------------------------------------------------------------------
(* A moderator who approves a seller approves what was submitted, however  *)
(* the seller's members and the staff change it between the two queries    *)
(* and the save; and no step leaves a bank account verified that has taken *)
(* the place of another.                                                   *)
THEOREM AlwaysApprovedAsSubmitted == SellerSpec => ApprovedAsSubmitted
<1> DEFINE Kept == \A s \in Sellers : Decided(s, seller[s], seller'[s])
<1>1. SellerInit => SellerInv
  BY SellerInitially
<1>2. SellerInv /\ [SellerNext]_sellerVars => SellerInv' /\ Kept
  BY SellerInductive
<1>3. Kept =>
        \A s \in Sellers :
          LET row == seller[s]
              after == seller'[s]
          IN  /\ (after.status = "active" /\ row.status # "active") =>
                   \/ row.status = "suspended"
                   \/ /\ row.status = "pending_review"
                      /\ filed[s] = [legal |-> after.legal, documents |-> after.documents]
              /\ after.bank # row.bank => ~after.verified
  BY DEF Decided
<1> HIDE DEF Kept
<1> QED
  BY <1>1, <1>2, <1>3, PTL DEF SellerSpec, ApprovedAsSubmitted

-----------------------------------------------------------------------------
(* The rating.  A share of the orders is a share.                          *)
LEMMA RatioBounded ==
    ASSUME NEW part \in Nat, NEW total \in Nat, part <= total
    PROVE  Ratio(part, total) \in BasisPoints
<1>1. CASE total = 0
  BY <1>1 DEF Ratio, BasisPoints
<1>2. CASE total # 0
  <2>1. part * 10000 \in Int /\ 0 * total <= part * 10000 /\ part * 10000 <= 10000 * total
    OBVIOUS
  <2>2. PICK a \in Int : a = part * 10000 /\ 0 * total <= a /\ a <= 10000 * total
    BY <2>1
  <2>3. a \div total \in Int /\ 0 <= a \div total /\ a \div total <= 10000
    BY <1>2, <2>2, Quotient
  <2>4. PICK share \in Int : share = a \div total /\ 0 <= share /\ share <= 10000
    BY ONLY <2>3
  <2>5. share \in BasisPoints
    <3>1. share \in Int /\ 0 <= share /\ share <= 10000
      BY ONLY <2>3, <2>4
    <3> QED
      BY ONLY <3>1 DEF BasisPoints
  <2>6. Ratio(part, total) = share
    <3>1. part * 10000 = a /\ share = a \div total
      BY ONLY <2>2, <2>4
    <3>2. Ratio(part, total) = (part * 10000) \div total
      BY ONLY <1>2 DEF Ratio
    <3> QED
      BY <3>1, <3>2
  <2> QED
    BY <2>5, <2>6
<1> QED
  BY <1>1, <1>2

(* What is left of a hundred points after a share of the orders.           *)
LEMMA PointsBounded ==
    ASSUME NEW share \in BasisPoints, NEW times \in {4, 5}
    PROVE  AtLeastZero(100 - (share * times) \div 100) \in 0 .. 100
BY DEF AtLeastZero, BasisPoints

(* The points for one to five stars.                                       *)
LEMMA StarsBounded ==
    ASSUME NEW stars \in Nat, NEW reviews \in Nat \ {0},
           reviews <= stars, stars <= 5 * reviews
    PROVE  (((stars * 100) \div reviews - 100) * 100) \div 400 \in 0 .. 100
<1>1. 100 * reviews <= stars * 100 /\ stars * 100 <= 500 * reviews /\ stars * 100 \in Int
  OBVIOUS
<1>2. PICK average \in 100 .. 500 : average = (stars * 100) \div reviews
  BY <1>1, Quotient
<1>3. ((average - 100) * 100) \div 400 \in 0 .. 100
  OBVIOUS
<1> QED
  BY <1>2, <1>3

(* A weighted mean lies between the bounds of what it is the mean of.      *)
LEMMA MeanBounded ==
    ASSUME NEW a \in 0 .. 100, NEW b \in 0 .. 100, NEW c \in 0 .. 100,
           NEW u \in Nat, NEW v \in Nat, NEW w \in Nat, u + v + w > 0
    PROVE  (a * u + b * v + c * w) \div (u + v + w) \in 0 .. 100
<1>1. PICK x \in Int : x = a * u /\ 0 <= x /\ x <= 100 * u
  BY Product
<1>2. PICK y \in Int : y = b * v /\ 0 <= y /\ y <= 100 * v
  BY Product
<1>3. PICK z \in Int : z = c * w /\ 0 <= z /\ z <= 100 * w
  BY Product
<1>4. PICK total \in Nat \ {0} : total = u + v + w
  OBVIOUS
<1>5. 0 * total <= x + y + z /\ x + y + z <= 100 * total /\ x + y + z \in Int
  <2>1. /\ 0 <= x /\ x <= 100 * u /\ 0 <= y /\ y <= 100 * v /\ 0 <= z /\ z <= 100 * w
    BY <1>1, <1>2, <1>3
  <2> QED
    BY <1>4, <2>1
<1>6. (x + y + z) \div total \in 0 .. 100
  BY <1>5, Quotient
<1> QED
  BY <1>1, <1>2, <1>3, <1>4, <1>6

LEMMA ScoreBounded ==
    ASSUME NEW m \in Metrics, ValidMetrics(m)
    PROVE  Calculate(m) \in Rating
<1>1. PICK orders \in Nat, cancelled \in Nat, late \in Nat, reviews \in Nat, stars \in Nat :
         /\ m.orders = orders /\ m.cancelled = cancelled /\ m.late = late
         /\ m.reviews = reviews /\ m.stars = stars
  BY SellerAssumption
<1>2. /\ cancelled <= orders /\ late <= orders
      /\ reviews <= stars /\ stars <= 5 * reviews
  BY <1>1 DEF ValidMetrics
<1>3. PICK lost \in BasisPoints : lost = Ratio(cancelled, orders)
  <2>1. Ratio(cancelled, orders) \in BasisPoints
    BY <1>2, RatioBounded
  <2> QED
    BY <2>1
<1>4. PICK overdue \in BasisPoints : overdue = Ratio(late, orders)
  <2>1. Ratio(late, orders) \in BasisPoints
    BY <1>2, RatioBounded
  <2> QED
    BY <2>1
<1>5. PICK cancellation \in 0 .. 100 :
        cancellation = AtLeastZero(100 - (lost * 5) \div 100)
  <2>1. AtLeastZero(100 - (lost * 5) \div 100) \in 0 .. 100
    BY PointsBounded
  <2> QED
    BY <2>1
<1>6. PICK lateness \in 0 .. 100 :
        lateness = AtLeastZero(100 - (overdue * 4) \div 100)
  <2>1. AtLeastZero(100 - (overdue * 4) \div 100) \in 0 .. 100
    BY PointsBounded
  <2> QED
    BY <2>1
<1>7. PICK review \in 0 .. 100 :
        review = IF m.reviews = 0 THEN 80
                 ELSE (((m.stars * 100) \div m.reviews - 100) * 100) \div 400
  BY <1>1, <1>2, StarsBounded
<1>8. PICK score \in 0 .. 100 :
        score = (cancellation * CancellationWeight + lateness * LatenessWeight
                   + review * ReviewWeight)
                 \div (CancellationWeight + LatenessWeight + ReviewWeight)
  <2>1. /\ CancellationWeight \in Nat /\ LatenessWeight \in Nat /\ ReviewWeight \in Nat
        /\ CancellationWeight + LatenessWeight + ReviewWeight > 0
    BY SellerAssumption
  <2>2. (cancellation * CancellationWeight + lateness * LatenessWeight
          + review * ReviewWeight)
          \div (CancellationWeight + LatenessWeight + ReviewWeight) \in 0 .. 100
    BY <2>1, MeanBounded, Zenon
  <2> QED
    BY <2>2, Zenon
<1>9. Calculate(m) = [score |-> score, provisional |-> m.orders < MinOrders]
  <2>1. /\ cancellation = AtLeastZero(100 - (Ratio(m.cancelled, m.orders) * 5) \div 100)
        /\ lateness = AtLeastZero(100 - (Ratio(m.late, m.orders) * 4) \div 100)
    BY <1>1, <1>3, <1>4, <1>5, <1>6, Zenon
  <2> QED
    BY <1>7, <1>8, <2>1, Zenon DEF Calculate
<1>10. (m.orders < MinOrders) \in BOOLEAN
  OBVIOUS
<1>11. ASSUME NEW flag \in BOOLEAN
       PROVE  [score |-> score, provisional |-> flag] \in Rating
  BY DEF Rating
<1>12. [score |-> score, provisional |-> m.orders < MinOrders] \in Rating
  BY <1>10, <1>11, Zenon
<1> QED
  BY <1>9, <1>12, Zenon

-----------------------------------------------------------------------------
(* What any method makes of a row that fits, fits.                         *)
LEMMA TransitionsTyped ==
    ASSUME NEW row \in SellerRow, NEW target \in Status, NEW after,
           after = Transition(row, target), after # Absent
    PROVE  after \in SellerRow
BY DEF Transition, SellerRow

LEMMA MethodsTyped ==
    ASSUME NEW op \in Ops, NEW actor \in Users, NEW arg \in Arguments[op],
           NEW row \in SellerRow,
           NEW after, after = Changed(op, actor, arg, row), after # Absent
    PROVE  after \in SellerRow
<1>1. CASE op = "legal"
  <2>1. after = UpdateLegalDetails(row, actor, arg) /\ arg \in Legal
    BY <1>1 DEF Changed, Arguments
  <2> QED
    BY <2>1 DEF UpdateLegalDetails, SellerRow
<1>2. CASE op = "bank"
  <2>1. after = ChangeBankAccount(row, actor, arg) /\ arg \in Banks
    BY <1>2 DEF Changed, Arguments
  <2>2. PICK new : new = [row EXCEPT !.bank = arg, !.verified = FALSE]
    OBVIOUS
  <2>3. new \in SellerRow
    BY <2>1, <2>2 DEF SellerRow
  <2> QED
    BY <2>1, <2>2, <2>3 DEF ChangeBankAccount
<1>3. CASE op = "attach"
  <2>1. after = AttachDocument(row, actor, arg) /\ arg \in Documents
    BY <1>3 DEF Changed, Arguments
  <2> QED
    BY <2>1 DEF AttachDocument, SellerRow
<1>4. CASE op = "submit"
  <2>1. after = Transition(row, "pending_review")
    BY <1>4 DEF Changed, SubmitForReview
  <2> QED
    BY <2>1, TransitionsTyped DEF Status
<1>5. CASE op = "add"
  <2>1. after = AddMember(row, actor, arg[1], arg[2]) /\ arg \in Users \X MemberRole
    BY <1>5 DEF Changed, Arguments
  <2>2. PICK user \in Users, role \in MemberRole : after = AddMember(row, actor, user, role)
    BY <2>1
  <2>3. PICK new : new = [row EXCEPT !.members[user] = role]
    OBVIOUS
  <2>4. new \in SellerRow
    BY <2>3 DEF SellerRow
  <2> QED
    BY <2>2, <2>3, <2>4 DEF AddMember
<1>6. CASE op = "remove"
  <2>1. after = RemoveMember(row, actor, arg) /\ arg \in Users
    BY <1>6 DEF Changed, Arguments
  <2>2. PICK new : new = [row EXCEPT !.members[arg] = "none"]
    OBVIOUS
  <2>3. new \in SellerRow
    BY <2>1, <2>2 DEF SellerRow
  <2> QED
    BY <2>1, <2>2, <2>3 DEF RemoveMember
<1>7. CASE op = "approve"
  <2>1. after = Approve(row)
    BY <1>7 DEF Changed
  <2>2. PICK new : new = [row EXCEPT !.status = "active", !.verified = TRUE]
    OBVIOUS
  <2>3. new \in SellerRow
    BY <2>2 DEF SellerRow, Status
  <2> QED
    BY <2>1, <2>2, <2>3 DEF Approve
<1>8. CASE op = "reject"
  <2>1. after = Transition(row, "draft")
    BY <1>8 DEF Changed, Reject
  <2> QED
    BY <2>1, TransitionsTyped DEF Status
<1>9. CASE op = "verify"
  <2>1. after = VerifyBankAccount(row)
    BY <1>9 DEF Changed
  <2>2. PICK new : new = [row EXCEPT !.verified = TRUE]
    OBVIOUS
  <2>3. new \in SellerRow
    BY <2>2 DEF SellerRow
  <2> QED
    BY <2>1, <2>2, <2>3 DEF VerifyBankAccount
<1>10. CASE op = "suspend"
  <2>1. after = Transition(row, "suspended")
    BY <1>10 DEF Changed, Suspend
  <2> QED
    BY <2>1, TransitionsTyped DEF Status
<1>11. CASE op = "reinstate"
  <2>1. after = Transition(row, "active")
    BY <1>11 DEF Changed, Reinstate
  <2> QED
    BY <2>1, TransitionsTyped DEF Status
<1>12. CASE op = "terminate"
  <2>1. after = Transition(row, "terminated")
    BY <1>12 DEF Changed, Terminate
  <2> QED
    BY <2>1, TransitionsTyped DEF Status
<1>13. CASE op = "override"
  <2>1. after = SetCommissionOverride(row, arg[1], arg[2]) /\ arg \in RatedCategories \X Rates
    BY <1>13 DEF Changed, Arguments
  <2>2. PICK rated \in RatedCategories, rate \in Rates :
          after = SetCommissionOverride(row, rated, rate)
    BY <2>1
  <2> QED
    BY <2>2 DEF SetCommissionOverride, SellerRow
<1>14. CASE op = "clear"
  <2>1. after = ClearCommissionOverride(row, arg) /\ arg \in RatedCategories
    BY <1>14 DEF Changed, Arguments
  <2> QED
    BY <2>1 DEF ClearCommissionOverride, SellerRow
<1>15. CASE op = "performance"
  <2>1. after = ApplyPerformance(row, arg) /\ arg \in Metrics
    BY <1>15 DEF Changed, Arguments
  <2>2. PICK rating : rating = Calculate(arg)
    OBVIOUS
  <2>3. PICK rated : rated = [row EXCEPT !.rating = rating]
    OBVIOUS
  <2>4. rating \in Rating
    BY <2>1, <2>2, ScoreBounded DEF ApplyPerformance
  <2>5. rated \in SellerRow
    BY <2>3, <2>4 DEF SellerRow
  <2>6. after = rated \/ after = Transition(rated, "suspended")
    BY <2>1, <2>2, <2>3 DEF ApplyPerformance, Suspend
  <2> QED
    BY <2>5, <2>6, TransitionsTyped DEF Status
<1> QED
  BY <1>1, <1>2, <1>3, <1>4, <1>5, <1>6, <1>7, <1>8, <1>9, <1>10, <1>11, <1>12, <1>13,
     <1>14, <1>15 DEF Ops

-----------------------------------------------------------------------------
(* The types.  A call that reads and saves a seller is about one, and what *)
(* it has read and was given fit; one that changes the rate of a category  *)
(* is about a category and has read its rate.                              *)
Given(c) ==
    c.id \in Sellers /\ c.actor \in Users /\ c.op \in Ops /\ c.arg \in Arguments[c.op]

CallTyped(c) ==
    /\ c.at \in {"root", "children"} => Given(c)
    /\ c.at = "children" => c.row \in SellerRow
    /\ c.at = "save" =>
          \/ Given(c) /\ c.row \in SellerRow
          \/ c.op = "open" /\ c.id \in Sellers /\ c.row \in SellerRow
          \/ /\ c.op = "category" /\ c.id \in RatedCategories
             /\ c.arg \in Rates /\ c.row \in CommissionRow
    /\ c.at = "category" =>
          c.op = "category" /\ c.id \in RatedCategories /\ c.arg \in Rates

TypeInv ==
    /\ SellerInv
    /\ SellerTypeOK
    /\ \A r \in Callers : CallTyped(call[r])

LEMMA NoSellerTyped == NoSeller \in SellerRow
BY DEF NoSeller, SellerRow

LEMMA InitiallyTyped == SellerInit => TypeInv
<1> SUFFICES ASSUME SellerInit PROVE TypeInv
  OBVIOUS
<1>1. SellerInv
  BY SellerInitially
<1>2. \A r \in Callers : call[r] = Quiet
  BY DEF SellerInit
<1>3. NoCommission \in CommissionRow
  BY DEF NoCommission, CommissionRow
<1>4. [legal |-> Absent, documents |-> {}] \in [legal : Legal \cup {Absent}, documents : SUBSET Documents]
  OBVIOUS
<1>5. SellerTypeOK
  <2>1. seller \in [Sellers -> SellerRow]
    BY NoSellerTyped DEF SellerInit
  <2>2. commission \in [RatedCategories -> CommissionRow]
    BY <1>3 DEF SellerInit
  <2>3. filed \in [Sellers -> [legal : Legal \cup {Absent}, documents : SUBSET Documents]]
    BY <1>4 DEF SellerInit
  <2>4. Quiet.at = "idle" /\ Quiet.op = "none"
    BY DEF Quiet
  <2> QED
    BY <1>2, <2>1, <2>2, <2>3, <2>4 DEF SellerTypeOK
<1>6. CallTyped(Quiet)
  BY DEF CallTyped, Quiet
<1> QED
  BY <1>1, <1>2, <1>5, <1>6 DEF TypeInv

(* A step of a call that leaves the rows alone.                            *)
LEMMA ReadingTyped ==
    ASSUME TypeInv, SellerInv', NEW r \in Callers, NEW after, CallTyped(after),
           after.op \in {"none"} \cup MayRun[r],
           call' = [call EXCEPT ![r] = after], UNCHANGED <<seller, commission, filed>>
    PROVE  TypeInv'
<1>1. \A q \in Callers : call'[q] = IF q = r THEN after ELSE call[q]
  BY DEF TypeInv, SellerInv, RowsTyped
<1>2. \A q \in Callers : CallTyped(call'[q])
  BY <1>1 DEF TypeInv
<1>3. \A q \in Callers : /\ call'[q].at \in {"idle", "root", "children", "category", "save"}
                         /\ call'[q].op \in {"none"} \cup MayRun[q]
  BY <1>1 DEF TypeInv, SellerInv, RowsTyped, IsCall, SellerTypeOK
<1>4. SellerTypeOK'
  BY <1>3 DEF TypeInv, SellerTypeOK
<1> QED
  BY <1>2, <1>4 DEF TypeInv, CallTyped, Given

(* The end of a call leaves rows that fit.                                 *)
LEMMA EndTyped ==
    ASSUME TypeInv, SellerInv', NEW r \in Callers, call' = [call EXCEPT ![r] = Quiet],
           seller' \in [Sellers -> SellerRow],
           commission' \in [RatedCategories -> CommissionRow],
           filed' \in [Sellers -> [legal : Legal \cup {Absent}, documents : SUBSET Documents]]
    PROVE  TypeInv'
<1>1. \A q \in Callers : call'[q] = IF q = r THEN Quiet ELSE call[q]
  BY DEF TypeInv, SellerInv, RowsTyped
<1>2. CallTyped(Quiet) /\ Quiet.at = "idle" /\ Quiet.op = "none"
  BY DEF CallTyped, Quiet
<1>3. \A q \in Callers : CallTyped(call'[q])
  BY <1>1, <1>2 DEF TypeInv
<1>4. \A q \in Callers : /\ call'[q].at \in {"idle", "root", "children", "category", "save"}
                         /\ call'[q].op \in {"none"} \cup MayRun[q]
  BY <1>1, <1>2 DEF TypeInv, SellerTypeOK
<1>5. SellerTypeOK'
  BY <1>4 DEF SellerTypeOK
<1> QED
  BY <1>3, <1>5 DEF TypeInv, CallTyped, Given

LEMMA StartsTyped ==
    ASSUME TypeInv, SellerInv', NEW r \in Callers, NEW id \in Sellers, NEW u \in Users,
           NEW op \in MayRun[r], op \in Ops, NEW arg \in Arguments[op],
           StartCall(r, id, u, op, arg)
    PROVE  TypeInv'
<1>1. PICK after : after = [at |-> "root", op |-> op, id |-> id, actor |-> u,
                            arg |-> arg, row |-> NoSeller]
  OBVIOUS
<1>2. call' = [call EXCEPT ![r] = after] /\ UNCHANGED <<seller, commission, filed>>
  BY <1>1 DEF StartCall
<1>3. CallTyped(after) /\ after.op \in {"none"} \cup MayRun[r]
  BY <1>1 DEF CallTyped, Given
<1> QED
  BY <1>2, <1>3, ReadingTyped

LEMMA OpensTyped ==
    ASSUME TypeInv, SellerInv', NEW r \in Callers, NEW id \in Sellers, NEW owner \in Users,
           NEW legal \in Legal, StartOpen(r, id, owner, legal)
    PROVE  TypeInv'
<1>1. PICK row : row = OpenApplication(owner, legal)
  OBVIOUS
<1>2. PICK after : after = [at |-> "save", op |-> "open", id |-> id, actor |-> owner,
                            arg |-> Absent, row |-> row]
  OBVIOUS
<1>3. call' = [call EXCEPT ![r] = after] /\ UNCHANGED <<seller, commission, filed>>
  BY <1>1, <1>2 DEF StartOpen
<1>4. row \in SellerRow
  BY <1>1, NoSellerTyped DEF OpenApplication, SellerRow, Status, MemberRole
<1>5. CallTyped(after)
  BY <1>2, <1>4 DEF CallTyped
<1>6. after.op \in {"none"} \cup MayRun[r]
  BY <1>2 DEF StartOpen
<1> QED
  BY <1>3, <1>5, <1>6, ReadingTyped

LEMMA FindsTyped ==
    ASSUME TypeInv, SellerInv', NEW r \in Callers, FindByID(r)
    PROVE  TypeInv'
<1>1. PICK c : c = call[r]
  OBVIOUS
<1>2. PICK row : row = seller[c.id]
  OBVIOUS
<1>3. PICK after : after = [c EXCEPT !.at = "children", !.row = row]
  OBVIOUS
<1>4. IsCall(c) /\ Given(c) /\ c.at = "root" /\ c.op \in {"none"} \cup MayRun[r]
  BY <1>1 DEF TypeInv, SellerInv, RowsTyped, FindByID, CallTyped, SellerTypeOK
<1>5. row \in SellerRow
  BY <1>2, <1>4 DEF Given, TypeInv, SellerTypeOK
<1>6. call' = [call EXCEPT ![r] = after] /\ UNCHANGED <<seller, commission, filed>>
  BY <1>1, <1>2, <1>3 DEF FindByID, TypeInv, SellerInv, RowsTyped
<1>7. /\ after.at = "children" /\ after.op = c.op /\ after.id = c.id
      /\ after.actor = c.actor /\ after.arg = c.arg /\ after.row = row
  BY <1>3, <1>4 DEF IsCall
<1>8. CallTyped(after)
  BY <1>4, <1>5, <1>7 DEF CallTyped, Given
<1> QED
  BY <1>4, <1>6, <1>7, <1>8, ReadingTyped

LEMMA LoadsTyped ==
    ASSUME TypeInv, SellerInv', NEW r \in Callers, LoadChildren(r)
    PROVE  TypeInv'
<1>1. PICK c : c = call[r]
  OBVIOUS
<1>2. PICK now : now = seller[c.id]
  OBVIOUS
<1>3. PICK row : row = [c.row EXCEPT !.members = now.members, !.documents = now.documents,
                                     !.overrides = now.overrides]
  OBVIOUS
<1>4. PICK after : after = [c EXCEPT !.at = "save", !.row = row]
  OBVIOUS
<1>5. /\ IsCall(c) /\ Given(c) /\ c.at = "children" /\ c.row \in SellerRow
      /\ c.op \in {"none"} \cup MayRun[r]
  BY <1>1 DEF TypeInv, SellerInv, RowsTyped, LoadChildren, CallTyped, SellerTypeOK
<1>6. now \in SellerRow
  BY <1>2, <1>5 DEF Given, TypeInv, SellerTypeOK
<1>7. row \in SellerRow
  BY <1>3, <1>5, <1>6 DEF SellerRow
<1>8. PICK left : left = [c EXCEPT !.at = "save", !.row.members = now.members,
                                   !.row.documents = now.documents,
                                   !.row.overrides = now.overrides]
  OBVIOUS
<1>9. call' = [call EXCEPT ![r] = after] /\ UNCHANGED <<seller, commission, filed>>
  <2>1. left = after
    BY <1>3, <1>4, <1>5, <1>8 DEF IsCall, SellerRow
  <2>2. DOMAIN call = Callers
    BY DEF TypeInv, SellerInv, RowsTyped
  <2>3. call' = [call EXCEPT ![r] = left]
    BY <1>1, <1>2, <1>8, <2>2 DEF LoadChildren
  <2> QED
    BY <2>1, <2>3 DEF LoadChildren
<1>10. /\ after.at = "save" /\ after.op = c.op /\ after.id = c.id
       /\ after.actor = c.actor /\ after.arg = c.arg /\ after.row = row
  BY <1>4, <1>5 DEF IsCall
<1>11. CallTyped(after)
  BY <1>5, <1>7, <1>10 DEF CallTyped, Given
<1> QED
  BY <1>5, <1>9, <1>10, <1>11, ReadingTyped

LEMMA CommitsTyped ==
    ASSUME TypeInv, SellerInv', NEW r \in Callers, Commit(r)
    PROVE  TypeInv'
<1>1. PICK c : c = call[r]
  OBVIOUS
<1>2. PICK row : row = IF c.op = "open" THEN c.row
                       ELSE IF c.op \in MemberOps /\ ~ IsMember(c.row, c.actor) THEN Absent
                       ELSE Changed(c.op, c.actor, c.arg, c.row)
  OBVIOUS
<1>3. CallTyped(c) /\ c.at = "save" /\ c.op # "category"
  BY <1>1 DEF TypeInv, Commit
<1>4. c.id \in Sellers /\ c.row \in SellerRow /\ (c.op = "open" \/ Given(c))
  BY <1>3 DEF CallTyped, Given
<1>5. row # Absent => row \in SellerRow
  <2>1. CASE c.op = "open"
    BY <1>2, <1>4, <2>1
  <2>2. CASE c.op # "open" /\ row # Absent
    <3>1. row = Changed(c.op, c.actor, c.arg, c.row)
      BY <1>2, <2>2
    <3> QED
      BY <1>4, <2>2, <3>1, MethodsTyped DEF Given
  <2> QED
    BY <2>1, <2>2
<1>6. call' = [call EXCEPT ![r] = Quiet] /\ commission' = commission
  BY DEF Commit
<1>7. CASE ~ (row # Absent /\ CanSave(c.id, row))
  <2>1. UNCHANGED <<seller, filed>>
    BY <1>1, <1>2, <1>7 DEF Commit
  <2> QED
    BY <1>6, <2>1, EndTyped DEF TypeInv, SellerTypeOK
<1>8. CASE row # Absent /\ CanSave(c.id, row)
  <2>1. /\ Save(c.id, row)
        /\ filed' = IF c.op = "submit"
             THEN [filed EXCEPT ![c.id] = [legal |-> row.legal, documents |-> row.documents]]
             ELSE filed
    BY <1>1, <1>2, <1>8 DEF Commit
  <2>2. PICK new : new = [row EXCEPT !.version = @ + 1]
    OBVIOUS
  <2>3. new \in SellerRow
    BY <1>5, <1>8, <2>2 DEF SellerRow
  <2>4. seller' = [seller EXCEPT ![c.id] = new]
    BY <2>1, <2>2 DEF Save
  <2>5. seller' \in [Sellers -> SellerRow]
    BY <2>3, <2>4 DEF TypeInv, SellerTypeOK
  <2>6. [legal |-> row.legal, documents |-> row.documents]
          \in [legal : Legal \cup {Absent}, documents : SUBSET Documents]
    BY <1>5, <1>8 DEF SellerRow
  <2>7. filed' \in [Sellers -> [legal : Legal \cup {Absent}, documents : SUBSET Documents]]
    BY <2>1, <2>6 DEF TypeInv, SellerTypeOK
  <2> QED
    BY <1>6, <2>5, <2>7, EndTyped DEF TypeInv, SellerTypeOK
<1> QED
  BY <1>7, <1>8

LEMMA CategoriesTyped ==
    ASSUME TypeInv, SellerInv', NEW r \in Callers,
           \/ \E c \in RatedCategories, rate \in Rates : StartCategory(r, c, rate)
           \/ FindByCategory(r)
           \/ CommitRate(r)
    PROVE  TypeInv'
<1>1. CASE \E c \in RatedCategories, rate \in Rates : StartCategory(r, c, rate)
  <2>1. PICK category \in RatedCategories, rate \in Rates : StartCategory(r, category, rate)
    BY <1>1
  <2>2. PICK after : after = [Quiet EXCEPT !.at = "category", !.op = "category",
                                           !.id = category, !.arg = rate]
    OBVIOUS
  <2>3. call' = [call EXCEPT ![r] = after] /\ UNCHANGED <<seller, commission, filed>>
    BY <2>1, <2>2 DEF StartCategory
  <2>4. /\ after.at = "category" /\ after.op = "category"
        /\ after.id = category /\ after.arg = rate
    BY <2>2 DEF Quiet
  <2>5. CallTyped(after)
    BY <2>4 DEF CallTyped
  <2>6. after.op \in {"none"} \cup MayRun[r]
    BY <2>1, <2>4 DEF StartCategory
  <2> QED
    BY <2>3, <2>5, <2>6, ReadingTyped
<1>2. CASE FindByCategory(r)
  <2>1. PICK c : c = call[r]
    OBVIOUS
  <2>2. PICK after : after = [c EXCEPT !.at = "save", !.row = commission[c.id]]
    OBVIOUS
  <2>3. /\ IsCall(c) /\ c.at = "category" /\ c.op = "category" /\ c.id \in RatedCategories
        /\ c.arg \in Rates /\ c.op \in {"none"} \cup MayRun[r]
    BY <1>2, <2>1 DEF TypeInv, SellerInv, RowsTyped, FindByCategory, CallTyped, SellerTypeOK
  <2>4. call' = [call EXCEPT ![r] = after] /\ UNCHANGED <<seller, commission, filed>>
    BY <1>2, <2>1, <2>2 DEF FindByCategory, TypeInv, SellerInv, RowsTyped
  <2>5. /\ after.at = "save" /\ after.op = c.op /\ after.id = c.id
        /\ after.arg = c.arg /\ after.row = commission[c.id]
    BY <2>2, <2>3 DEF IsCall
  <2>6. after.row \in CommissionRow
    BY <2>3, <2>5 DEF TypeInv, SellerTypeOK
  <2>7. CallTyped(after)
    BY <2>3, <2>5, <2>6 DEF CallTyped
  <2> QED
    BY <2>3, <2>4, <2>5, <2>7, ReadingTyped
<1>3. CASE CommitRate(r)
  <2>1. PICK c : c = call[r]
    OBVIOUS
  <2>2. c.id \in RatedCategories /\ c.arg \in Rates /\ c.row \in CommissionRow
    <3>1. CallTyped(c) /\ c.at = "save" /\ c.op = "category"
      BY <1>3, <2>1 DEF TypeInv, CommitRate
    <3> QED
      BY <3>1 DEF CallTyped, Given, Ops
  <2>3. PICK new : new = [rate |-> c.arg, version |-> c.row.version + 1]
    OBVIOUS
  <2>4. new \in CommissionRow
    BY <2>2, <2>3 DEF CommissionRow
  <2>5. commission' \in [RatedCategories -> CommissionRow]
    BY <1>3, <2>1, <2>3, <2>4 DEF CommitRate, TypeInv, SellerTypeOK
  <2>6. call' = [call EXCEPT ![r] = Quiet] /\ UNCHANGED <<seller, filed>>
    BY <1>3 DEF CommitRate
  <2> QED
    BY <2>5, <2>6, EndTyped DEF TypeInv, SellerTypeOK
<1> QED
  BY <1>1, <1>2, <1>3

LEMMA InductiveTyped ==
    ASSUME TypeInv, [SellerNext]_sellerVars
    PROVE  TypeInv'
<1>1. SellerInv'
  BY SellerInductive DEF TypeInv
<1>2. CASE UNCHANGED sellerVars
  <2>1. UNCHANGED <<seller, commission, call, filed>>
    BY <1>2 DEF sellerVars
  <2> QED
    BY <1>1, <2>1 DEF TypeInv, SellerTypeOK, CallTyped, Given
<1>3. CASE SellerNext
  <2>1. PICK r \in Callers :
          \/ FindByID(r) \/ LoadChildren(r) \/ Commit(r)
          \/ FindByCategory(r) \/ CommitRate(r)
          \/ \E id \in Sellers, u \in Users :
                \/ \E legal \in Legal : StartOpen(r, id, u, legal)
                \/ \E op \in MayRun[r] \cap DOMAIN Arguments :
                      /\ op \notin MemberOps => u = seller[id].owner
                      /\ \E arg \in Arguments[op] : StartCall(r, id, u, op, arg)
          \/ \E c \in RatedCategories, rate \in Rates : StartCategory(r, c, rate)
    BY <1>3 DEF SellerNext
  <2>2. DOMAIN Arguments = Ops
    BY DEF Arguments, Ops
  <2>3. CASE FindByID(r)
    BY <1>1, <2>3, FindsTyped
  <2>4. CASE LoadChildren(r)
    BY <1>1, <2>4, LoadsTyped
  <2>5. CASE Commit(r)
    BY <1>1, <2>5, CommitsTyped
  <2>6. CASE FindByCategory(r) \/ CommitRate(r)
             \/ \E c \in RatedCategories, rate \in Rates : StartCategory(r, c, rate)
    BY <1>1, <2>6, CategoriesTyped
  <2>7. CASE \E id \in Sellers, u \in Users, legal \in Legal : StartOpen(r, id, u, legal)
    BY <1>1, <2>7, OpensTyped
  <2>8. CASE \E id \in Sellers, u \in Users, op \in MayRun[r] \cap DOMAIN Arguments :
               \E arg \in Arguments[op] : StartCall(r, id, u, op, arg)
    <3>1. PICK id \in Sellers, u \in Users, op \in MayRun[r] \cap DOMAIN Arguments :
            \E arg \in Arguments[op] : StartCall(r, id, u, op, arg)
      BY <2>8
    <3>2. PICK arg \in Arguments[op] : StartCall(r, id, u, op, arg)
      BY <3>1
    <3>3. op \in Ops /\ op \in MayRun[r]
      BY <2>2
    <3> QED
      BY <1>1, <3>2, <3>3, StartsTyped
  <2> QED
    BY <2>1, <2>3, <2>4, <2>5, <2>6, <2>7, <2>8
<1> QED
  BY <1>2, <1>3

(* Whatever the requests do, a seller's row holds what it may: a status, a *)
(* rating of at most a hundred, rates that are parts of the whole.         *)
THEOREM SellerTypeCorrect == SellerSpec => []SellerTypeOK
<1>1. SellerInit => TypeInv
  BY InitiallyTyped
<1>2. TypeInv /\ [SellerNext]_sellerVars => TypeInv'
  BY InductiveTyped
<1>3. TypeInv => SellerTypeOK
  BY DEF TypeInv
<1> QED
  BY <1>1, <1>2, <1>3, PTL DEF SellerSpec

-----------------------------------------------------------------------------
(* The settlement.  A commission is part of the amount it is taken from.   *)
LEMMA CommissionBounded ==
    ASSUME NEW amount \in Nat, NEW bp \in BasisPoints
    PROVE  ApplyPercent(amount, bp) \in Nat /\ ApplyPercent(amount, bp) <= amount
<1>1. bp \in Nat /\ bp <= 10000
  BY DEF BasisPoints
<1>2. PICK whole \in Nat, rest \in Nat :
        /\ whole = amount \div 10000 /\ rest = amount % 10000
        /\ amount = whole * 10000 + rest
  OBVIOUS
<1>3. PICK x \in Int : x = whole * bp /\ 0 <= x /\ x <= whole * 10000
  <2>1. bp * whole <= 10000 * whole /\ 0 * whole <= bp * whole
    BY <1>1, Product
  <2>2. bp * whole \in Int /\ whole * bp = bp * whole
    BY <1>1
  <2> QED
    BY <2>1, <2>2
<1>4. PICK y \in Int : y = (rest * bp) \div 10000 /\ 0 <= y /\ y <= rest
  <2>1. bp * rest <= 10000 * rest /\ 0 * rest <= bp * rest
    BY <1>1, Product
  <2>2. rest * bp \in Int /\ rest * bp = bp * rest
    BY <1>1
  <2>3. PICK z \in Int : z = rest * bp /\ 0 * 10000 <= z /\ z <= rest * 10000
    BY <2>1, <2>2
  <2>4. z \div 10000 \in Int /\ 0 <= z \div 10000 /\ z \div 10000 <= rest
    BY <2>3, Quotient
  <2> QED
    BY <2>3, <2>4
<1>5. ApplyPercent(amount, bp) = x + y
  BY <1>2, <1>3, <1>4 DEF ApplyPercent
<1> QED
  BY <1>2, <1>3, <1>4, <1>5

(* The rate in force is a part of the whole.                               *)
LEMMA RateBounded ==
    ASSUME SellerTypeOK, NEW s \in Sellers, NEW category \in RatedCategories
    PROVE  RateFor(seller[s], category) \in BasisPoints /\ DefaultRate \in BasisPoints
<1>1. Rates \subseteq BasisPoints /\ DefaultRate \in BasisPoints
  BY SellerAssumption
<1>2. seller[s].overrides[category] \in Rates \cup {Absent}
  BY DEF SellerTypeOK, SellerRow
<1>3. commission[category].rate \in Rates \cup {Absent}
  BY DEF SellerTypeOK, CommissionRow
<1> QED
  BY <1>1, <1>2, <1>3 DEF RateFor

(* The items of an order before one of them, and what they come to.        *)
Amounts(o) == [i \in DOMAIN Items[o] |-> Items[o][i].amount]
ItemsBefore(o, s, n) == {i \in ItemsOf(o, s) : i < n}
OwedBefore(o, s, n) == SumFunctionOnSet(Amounts(o), ItemsBefore(o, s, n))

LEMMA ItemsTyped ==
    ASSUME NEW o \in Orders
    PROVE  /\ Len(Items[o]) \in Nat \ {0} /\ DOMAIN Items[o] = 1 .. Len(Items[o])
           /\ \A i \in DOMAIN Items[o] :
                 /\ Items[o][i].seller \in Sellers
                 /\ Items[o][i].category \in RatedCategories
                 /\ Items[o][i].amount \in Nat
<1>1. /\ Items[o] \in Seq([seller : Sellers, category : RatedCategories, amount : Nat])
      /\ Items[o] # <<>>
  BY SettlementAssumption
<1>2. Len(Items[o]) \in Nat \ {0} /\ DOMAIN Items[o] = 1 .. Len(Items[o])
  BY <1>1
<1>3. \A i \in 1 .. Len(Items[o]) :
         Items[o][i] \in [seller : Sellers, category : RatedCategories, amount : Nat]
  <2>1. PICK S : S = [seller : Sellers, category : RatedCategories, amount : Nat]
    OBVIOUS
  <2>2. PICK items \in Seq(S) : items = Items[o]
    BY <1>1, <2>1
  <2>3. \A i \in 1 .. Len(items) : items[i] \in S
    OBVIOUS
  <2> QED
    BY <2>1, <2>2, <2>3
<1> QED
  BY <1>2, <1>3

LEMMA ItemsFinite ==
    ASSUME NEW o \in Orders, NEW s, NEW n
    PROVE  /\ IsFiniteSet(ItemsBefore(o, s, n))
           /\ \A i \in ItemsBefore(o, s, n) : Amounts(o)[i] \in Nat
<1>1. IsFiniteSet(1 .. Len(Items[o]))
  BY ItemsTyped, FS_Interval
<1>2. ItemsBefore(o, s, n) \in SUBSET (1 .. Len(Items[o]))
  BY ItemsTyped DEF ItemsBefore, ItemsOf
<1>3. IsFiniteSet(ItemsBefore(o, s, n))
  BY <1>1, <1>2, FS_Subset
<1>4. \A i \in DOMAIN Items[o] : Amounts(o)[i] \in Nat
  BY ItemsTyped DEF Amounts
<1>5. \A i \in ItemsBefore(o, s, n) : Amounts(o)[i] \in Nat
  BY <1>4 DEF ItemsBefore, ItemsOf
<1> QED
  BY <1>3, <1>5

LEMMA NoneOwed ==
    ASSUME NEW o \in Orders, NEW s
    PROVE  OwedBefore(o, s, 1) = 0
<1>1. ItemsBefore(o, s, 1) = {}
  BY ItemsTyped DEF ItemsBefore, ItemsOf
<1> QED
  BY <1>1, SumOfNone DEF OwedBefore

LEMMA AllOwed ==
    ASSUME NEW o \in Orders, NEW s
    PROVE  OwedBefore(o, s, Len(Items[o]) + 1) = Owed(o, s)
<1>1. ItemsBefore(o, s, Len(Items[o]) + 1) = ItemsOf(o, s)
  BY ItemsTyped DEF ItemsBefore, ItemsOf
<1> QED
  BY <1>1 DEF OwedBefore, Owed, Amounts

LEMMA OwedIsNat ==
    ASSUME NEW o \in Orders, NEW s, NEW n
    PROVE  OwedBefore(o, s, n) \in Nat
BY ItemsFinite, SumIsNat DEF OwedBefore

LEMMA NextOwed ==
    ASSUME NEW o \in Orders, NEW s, NEW n \in DOMAIN Items[o]
    PROVE  OwedBefore(o, s, n + 1) =
             OwedBefore(o, s, n) + (IF Items[o][n].seller = s THEN Items[o][n].amount ELSE 0)
<1>1. n \in Nat
  BY ItemsTyped
<1>2. PICK amount \in Nat : amount = Items[o][n].amount
  BY ItemsTyped
<1>3. PICK before \in Nat : before = OwedBefore(o, s, n)
  BY OwedIsNat
<1>4. CASE Items[o][n].seller = s
  <2>1. n \in ItemsBefore(o, s, n + 1)
    BY <1>1, <1>4 DEF ItemsBefore, ItemsOf
  <2>2. ItemsBefore(o, s, n + 1) \ {n} = ItemsBefore(o, s, n)
    BY <1>1, ItemsTyped DEF ItemsBefore, ItemsOf
  <2>3. PICK later : later = ItemsBefore(o, s, n + 1)
    OBVIOUS
  <2>4. IsFiniteSet(later) /\ \A i \in later : Amounts(o)[i] \in Int
    BY <2>3, ItemsFinite
  <2>5. SumFunctionOnSet(Amounts(o), later)
          = Amounts(o)[n] + SumFunctionOnSet(Amounts(o), later \ {n})
    BY <2>1, <2>3, <2>4, SumWithout
  <2>6. Amounts(o)[n] = amount
    BY <1>2 DEF Amounts
  <2>7. OwedBefore(o, s, n + 1) = amount + before
    BY <1>3, <2>2, <2>3, <2>5, <2>6 DEF OwedBefore
  <2> QED
    BY <1>2, <1>3, <1>4, <2>7
<1>5. CASE Items[o][n].seller # s
  <2>1. ItemsBefore(o, s, n + 1) = ItemsBefore(o, s, n)
    BY <1>1, <1>5, ItemsTyped DEF ItemsBefore, ItemsOf
  <2>2. OwedBefore(o, s, n + 1) = before
    BY <1>3, <2>1 DEF OwedBefore
  <2> QED
    BY <1>3, <1>5, <2>2
<1> QED
  BY <1>4, <1>5

-----------------------------------------------------------------------------
(* What a worker has added up is what is owed for the items it has asked   *)
(* about, and no commission exceeds it; it rests with nothing added up.    *)
WorkRow == [at : {"idle", "rate", "save"}, order : Orders \cup {Absent}, next : Nat,
            lost : BOOLEAN, gross : [Sellers -> Nat], commission : [Sellers -> Nat]]

WorkOK(q) ==
    /\ q \in WorkRow
    /\ q.at = "idle" => q = Resting
    /\ q.at = "rate" => q.order \in Orders /\ q.next \in DOMAIN Items[q.order]
    /\ q.at = "save" => q.order \in Orders /\ q.next = Len(Items[q.order]) + 1
    /\ q.at # "idle" =>
          \A s \in Sellers : /\ q.gross[s] = OwedBefore(q.order, s, q.next)
                             /\ q.commission[s] <= q.gross[s]

(* An entry has the whole of its seller's part, and an order that counts   *)
(* as handled has one for each of its sellers.                             *)
EntryOK(o, s) ==
    entry[o][s] # NoEntry =>
        /\ entry[o][s].gross = Owed(o, s)
        /\ entry[o][s].net + entry[o][s].commission = entry[o][s].gross

HandledOK(o) ==
    completed[o] = "handled" => \A s \in SellersOf(o) : entry[o][s] # NoEntry

EntriesOK ==
    /\ \A o \in Orders : HandledOK(o) /\ \A s \in Sellers : EntryOK(o, s)
    /\ \A s \in Sellers : IsFiniteSet(Settled(s))

SettledInv ==
    /\ TypeInv
    /\ SettlementTypeOK
    /\ DOMAIN work = Settlers /\ \A w \in Settlers : WorkOK(work[w])
    /\ EntriesOK

LEMMA RestingOK == WorkOK(Resting)
BY DEF Resting, WorkRow, WorkOK

LEMMA SettledInitially == SellerInit /\ SettlementInit => SettledInv
<1> SUFFICES ASSUME SellerInit, SettlementInit PROVE SettledInv
  OBVIOUS
<1>1. TypeInv
  BY InitiallyTyped
<1>2. \A o \in Orders, s \in Sellers : entry[o][s] = NoEntry
  BY DEF SettlementInit
<1>3. \A o \in Orders : completed[o] = "none"
  BY DEF SettlementInit
<1>4. \A w \in Settlers : work[w] = Resting
  BY DEF SettlementInit
<1>5. \A w \in Settlers : WorkOK(work[w]) /\ work[w].at = "idle"
  BY <1>4, RestingOK DEF Resting
<1>6. SettlementTypeOK
  BY <1>5, SettlementAssumption DEF SettlementInit, SettlementTypeOK
<1>7. \A s \in Sellers : Settled(s) = {}
  BY <1>2 DEF Settled
<1>8. EntriesOK
  BY <1>2, <1>3, <1>7, FS_EmptySet DEF EntriesOK, EntryOK, HandledOK
<1> QED
  BY <1>1, <1>5, <1>6, <1>8 DEF SettledInv, SettlementInit

(* A step that writes no entry is harmless when the work it leaves is, and *)
(* nothing counts as handled by it.                                        *)
LEMMA WorkMoves ==
    ASSUME SettledInv, TypeInv', entry' = entry, NEW w \in Settlers, NEW after, WorkOK(after),
           work' = [work EXCEPT ![w] = after], completed' = completed,
           lostWork' \in 0 .. MaxLost
    PROVE  SettledInv'
<1>1. \A v \in Settlers : work'[v] = IF v = w THEN after ELSE work[v]
  BY DEF SettledInv
<1>2. DOMAIN work' = Settlers /\ \A v \in Settlers : WorkOK(work'[v])
  BY <1>1 DEF SettledInv
<1>3. \A v \in Settlers : work'[v].at \in {"idle", "rate", "save"}
  BY <1>2 DEF WorkOK, WorkRow
<1>4. SettlementTypeOK'
  BY <1>3 DEF SettledInv, SettlementTypeOK
<1>5. EntriesOK'
  BY DEF SettledInv, EntriesOK, EntryOK, HandledOK, Settled
<1> QED
  BY <1>2, <1>4, <1>5 DEF SettledInv, WorkOK

LEMMA CompletionKeeps ==
    ASSUME SettledInv, TypeInv', NEW o \in Orders, CompleteOrder(o)
    PROVE  SettledInv'
<1>1. UNCHANGED <<entry, work, lostWork>>
  BY DEF CompleteOrder
<1>2. completed' \in [Orders -> {"none", "pending", "handled"}]
  BY DEF CompleteOrder, SettledInv, SettlementTypeOK
<1>3. \A p \in Orders : completed'[p] = "handled" => completed[p] = "handled"
  BY DEF CompleteOrder, SettledInv, SettlementTypeOK
<1>4. EntriesOK'
  BY <1>1, <1>3 DEF SettledInv, EntriesOK, EntryOK, HandledOK, Settled
<1>5. SettlementTypeOK'
  BY <1>1, <1>2 DEF SettledInv, SettlementTypeOK
<1> QED
  BY <1>1, <1>4, <1>5 DEF SettledInv, WorkOK

LEMMA DeliveryKeeps ==
    ASSUME SettledInv, TypeInv', NEW w \in Settlers, NEW o \in Orders, Deliver(w, o)
    PROVE  SettledInv'
<1>1. work[w] = Resting
  BY DEF SettledInv, WorkOK, Deliver
<1>2. PICK after : after = [Resting EXCEPT !.at = "rate", !.order = o, !.next = 1]
  OBVIOUS
<1>3. work' = [work EXCEPT ![w] = after] /\ UNCHANGED <<entry, completed, lostWork>>
  BY <1>1, <1>2 DEF Deliver, SettledInv
<1>4. /\ after.at = "rate" /\ after.order = o /\ after.next = 1
      /\ \A s \in Sellers : after.gross[s] = 0 /\ after.commission[s] = 0
      /\ after \in WorkRow
  BY <1>2 DEF Resting, WorkRow
<1>5. 1 \in DOMAIN Items[o]
  BY ItemsTyped
<1>6. \A s \in Sellers : OwedBefore(o, s, 1) = 0
  BY NoneOwed
<1>7. WorkOK(after)
  BY <1>4, <1>5, <1>6 DEF WorkOK
<1> QED
  BY <1>3, <1>7, WorkMoves DEF SettledInv, SettlementTypeOK

(* An item is added to what is owed, and its commission is a part of it.   *)
LEMMA ItemAdded ==
    ASSUME NEW q, WorkOK(q), q.at = "rate", NEW rate \in BasisPoints,
           NEW item, item = Items[q.order][q.next],
           NEW after,
           after = [q EXCEPT !.gross[item.seller] = @ + item.amount,
                             !.commission[item.seller] = @ + ApplyPercent(item.amount, rate),
                             !.next = @ + 1,
                             !.at = IF q.next = Len(Items[q.order]) THEN "save" ELSE "rate"]
    PROVE  WorkOK(after)
<1>0. PICK o \in Orders : q.order = o
  BY DEF WorkOK
<1>1. PICK n \in DOMAIN Items[o] : q.order = o /\ q.next = n
  BY <1>0 DEF WorkOK
<1>2. PICK x \in Sellers, amount \in Nat :
        x = item.seller /\ amount = item.amount
        /\ x = Items[o][n].seller /\ amount = Items[o][n].amount
  BY <1>1, ItemsTyped
<1>3. PICK part \in Nat : part = ApplyPercent(amount, rate) /\ part <= amount
  BY CommissionBounded
<1>4. PICK at : at = IF n = Len(Items[o]) THEN "save" ELSE "rate"
  OBVIOUS
<1>5. /\ q \in WorkRow
      /\ \A s \in Sellers : /\ q.gross[s] = OwedBefore(o, s, n)
                            /\ q.commission[s] <= q.gross[s]
  BY <1>1 DEF WorkOK
<1>6. PICK gross \in [Sellers -> Nat], cut \in [Sellers -> Nat] : q.gross = gross /\ q.commission = cut
  BY <1>5 DEF WorkRow
<1>7. PICK grown : grown = [gross EXCEPT ![x] = @ + amount]
  OBVIOUS
<1>8. PICK taken : taken = [cut EXCEPT ![x] = @ + part]
  OBVIOUS
<1>9. grown \in [Sellers -> Nat] /\ taken \in [Sellers -> Nat]
  BY <1>7, <1>8
<1>10. after = [q EXCEPT !.gross = grown, !.commission = taken, !.next = n + 1, !.at = at]
  BY <1>1, <1>2, <1>3, <1>4, <1>5, <1>6, <1>7, <1>8 DEF WorkRow
<1>11. n \in Nat /\ n + 1 \in Nat /\ DOMAIN Items[o] = 1 .. Len(Items[o]) /\ Len(Items[o]) \in Nat
  BY ItemsTyped
<1>12. /\ after \in WorkRow /\ after.order = o /\ after.next = n + 1 /\ after.at = at
       /\ after.gross = grown /\ after.commission = taken
  BY <1>1, <1>4, <1>5, <1>9, <1>10, <1>11 DEF WorkRow
<1>13. ASSUME NEW s \in Sellers
       PROVE  grown[s] = OwedBefore(o, s, n + 1) /\ taken[s] <= grown[s]
  <2>1. gross[s] = OwedBefore(o, s, n) /\ cut[s] <= gross[s] /\ gross[s] \in Nat /\ cut[s] \in Nat
    BY <1>5, <1>6
  <2>2. OwedBefore(o, s, n + 1) = gross[s] + (IF x = s THEN amount ELSE 0)
    BY <1>2, <2>1, NextOwed
  <2>3. CASE x = s
    <3>1. grown[s] = gross[s] + amount /\ taken[s] = cut[s] + part
      BY <1>7, <1>8, <2>3
    <3> QED
      BY <1>3, <2>1, <2>2, <2>3, <3>1
  <2>4. CASE x # s
    <3>1. grown[s] = gross[s] /\ taken[s] = cut[s]
      BY <1>7, <1>8, <2>4
    <3> QED
      BY <2>1, <2>2, <2>4, <3>1
  <2> QED
    BY <2>3, <2>4
<1>14. at = "rate" => n + 1 \in DOMAIN Items[o]
  BY <1>4, <1>11
<1>15. at = "save" => n + 1 = Len(Items[o]) + 1
  BY <1>4
<1>16. at \in {"rate", "save"}
  BY <1>4
<1> QED
  BY <1>12, <1>13, <1>14, <1>15, <1>16 DEF WorkOK

LEMMA AskingKeeps ==
    ASSUME SettledInv, TypeInv', NEW w \in Settlers, AskRate(w)
    PROVE  SettledInv'
<1>1. PICK q : q = work[w]
  OBVIOUS
<1>2. PICK item : item = Items[q.order][q.next]
  OBVIOUS
<1>3. WorkOK(q) /\ q.at = "rate" /\ q.order \in Orders /\ q.next \in DOMAIN Items[q.order]
  BY <1>1 DEF SettledInv, WorkOK, AskRate
<1>4. item.seller \in Sellers /\ item.category \in RatedCategories
  BY <1>2, <1>3, ItemsTyped
<1> DEFINE added(rate) ==
             [q EXCEPT !.gross[item.seller] = @ + item.amount,
                       !.commission[item.seller] = @ + ApplyPercent(item.amount, rate),
                       !.next = @ + 1,
                       !.at = IF q.next = Len(Items[q.order]) THEN "save" ELSE "rate"]
<1>5. /\ UNCHANGED <<entry, completed>>
      /\ lostWork' = lostWork \/ (lostWork < MaxLost /\ lostWork' = lostWork + 1)
  BY Zenon DEF AskRate
<1>6. PICK rate \in BasisPoints : work' = [work EXCEPT ![w] = added(rate)]
  <2>1. RateFor(seller[item.seller], item.category) \in BasisPoints /\ DefaultRate \in BasisPoints
    BY <1>4, RateBounded DEF SettledInv, TypeInv
  <2>2. \E rate \in {RateFor(seller[item.seller], item.category), DefaultRate} :
          work' = [work EXCEPT ![w].gross[item.seller] = @ + item.amount,
                        ![w].commission[item.seller] = @ + ApplyPercent(item.amount, rate),
                        ![w].next = @ + 1,
                        ![w].at = IF q.next = Len(Items[q.order]) THEN "save" ELSE "rate"]
    BY <1>1, <1>2 DEF AskRate
  <2>3. PICK rate \in BasisPoints :
          work' = [work EXCEPT ![w].gross[item.seller] = @ + item.amount,
                        ![w].commission[item.seller] = @ + ApplyPercent(item.amount, rate),
                        ![w].next = @ + 1,
                        ![w].at = IF q.next = Len(Items[q.order]) THEN "save" ELSE "rate"]
    BY <2>1, <2>2
  <2>4. DOMAIN work = Settlers
    BY DEF SettledInv
  <2>5. work' = [work EXCEPT ![w] = added(rate)]
    BY <1>1, <2>3, <2>4
  <2> QED
    BY <2>5
<1>7. WorkOK(added(rate))
  <2>1. PICK after : after = added(rate)
    OBVIOUS
  <2>2. WorkOK(after)
    BY <1>2, <1>3, <2>1, ItemAdded
  <2> QED
    BY <2>1, <2>2
<1>8. lostWork' \in 0 .. MaxLost
  BY <1>5, SettlementAssumption DEF SettledInv, SettlementTypeOK
<1> HIDE DEF added
<1> QED
  BY <1>5, <1>6, <1>7, <1>8, WorkMoves

LEMMA StopKeeps ==
    ASSUME SettledInv, TypeInv', NEW w \in Settlers, Stop(w) \/ Lose(w)
    PROVE  SettledInv'
<1>1. lostWork' \in 0 .. MaxLost /\ entry' = entry /\ completed' = completed
  BY SettlementAssumption DEF Stop, Lose, SettledInv, SettlementTypeOK
<1>2. CASE Stop(w)
  <2>1. work' = [work EXCEPT ![w] = Resting]
    BY <1>2 DEF Stop
  <2> QED
    BY <1>1, <2>1, RestingOK, WorkMoves
<1>3. CASE Lose(w)
  <2>1. PICK q : q = work[w]
    OBVIOUS
  <2>2. PICK after : after = [q EXCEPT !.lost = TRUE]
    OBVIOUS
  <2>3. work' = [work EXCEPT ![w] = after]
    BY <1>3, <2>1, <2>2 DEF Lose, SettledInv
  <2>4. WorkOK(q) /\ q.at # "idle" /\ q \in WorkRow
    BY <1>3, <2>1 DEF Lose, SettledInv, WorkOK
  <2>5. after \in WorkRow
    BY <2>2, <2>4 DEF WorkRow
  <2>6. /\ after.at = q.at /\ after.order = q.order /\ after.next = q.next
        /\ after.gross = q.gross /\ after.commission = q.commission
    BY <2>2, <2>4 DEF WorkRow
  <2>7. WorkOK(after)
    BY <2>4, <2>5, <2>6 DEF WorkOK
  <2> QED
    BY <1>1, <2>3, <2>7, WorkMoves
<1> QED
  BY <1>2, <1>3

(* An entry is never mistaken for none.                                    *)
LEMMA EntryIsSome == \A e \in EntryRow : e # NoEntry
<1> SUFFICES ASSUME NEW e \in EntryRow, e = NoEntry PROVE FALSE
  OBVIOUS
<1>1. "missing" \in DOMAIN NoEntry /\ "missing" \notin DOMAIN e
  BY DEF NoEntry, EntryRow
<1> QED
  BY <1>1

(* What is written for an order leaves the entries that there were, and    *)
(* the new ones have all of their sellers' parts.                          *)
LEMMA SavingWrites ==
    ASSUME SettledInv, NEW w \in Settlers, SaveEntries(w)
    PROVE  \E o \in Orders :
             /\ o = work[w].order
             /\ entry' \in [Orders -> [Sellers -> EntryRow \cup {NoEntry}]]
             /\ \A p \in Orders, s \in Sellers :
                   \/ entry'[p][s] = entry[p][s]
                   \/ /\ p = o /\ entry[p][s] = NoEntry
                      /\ entry'[p][s].gross = Owed(p, s)
                      /\ entry'[p][s].net + entry'[p][s].commission = entry'[p][s].gross
             /\ \A s \in SellersOf(o) : entry'[o][s] # NoEntry
<1>1. PICK q : q = work[w]
  OBVIOUS
<1>2. WorkOK(q) /\ q.at = "save"
  BY <1>1 DEF SettledInv, SaveEntries
<1>3. PICK o \in Orders : q.order = o
  BY <1>2 DEF WorkOK
<1>4. \A s \in Sellers : /\ q.gross[s] = Owed(o, s) /\ q.gross[s] \in Nat
                         /\ q.commission[s] \in Nat /\ q.commission[s] <= q.gross[s]
  <2> SUFFICES ASSUME NEW s \in Sellers
               PROVE  /\ q.gross[s] = Owed(o, s) /\ q.gross[s] \in Nat
                      /\ q.commission[s] \in Nat /\ q.commission[s] <= q.gross[s]
    OBVIOUS
  <2>1. q.gross[s] = OwedBefore(o, s, q.next) /\ q.commission[s] <= q.gross[s]
    BY <1>2, <1>3 DEF WorkOK
  <2>2. q.gross[s] = OwedBefore(o, s, Len(Items[o]) + 1)
    BY <1>2, <1>3, <2>1 DEF WorkOK
  <2>3. q.gross[s] \in Nat /\ q.commission[s] \in Nat
    BY <1>2 DEF WorkOK, WorkRow
  <2> QED
    BY <2>1, <2>2, <2>3, AllOwed
<1> DEFINE written == [s \in Sellers |-> IF Unaccrued(o, s)
                                           THEN Accrue(q.gross[s], q.commission[s])
                                           ELSE entry[o][s]]
<1>5. entry \in [Orders -> [Sellers -> EntryRow \cup {NoEntry}]]
  BY DEF SettledInv, SettlementTypeOK
<1>6. entry' = [entry EXCEPT ![o] = written]
  BY <1>1, <1>3, <1>5 DEF SaveEntries
<1>7. \A s \in Sellers :
         LET e == Accrue(q.gross[s], q.commission[s])
         IN  /\ e \in EntryRow /\ e # NoEntry /\ e.gross = Owed(o, s)
             /\ e.net + e.commission = e.gross
  <2> SUFFICES ASSUME NEW s \in Sellers
               PROVE  LET e == Accrue(q.gross[s], q.commission[s])
                      IN  /\ e \in EntryRow /\ e # NoEntry /\ e.gross = Owed(o, s)
                          /\ e.net + e.commission = e.gross
    OBVIOUS
  <2>1. PICK gross \in Nat, cut \in Nat :
          gross = q.gross[s] /\ cut = q.commission[s] /\ cut <= gross /\ gross = Owed(o, s)
    BY <1>4
  <2>2. Accrue(gross, cut) \in EntryRow
    BY <2>1 DEF Accrue, EntryRow
  <2>3. /\ Accrue(gross, cut).gross = gross
        /\ Accrue(gross, cut).net + Accrue(gross, cut).commission = gross
    BY <2>1 DEF Accrue
  <2> QED
    BY <2>1, <2>2, <2>3, EntryIsSome
<1>8. \A s \in Sellers : entry[o][s] \in EntryRow \cup {NoEntry}
  BY <1>5
<1>9. \A s \in Sellers : written[s] \in EntryRow \cup {NoEntry}
  BY <1>7, <1>8
<1>10. written \in [Sellers -> EntryRow \cup {NoEntry}]
  BY <1>9
<1>11. entry' \in [Orders -> [Sellers -> EntryRow \cup {NoEntry}]]
  <2> HIDE DEF written
  <2> QED
    BY <1>5, <1>6, <1>10
<1>12. \A p \in Orders : entry'[p] = IF p = o THEN written ELSE entry[p]
  <2> HIDE DEF written
  <2> QED
    BY <1>5, <1>6
<1>13. \A s \in Sellers : \/ written[s] = entry[o][s]
                          \/ /\ entry[o][s] = NoEntry
                             /\ written[s].gross = Owed(o, s)
                             /\ written[s].net + written[s].commission = written[s].gross
  BY <1>7 DEF Unaccrued
<1>14. SellersOf(o) \subseteq Sellers
  BY ItemsTyped DEF SellersOf
<1>15. \A s \in SellersOf(o) : written[s] # NoEntry
  BY <1>7, <1>14 DEF Unaccrued
<1> HIDE DEF written
<1>16. \A p \in Orders, s \in Sellers :
          \/ entry'[p][s] = entry[p][s]
          \/ /\ p = o /\ entry[p][s] = NoEntry
             /\ entry'[p][s].gross = Owed(p, s)
             /\ entry'[p][s].net + entry'[p][s].commission = entry'[p][s].gross
  BY <1>12, <1>13
<1> QED
  BY <1>1, <1>3, <1>11, <1>12, <1>15, <1>16

LEMMA SavingKeeps ==
    ASSUME SettledInv, TypeInv', NEW w \in Settlers, SaveEntries(w)
    PROVE  SettledInv'
<1>1. PICK o \in Orders :
        /\ o = work[w].order
        /\ entry' \in [Orders -> [Sellers -> EntryRow \cup {NoEntry}]]
        /\ \A p \in Orders, s \in Sellers :
              \/ entry'[p][s] = entry[p][s]
              \/ /\ p = o /\ entry[p][s] = NoEntry
                 /\ entry'[p][s].gross = Owed(p, s)
                 /\ entry'[p][s].net + entry'[p][s].commission = entry'[p][s].gross
        /\ \A s \in SellersOf(o) : entry'[o][s] # NoEntry
  BY SavingWrites
<1>2. /\ work' = [work EXCEPT ![w] = Resting] /\ lostWork' = lostWork
      /\ \/ completed' = completed
         \/ completed' = [completed EXCEPT ![o] = "handled"]
  BY <1>1 DEF SaveEntries
<1>3. \A v \in Settlers : work'[v] = Resting \/ work'[v] = work[v]
  BY <1>2 DEF SettledInv
<1>4. DOMAIN work' = Settlers /\ \A v \in Settlers : WorkOK(work'[v])
  BY <1>2, <1>3, RestingOK DEF SettledInv
<1>5. \A v \in Settlers : work'[v].at \in {"idle", "rate", "save"}
  BY <1>4 DEF WorkOK, WorkRow
<1>6. completed \in [Orders -> {"none", "pending", "handled"}]
  BY DEF SettledInv, SettlementTypeOK
<1>7. /\ completed' \in [Orders -> {"none", "pending", "handled"}]
      /\ \A p \in Orders : completed'[p] = "handled" => completed[p] = "handled" \/ p = o
  BY <1>2, <1>6
<1>8. SettlementTypeOK'
  BY <1>1, <1>2, <1>5, <1>7 DEF SettledInv, SettlementTypeOK
<1>9. ASSUME NEW p \in Orders, NEW s \in Sellers
      PROVE  EntryOK(p, s)'
  BY <1>1 DEF SettledInv, EntriesOK, EntryOK
<1>10. ASSUME NEW p \in Orders, NEW s \in Sellers, entry[p][s] # NoEntry
       PROVE  entry'[p][s] # NoEntry
  BY <1>1, <1>10
<1>11. ASSUME NEW p \in Orders
       PROVE  HandledOK(p)'
  <2>1. CASE p = o
    BY <1>1, <2>1 DEF HandledOK
  <2>2. CASE p # o
    <3>1. SellersOf(p) \subseteq Sellers
      BY ItemsTyped DEF SellersOf
    <3>2. completed'[p] = "handled" => \A s \in SellersOf(p) : entry[p][s] # NoEntry
      BY <1>7, <2>2 DEF SettledInv, EntriesOK, HandledOK
    <3> QED
      BY <1>10, <3>1, <3>2 DEF HandledOK
  <2> QED
    BY <2>1, <2>2
<1>12. ASSUME NEW s \in Sellers
       PROVE  IsFiniteSet(Settled(s)')
  <2>1. IsFiniteSet(Settled(s) \cup {o})
    BY FS_AddElement DEF SettledInv, EntriesOK
  <2>2. Settled(s)' \in SUBSET (Settled(s) \cup {o})
    BY <1>1 DEF Settled
  <2> QED
    BY <2>1, <2>2, FS_Subset
<1>13. EntriesOK'
  BY <1>9, <1>11, <1>12 DEF EntriesOK
<1> QED
  BY <1>4, <1>8, <1>13 DEF SettledInv, WorkOK

(* A step of either context leaves what the other one keeps: the accrual   *)
(* reads rates, and the seller context knows nothing of entries.           *)
LEMMA SettledInductive == SettledInv /\ [SettlementNext]_allVars => SettledInv'
<1> SUFFICES ASSUME SettledInv, [SettlementNext]_allVars PROVE SettledInv'
  OBVIOUS
<1>1. ASSUME [SellerNext]_sellerVars, UNCHANGED settlementVars
      PROVE  SettledInv'
  <2>1. TypeInv'
    BY <1>1, InductiveTyped DEF SettledInv
  <2>2. /\ entry' = entry /\ completed' = completed /\ work' = work /\ lostWork' = lostWork
    BY <1>1 DEF settlementVars
  <2>3. SettlementTypeOK'
    BY <2>2 DEF SettledInv, SettlementTypeOK
  <2>4. EntriesOK'
    BY <2>2 DEF SettledInv, EntriesOK, EntryOK, HandledOK, Settled
  <2> QED
    BY <2>1, <2>2, <2>3, <2>4 DEF SettledInv, WorkOK
<1>2. CASE Accrual /\ UNCHANGED sellerVars
  <2>1. TypeInv'
    BY <1>2, InductiveTyped DEF SettledInv
  <2>2. CASE \E o \in Orders : CompleteOrder(o) \/ \E w \in Settlers : Deliver(w, o)
    BY <2>1, <2>2, CompletionKeeps, DeliveryKeeps
  <2>3. CASE \E w \in Settlers : AskRate(w) \/ SaveEntries(w) \/ Stop(w) \/ Lose(w)
    BY <2>1, <2>3, AskingKeeps, SavingKeeps, StopKeeps
  <2> QED
    BY <1>2, <2>2, <2>3 DEF Accrual
<1>3. CASE SellerNext /\ UNCHANGED settlementVars
  BY <1>1, <1>3
<1>4. CASE UNCHANGED allVars
  <2>1. UNCHANGED sellerVars /\ UNCHANGED settlementVars
    BY <1>4 DEF allVars
  <2> QED
    BY <1>1, <2>1
<1> QED
  BY <1>2, <1>3, <1>4 DEF SettlementNext

(* An entry that is there stays as it is.                                  *)
LEMMA EntriesStay ==
    ASSUME SettledInv, [SettlementNext]_allVars, NEW o \in Orders, NEW s \in Sellers,
           entry[o][s] # NoEntry
    PROVE  entry'[o][s] = entry[o][s]
<1>1. CASE \E w \in Settlers : SaveEntries(w)
  BY <1>1, SavingWrites
<1>2. CASE entry' = entry
  BY <1>2
<1>3. (\E w \in Settlers : SaveEntries(w)) \/ entry' = entry
  <2>1. CASE Accrual
    <3>1. CASE \E o2 \in Orders : CompleteOrder(o2) \/ \E w \in Settlers : Deliver(w, o2)
      BY <3>1 DEF CompleteOrder, Deliver
    <3>2. CASE \E w \in Settlers : AskRate(w)
      BY <3>2, Zenon DEF AskRate
    <3>3. CASE \E w \in Settlers : Stop(w) \/ Lose(w)
      BY <3>3 DEF Stop, Lose
    <3> QED
      BY <2>1, <3>1, <3>2, <3>3 DEF Accrual
  <2>2. CASE UNCHANGED settlementVars
    BY <2>2 DEF settlementVars
  <2> QED
    BY <2>1, <2>2 DEF SettlementNext, allVars
<1> QED
  BY <1>1, <1>2, <1>3

(* What a seller is paid and what is kept of it make up what it sold.      *)
LEMMA ReportAddsUp ==
    ASSUME SettledInv, NEW s \in Sellers
    PROVE  Report(s).net + Report(s).commission = Report(s).gross
<1>1. PICK S : S = Settled(s)
  OBVIOUS
<1>2. PICK net : net = [o \in Orders |-> entry[o][s].net]
  OBVIOUS
<1>3. PICK cut : cut = [o \in Orders |-> entry[o][s].commission]
  OBVIOUS
<1>4. PICK gross : gross = [o \in Orders |-> entry[o][s].gross]
  OBVIOUS
<1>5. IsFiniteSet(S)
  BY <1>1 DEF SettledInv, EntriesOK
<1>6. ASSUME NEW o \in S
      PROVE  net[o] \in Int /\ cut[o] \in Int /\ gross[o] = net[o] + cut[o]
  <2>1. o \in Orders /\ entry[o][s] # NoEntry
    BY <1>1 DEF Settled
  <2>2. entry[o][s] \in EntryRow
    BY <2>1 DEF SettledInv, SettlementTypeOK
  <2>3. entry[o][s].net + entry[o][s].commission = entry[o][s].gross
    BY <2>1 DEF SettledInv, EntriesOK, EntryOK
  <2>4. entry[o][s].net \in Nat /\ entry[o][s].commission \in Nat
    BY <2>2 DEF EntryRow
  <2>5. net[o] = entry[o][s].net /\ cut[o] = entry[o][s].commission /\ gross[o] = entry[o][s].gross
    BY <1>2, <1>3, <1>4, <2>1
  <2> QED
    BY <2>3, <2>4, <2>5
<1>7. SumFunctionOnSet(gross, S) = SumFunctionOnSet(net, S) + SumFunctionOnSet(cut, S)
  BY <1>5, <1>6, SumOfSums
<1>8. /\ Report(s).net = SumFunctionOnSet(net, S)
      /\ Report(s).commission = SumFunctionOnSet(cut, S)
      /\ Report(s).gross = SumFunctionOnSet(gross, S)
  BY <1>1, <1>2, <1>3, <1>4 DEF Report
<1> QED
  BY <1>7, <1>8

(* The invariant of the settlement holds along every behaviour.            *)
LEMMA SettledInvariance == SettlementSpec => []SettledInv
<1>1. SellerInit /\ SettlementInit => SettledInv
  BY SettledInitially
<1>2. SettledInv /\ [SettlementNext]_allVars => SettledInv'
  BY SettledInductive
<1> QED
  BY <1>1, <1>2, PTL DEF SettlementSpec

(* Entries, order_completed events and workers keep their types: an entry  *)
(* has no negative net, however often the rate changes while its items are *)
(* added up (AccrueSettlementHandler.Handle).                              *)
THEOREM SettlementTypeCorrect == SettlementSpec => []SettlementTypeOK
<1>1. SettledInv => SettlementTypeOK
  BY DEF SettledInv
<1> QED
  BY <1>1, SettledInvariance, PTL

(* An order is settled with a seller once: for any orders, items, rates    *)
(* and workers, an entry is never rewritten, since the handler looks for   *)
(* it before it accrues, the sums of a seller's report add up, and the     *)
(* event of an order counts as handled only when each of its sellers has   *)
(* an entry with the whole of its part (AccrueSettlementHandler.Handle).   *)
THEOREM AlwaysAccruedOnce == SettlementSpec => AccruedOnce
<1> DEFINE Kept ==
        /\ \A o \in Orders, s \in Sellers :
             entry[o][s] # NoEntry => entry'[o][s] = entry[o][s]
        /\ \A s \in Sellers :
             /\ Report(s).net + Report(s).commission = Report(s).gross
             /\ \A o \in Orders : completed[o] = "handled" =>
                   (s \in SellersOf(o) => entry[o][s].gross = Owed(o, s))
<1>1. ASSUME SettledInv, [SettlementNext]_allVars
      PROVE  Kept
  <2>1. \A o \in Orders, s \in Sellers :
           entry[o][s] # NoEntry => entry'[o][s] = entry[o][s]
    BY <1>1, EntriesStay
  <2>2. \A s \in Sellers : Report(s).net + Report(s).commission = Report(s).gross
    BY <1>1, ReportAddsUp
  <2>3. \A o \in Orders, s \in Sellers :
           completed[o] = "handled" => (s \in SellersOf(o) => entry[o][s].gross = Owed(o, s))
    BY <1>1 DEF SettledInv, EntriesOK, EntryOK, HandledOK
  <2> QED
    BY <2>1, <2>2, <2>3
<1>2. SettledInv /\ [SettlementNext]_allVars => [Kept]_allVars
  BY <1>1
<1> HIDE DEF Kept
<1>3. SettlementSpec => [][Kept]_allVars
  BY <1>2, SettledInvariance, PTL DEF SettlementSpec
<1> QED
  BY <1>3 DEF Kept, AccruedOnce
=============================================================================
