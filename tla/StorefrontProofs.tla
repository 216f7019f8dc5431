-------------------------- MODULE StorefrontProofs --------------------------
(***************************************************************************)
(* Proofs about promo codes, idempotency keys, prices and accounts.  First,*)
(* that the limits of a promo code hold for any orders, customers, limits  *)
(* and number of sessions, and that its transactions implement the atomic  *)
(* uses of module Quota.  Then, that a request is done once, and that a    *)
(* replayed answer is the one of the work, for any keys, bodies, number of *)
(* attempts and bounds.  Then, that concurrent commands keep prices and    *)
(* promotions as they were decided.  Last, that a refresh token is         *)
(* exchanged once, and that no challenge is guessed at more often than the *)
(* policy allows.  The four share no state.                                *)
(***************************************************************************)
EXTENDS PromoCode, Idempotency, Pricing, Identity, FiniteSetTheorems, TLAPS

-----------------------------------------------------------------------------
(* Promo codes.                                                            *)

Read == {"redeemed", "usage", "save"}

(* A session that has read the row, and whose version still stands, has    *)
(* read what is there; so have its queries of the redemptions.             *)
SeenOK(s) ==
    /\ at[s] \in Read =>
          /\ seen[s].version <= row.version
          /\ seen[s].version = row.version => seen[s] = row
    /\ op[s] \in {"redeem", "release"} => subject[s] \in Orders
    /\ at[s] \in {"redeemed", "usage"} => op[s] \in {"redeem", "release"}
    /\ at[s] = "usage" => op[s] = "redeem"
    /\ at[s] = "save" /\ op[s] = "redeem" /\ seen[s].version = row.version
          => usage[s] = Cardinality(UsedBy(Buyer[subject[s]]))
    /\ at[s] = "save" /\ op[s] = "release" /\ seen[s].version = row.version
          => subject[s] \in redeemed

IInv ==
    /\ TypeOK
    /\ IsFiniteSet(redeemed)
    /\ UsedIsCounted
    /\ LimitsHold
    /\ \A s \in Sessions : SeenOK(s)

-----------------------------------------------------------------------------
(* The redemptions of a customer are finitely many.                        *)
LEMMA UsedByFinite ==
    ASSUME IsFiniteSet(redeemed), NEW c
    PROVE  /\ IsFiniteSet(UsedBy(c))
           /\ Cardinality(UsedBy(c)) \in Nat
<1>1. UsedBy(c) \in SUBSET redeemed
  BY DEF UsedBy
<1> QED
  BY <1>1, FS_Subset, FS_CardinalityType

(* Taking a use adds one to the uses of its customer and of nobody else.   *)
LEMMA TakingCounts ==
    ASSUME NEW o \in Orders, o \notin redeemed, IsFiniteSet(redeemed),
           redeemed' = redeemed \cup {o}, NEW c
    PROVE  /\ IsFiniteSet(redeemed')
           /\ Cardinality(redeemed') = Cardinality(redeemed) + 1
           /\ Buyer[o] = c => Cardinality(UsedBy(c)') = Cardinality(UsedBy(c)) + 1
           /\ Buyer[o] # c => UsedBy(c)' = UsedBy(c)
<1>1. IsFiniteSet(UsedBy(c))
  BY UsedByFinite
<1>2. /\ IsFiniteSet(redeemed')
      /\ Cardinality(redeemed') = Cardinality(redeemed) + 1
  BY FS_AddElement
<1>3. ASSUME Buyer[o] = c
      PROVE  Cardinality(UsedBy(c)') = Cardinality(UsedBy(c)) + 1
  <2>1. UsedBy(c)' = UsedBy(c) \cup {o}
    BY <1>3 DEF UsedBy
  <2>2. o \notin UsedBy(c)
    BY DEF UsedBy
  <2> QED
    BY <1>1, <2>1, <2>2, FS_AddElement
<1>4. Buyer[o] # c => UsedBy(c)' = UsedBy(c)
  BY DEF UsedBy
<1> QED
  BY <1>2, <1>3, <1>4

(* Giving a use back takes one from the total and adds nothing to the uses *)
(* of any customer.                                                        *)
LEMMA GivingBackCounts ==
    ASSUME NEW o \in redeemed, IsFiniteSet(redeemed), redeemed' = redeemed \ {o}, NEW c
    PROVE  /\ IsFiniteSet(redeemed')
           /\ Cardinality(redeemed) \in Nat \ {0}
           /\ Cardinality(redeemed') = Cardinality(redeemed) - 1
           /\ Cardinality(UsedBy(c)') <= Cardinality(UsedBy(c))
<1>1. IsFiniteSet(UsedBy(c))
  BY UsedByFinite
<1>2. UsedBy(c)' \in SUBSET UsedBy(c)
  BY DEF UsedBy
<1>3. /\ IsFiniteSet(redeemed')
      /\ Cardinality(redeemed') = Cardinality(redeemed) - 1
  BY FS_RemoveElement
<1>4. Cardinality(redeemed) \in Nat /\ Cardinality(redeemed) # 0
  BY FS_CardinalityType, FS_EmptySet
<1> QED
  BY <1>1, <1>2, <1>3, <1>4, FS_Subset

(* What a transaction does not touch is as it was for every other session, *)
(* and the row stands or gets a new version.                               *)
LEMMA StepIsLocal ==
    ASSUME TypeOK, NEW s \in Sessions, Step(s), NEW t \in Sessions, t # s
    PROVE  /\ op'[t] = op[t] /\ subject'[t] = subject[t] /\ at'[t] = at[t]
           /\ seen'[t] = seen[t] /\ usage'[t] = usage[t]
           /\ \/ row' = row /\ redeemed' = redeemed
              \/ row'.version = row.version + 1
<1> USE DEF TypeOK, Goto, End
<1>1. CASE Command(s)
  BY <1>1 DEF Command
<1>2. CASE FindByCode(s)
  BY <1>2 DEF FindByCode
<1>3. CASE Redeemed(s)
  BY <1>3 DEF Redeemed
<1>4. CASE CustomerUsage(s)
  BY <1>4 DEF CustomerUsage
<1>5. CASE Redeem(s)
  BY <1>5 DEF Redeem, Save
<1>6. CASE Release(s)
  BY <1>6 DEF Release, Save
<1>7. CASE SetStatus(s)
  BY <1>7 DEF SetStatus, Save
<1>8. CASE RollBack(s)
  BY <1>8 DEF RollBack
<1> QED
  BY <1>1, <1>2, <1>3, <1>4, <1>5, <1>6, <1>7, <1>8 DEF Step

(* A step of one session keeps what the others have read true, or moves    *)
(* the version past theirs.                                                *)
LEMMA OthersKeep ==
    ASSUME TypeOK, NEW s \in Sessions, Step(s), NEW t \in Sessions, t # s, SeenOK(t)
    PROVE  SeenOK(t)'
<1>1. /\ op'[t] = op[t] /\ subject'[t] = subject[t] /\ at'[t] = at[t]
      /\ seen'[t] = seen[t] /\ usage'[t] = usage[t]
  BY StepIsLocal
<1>2. CASE row' = row /\ redeemed' = redeemed
  <2>1. UsedBy(Buyer[subject[t]])' = UsedBy(Buyer[subject[t]])
    BY <1>1, <1>2 DEF UsedBy
  <2> QED
    BY <1>1, <1>2, <2>1 DEF SeenOK
<1>3. CASE row'.version = row.version + 1
  <2>1. row.version \in Nat /\ seen[t].version \in Nat
    BY DEF TypeOK, Row
  <2>2. at[t] \in Read => seen[t].version < row'.version
    BY <1>3, <2>1 DEF SeenOK
  <2>3. at[t] \in Read =>
           seen'[t].version <= row'.version /\ seen'[t].version # row'.version
    BY <1>1, <1>3, <2>1, <2>2
  <2> QED
    BY <1>1, <2>3 DEF SeenOK, Read
<1> QED
  BY <1>2, <1>3, StepIsLocal

(* The session that takes a step has read what is there.                   *)
LEMMA MoverReads ==
    ASSUME TypeOK, NEW s \in Sessions, Step(s), SeenOK(s)
    PROVE  SeenOK(s)'
<1> USE DEF TypeOK, Goto
<1>1. CASE Command(s)
  BY <1>1 DEF Command, SeenOK, Read
<1>2. CASE FindByCode(s)
  <2>1. /\ row' = row /\ redeemed' = redeemed /\ seen'[s] = row
        /\ op' = op /\ subject' = subject /\ usage' = usage
        /\ at'[s] = IF op[s] \in {"redeem", "release"} THEN "redeemed" ELSE "save"
    BY <1>2 DEF FindByCode
  <2>2. row.version \in Nat
    BY DEF Row
  <2> QED
    BY <2>1, <2>2 DEF SeenOK, Read
<1>3. CASE Redeemed(s)
  <2>1. CASE op[s] = "redeem" /\ subject[s] \notin redeemed
    BY <1>3, <2>1 DEF Redeemed, SeenOK, Read
  <2>2. CASE op[s] = "release" /\ subject[s] \in redeemed
    BY <1>3, <2>2 DEF Redeemed, SeenOK, Read
  <2>3. CASE End(s)
    BY <2>3 DEF End, SeenOK, Read
  <2> QED
    BY <1>3, <2>1, <2>2, <2>3 DEF Redeemed
<1>4. CASE CustomerUsage(s)
  <2>1. /\ row' = row /\ redeemed' = redeemed /\ seen' = seen
        /\ op' = op /\ subject' = subject
        /\ at[s] = "usage" /\ at'[s] = "save"
        /\ usage'[s] = Cardinality(UsedBy(Buyer[subject[s]]))
    BY <1>4 DEF CustomerUsage
  <2>2. UsedBy(Buyer[subject[s]])' = UsedBy(Buyer[subject[s]])
    BY <2>1 DEF UsedBy
  <2> QED
    BY <2>1, <2>2 DEF SeenOK, Read
<1>5. CASE End(s)
  BY <1>5 DEF End, SeenOK, Read
<1> QED
  BY <1>1, <1>2, <1>3, <1>4, <1>5 DEF Step, Redeem, Release, SetStatus, RollBack

-----------------------------------------------------------------------------
(* A step that leaves the redemptions alone leaves the uses as they were.  *)
LEMMA TypeInvariant ==
    ASSUME TypeOK, IsFiniteSet(redeemed), NEW s \in Sessions, Step(s), SeenOK(s)
    PROVE  TypeOK'
<1> USE DEF TypeOK, Goto
<1>0. row.used \in Nat /\ row.version \in Nat /\ row.status \in Status
      /\ seen[s].used \in Nat /\ seen[s].status \in Status
  BY DEF Row
<1>1. CASE Command(s)
  BY <1>1 DEF Command
<1>2. CASE FindByCode(s)
  BY <1>2 DEF FindByCode
<1>3. ASSUME End(s), row' \in Row, redeemed' \subseteq Orders
      PROVE  TypeOK'
  BY <1>3 DEF End, NoRow, Row, Status
<1>4. CASE Redeemed(s)
  BY <1>3, <1>4 DEF Redeemed
<1>5. CASE CustomerUsage(s)
  <2>1. Cardinality(UsedBy(Buyer[subject[s]])) \in Nat
    BY UsedByFinite
  <2> QED
    BY <1>5, <2>1 DEF CustomerUsage
<1>6. CASE Redeem(s)
  <2>1. subject[s] \in Orders
    BY <1>6 DEF Redeem, SeenOK
  <2>2. row' \in Row
    BY <1>0, <1>6 DEF Redeem, Save, Row
  <2> QED
    BY <1>3, <1>6, <2>1, <2>2 DEF Redeem
<1>7. CASE Release(s)
  <2>1. row' \in Row
    BY <1>0, <1>7 DEF Release, Save, Row
  <2> QED
    BY <1>3, <1>7, <2>1 DEF Release
<1>8. CASE SetStatus(s)
  <2>1. row' \in Row
    BY <1>0, <1>8 DEF SetStatus, Save, Row, Status
  <2> QED
    BY <1>3, <1>8, <2>1 DEF SetStatus
<1>9. CASE RollBack(s)
  BY <1>3, <1>9 DEF RollBack
<1> QED
  BY <1>1, <1>2, <1>4, <1>5, <1>6, <1>7, <1>8, <1>9 DEF Step

(* Quota counts as this module does.                                       *)
LEMMA SameCardinality == \A S : Promise!Cardinality(S) = Cardinality(S)
  BY DEF Promise!Cardinality, Cardinality

(* A redemption that is saved was within the limits, and of an active code *)
(* when it was saved: the version has not changed since the row was read,  *)
(* so nothing that was counted has.                                        *)
LEMMA RedeemTakes ==
    ASSUME IInv, NEW s \in Sessions, Redeem(s)
    PROVE  /\ subject[s] \in Orders
           /\ Promise!Take(subject[s])
           /\ row'.used = row.used + 1
<1>1. /\ seen[s] = row /\ subject[s] \in Orders /\ subject[s] \notin redeemed
      /\ usage[s] = Cardinality(UsedBy(Buyer[subject[s]]))
      /\ redeemed' = redeemed \cup {subject[s]}
      /\ row'.used = seen[s].used + 1
      /\ row.status = "active" /\ row'.status = row.status
      /\ Below(seen[s].used, TotalLimit) /\ Below(usage[s], CustomerLimit)
  BY DEF IInv, SeenOK, Redeem, Save, Usable, Read
<1>2. /\ Promise!UsedBy(Buyer[subject[s]]) = UsedBy(Buyer[subject[s]])
      /\ Promise!Below(Cardinality(redeemed), TotalLimit)
             = Below(Cardinality(redeemed), TotalLimit)
      /\ Promise!Below(usage[s], CustomerLimit) = Below(usage[s], CustomerLimit)
  BY DEF Promise!UsedBy, UsedBy, Promise!Below, Below
<1>3. row.used = Cardinality(redeemed)
  BY DEF IInv, UsedIsCounted
<1>4. /\ Promise!Below(Promise!Cardinality(redeemed), TotalLimit)
      /\ Promise!Below(Promise!Cardinality(Promise!UsedBy(Buyer[subject[s]])), CustomerLimit)
  BY <1>1, <1>2, <1>3, SameCardinality
<1>5. Promise!Take(subject[s])
  BY <1>1, <1>4 DEF Promise!Take
<1> QED
  BY <1>1, <1>5

(* A release that is saved gives back a use that was taken.                *)
LEMMA ReleaseGivesBack ==
    ASSUME IInv, NEW s \in Sessions, Release(s)
    PROVE  /\ subject[s] \in Orders
           /\ Promise!GiveBack(subject[s])
           /\ row'.used = row.used - 1
<1>1. /\ seen[s] = row /\ subject[s] \in redeemed
      /\ redeemed' = redeemed \ {subject[s]}
      /\ row'.status = row.status
      /\ row'.used = IF seen[s].used > 0 THEN seen[s].used - 1 ELSE 0
  BY DEF IInv, SeenOK, Release, Save, Read
<1>2. row.used = Cardinality(redeemed) /\ IsFiniteSet(redeemed) /\ redeemed \subseteq Orders
  BY DEF IInv, UsedIsCounted, TypeOK
<1>3. Cardinality(redeemed) \in Nat \ {0}
  BY <1>1, <1>2, FS_CardinalityType, FS_EmptySet
<1> QED
  BY <1>1, <1>2, <1>3 DEF Promise!GiveBack

(* Every step is one of the atomic uses, or leaves the redemptions alone.  *)
LEMMA StepSimulates ==
    ASSUME IInv, NEW s \in Sessions, Step(s)
    PROVE  \/ Redeem(s) /\ \E o \in Orders : Promise!Take(o)
           \/ Release(s) /\ \E o \in Orders : Promise!GiveBack(o)
           \/ /\ redeemed' = redeemed /\ row'.used = row.used
              /\ Promise!SetStatus \/ row'.status = row.status
<1>1. CASE Redeem(s)
  BY <1>1, RedeemTakes
<1>2. CASE Release(s)
  BY <1>2, ReleaseGivesBack
<1>3. CASE SetStatus(s)
  BY <1>3 DEF SetStatus, Save, IInv, SeenOK, Read, Promise!SetStatus
<1>4. CASE Command(s) \/ FindByCode(s) \/ Redeemed(s) \/ CustomerUsage(s) \/ RollBack(s)
  BY <1>4 DEF Command, FindByCode, Redeemed, CustomerUsage, RollBack
<1> QED
  BY <1>1, <1>2, <1>3, <1>4 DEF Step

-----------------------------------------------------------------------------
(* The counter and the limits after a use is taken.                        *)
LEMMA TakingKeepsLimits ==
    ASSUME UsedIsCounted, LimitsHold, IsFiniteSet(redeemed),
           NEW o \in Orders, Promise!Take(o), row'.used = row.used + 1
    PROVE  IsFiniteSet(redeemed)' /\ UsedIsCounted' /\ LimitsHold'
<1> USE PromoCodeAssumption
<1>1. /\ o \notin redeemed /\ redeemed' = redeemed \cup {o}
      /\ TotalLimit = 0 \/ Cardinality(redeemed) < TotalLimit
      /\ CustomerLimit = 0 \/ Cardinality(UsedBy(Buyer[o])) < CustomerLimit
  <2>1. Promise!UsedBy(Buyer[o]) = UsedBy(Buyer[o])
    BY DEF Promise!UsedBy, UsedBy
  <2> QED
    BY <2>1, SameCardinality DEF Promise!Take, Promise!Below
<1>2. /\ IsFiniteSet(redeemed')
      /\ Cardinality(redeemed') = Cardinality(redeemed) + 1
      /\ Cardinality(redeemed) \in Nat
  BY <1>1, TakingCounts, FS_CardinalityType
<1>3. UsedIsCounted'
  BY <1>2 DEF UsedIsCounted
<1>4. ASSUME CustomerLimit > 0, NEW p \in Orders
      PROVE  Cardinality(UsedBy(Buyer[p])') <= CustomerLimit
  <2>1. Cardinality(UsedBy(Buyer[p])) \in Nat
    BY UsedByFinite
  <2>2. CASE Buyer[o] = Buyer[p]
    <3>1. Cardinality(UsedBy(Buyer[p])') = Cardinality(UsedBy(Buyer[p])) + 1
      BY <1>1, <2>2, TakingCounts
    <3> QED
      BY <1>1, <1>4, <2>1, <2>2, <3>1
  <2>3. CASE Buyer[o] # Buyer[p]
    <3>1. UsedBy(Buyer[p])' = UsedBy(Buyer[p])
      BY <1>1, <2>3, TakingCounts
    <3> QED
      BY <1>4, <3>1 DEF LimitsHold
  <2> QED
    BY <2>2, <2>3
<1>5. TotalLimit > 0 => Cardinality(redeemed') <= TotalLimit
  BY <1>1, <1>2
<1> QED
  BY <1>2, <1>3, <1>4, <1>5 DEF LimitsHold

(* The counter and the limits after a use is given back.                   *)
LEMMA GivingBackKeepsLimits ==
    ASSUME UsedIsCounted, LimitsHold, IsFiniteSet(redeemed),
           NEW o \in Orders, Promise!GiveBack(o), row'.used = row.used - 1
    PROVE  IsFiniteSet(redeemed)' /\ UsedIsCounted' /\ LimitsHold'
<1> USE PromoCodeAssumption
<1>1. o \in redeemed /\ redeemed' = redeemed \ {o}
  BY DEF Promise!GiveBack
<1>2. /\ IsFiniteSet(redeemed')
      /\ Cardinality(redeemed) \in Nat
      /\ Cardinality(redeemed') = Cardinality(redeemed) - 1
  BY <1>1, GivingBackCounts
<1>3. UsedIsCounted'
  BY <1>2 DEF UsedIsCounted
<1>4. ASSUME CustomerLimit > 0, NEW p \in Orders
      PROVE  Cardinality(UsedBy(Buyer[p])') <= CustomerLimit
  <2>1. /\ Cardinality(UsedBy(Buyer[p])) \in Nat
        /\ Cardinality(UsedBy(Buyer[p])) <= CustomerLimit
    BY <1>4, UsedByFinite DEF LimitsHold
  <2>2. Cardinality(UsedBy(Buyer[p])') <= Cardinality(UsedBy(Buyer[p]))
    BY <1>1, GivingBackCounts
  <2>3. UsedBy(Buyer[p])' \in SUBSET redeemed'
    BY DEF UsedBy
  <2>4. Cardinality(UsedBy(Buyer[p])') \in Nat
    BY <1>2, <2>3, FS_Subset, FS_CardinalityType
  <2> QED
    BY <2>1, <2>2, <2>4
<1>5. TotalLimit > 0 => Cardinality(redeemed') <= TotalLimit
  BY <1>2 DEF LimitsHold
<1> QED
  BY <1>2, <1>3, <1>4, <1>5 DEF LimitsHold

(* The initial state, and every step, establish the invariant.             *)
LEMMA Initially == Init => IInv
<1> SUFFICES ASSUME Init PROVE IInv
  OBVIOUS
<1>1. TypeOK
  BY DEF Init, TypeOK, Row, Status, NoRow
<1>2. /\ IsFiniteSet(redeemed) /\ Cardinality(redeemed) = 0
      /\ \A c : UsedBy(c) = {} /\ Cardinality(UsedBy(c)) = 0
  BY FS_EmptySet DEF Init, UsedBy
<1>3. UsedIsCounted /\ LimitsHold
  BY <1>2, PromoCodeAssumption DEF Init, UsedIsCounted, LimitsHold
<1>4. ASSUME NEW s \in Sessions
      PROVE  SeenOK(s)
  BY DEF Init, SeenOK, Read
<1> QED
  BY <1>1, <1>2, <1>3, <1>4 DEF IInv

LEMMA Inductive == IInv /\ [Next]_vars => IInv'
<1> SUFFICES ASSUME IInv, [Next]_vars PROVE IInv'
  OBVIOUS
<1>0. /\ TypeOK /\ IsFiniteSet(redeemed) /\ UsedIsCounted /\ LimitsHold
      /\ \A s \in Sessions : SeenOK(s)
  BY DEF IInv
<1>1. ASSUME NEW s \in Sessions, Step(s)
      PROVE  IInv'
  <2>1. TypeOK'
    BY <1>0, <1>1, TypeInvariant
  <2>2. ASSUME NEW t \in Sessions
        PROVE  SeenOK(t)'
    BY <1>0, <1>1, MoverReads, OthersKeep
  <2>3. IsFiniteSet(redeemed)' /\ UsedIsCounted' /\ LimitsHold'
    <3>1. CASE Redeem(s)
      BY <1>0, <3>1, RedeemTakes, TakingKeepsLimits
    <3>2. CASE Release(s)
      BY <1>0, <3>2, ReleaseGivesBack, GivingBackKeepsLimits
    <3>3. CASE redeemed' = redeemed /\ row'.used = row.used
      BY <1>0, <3>3 DEF UsedIsCounted, LimitsHold, UsedBy
    <3> QED
      BY <1>1, <3>1, <3>2, <3>3, StepSimulates
  <2> QED
    BY <2>1, <2>2, <2>3 DEF IInv
<1>2. CASE UNCHANGED vars
  <2>1. TypeOK'
    BY <1>0, <1>2 DEF vars, TypeOK
  <2>2. IsFiniteSet(redeemed)' /\ UsedIsCounted' /\ LimitsHold'
    BY <1>0, <1>2 DEF vars, UsedIsCounted, LimitsHold, UsedBy
  <2>3. ASSUME NEW t \in Sessions
        PROVE  SeenOK(t)'
    BY <1>0, <1>2 DEF vars, SeenOK, UsedBy
  <2> QED
    BY <2>1, <2>2, <2>3 DEF IInv
<1> QED
  BY <1>1, <1>2 DEF Next

LEMMA Invariance == Spec => []IInv
  BY Initially, Inductive, PTL DEF Spec

(* The rows of promo_codes and its redemptions stay in their ranges, and a *)
(* command is where the handlers can be, whatever sessions overlap.        *)
THEOREM CodeTypeCorrect == Spec => []TypeOK
<1>1. IInv => TypeOK
  BY DEF IInv
<1> QED
  BY <1>1, Invariance, PTL

(* The counter of promo_codes.used agrees with the redemption rows.        *)
THEOREM CounterAgrees == Spec => []UsedIsCounted
<1>1. IInv => UsedIsCounted
  BY DEF IInv
<1> QED
  BY <1>1, Invariance, PTL

(* RedeemPromoCodeHandler never exceeds the limits of the code, in total   *)
(* or for a customer, for any number of concurrent checkouts.              *)
THEOREM LimitsAlwaysHold == Spec => []LimitsHold
<1>1. IInv => LimitsHold
  BY DEF IInv
<1> QED
  BY <1>1, Invariance, PTL

(* The transactions over two tables implement uses that are taken and      *)
(* given back in one step, and only while the code is active; no command   *)
(* brings back a status it has read before.                                *)
THEOREM KeepsTheQuota == Spec => KeepsQuota
<1>1. Init => Promise!Init
  BY DEF Init, Promise!Init
<1>2. IInv /\ [Next]_vars => [Promise!Next]_(Promise!quotaVars)
  <2> SUFFICES ASSUME IInv, [Next]_vars
               PROVE  Promise!Next \/ UNCHANGED Promise!quotaVars
    OBVIOUS
  <2>1. ASSUME NEW s \in Sessions, Step(s)
        PROVE  Promise!Next \/ UNCHANGED Promise!quotaVars
    BY <2>1, StepSimulates DEF Promise!Next, Promise!quotaVars
  <2>2. CASE UNCHANGED vars
    BY <2>2 DEF vars, Promise!quotaVars
  <2> QED
    BY <2>1, <2>2 DEF Next
<1> QED
  BY <1>1, <1>2, Invariance, PTL DEF Spec, KeepsQuota, Promise!Spec

-----------------------------------------------------------------------------
(* Idempotency keys.                                                       *)

(* The part of IdempotencyTypeOK that the arguments need, without the bounds.         *)
Shape ==
    /\ record \in [Keys -> Record]
    /\ overdue \subseteq Keys
    /\ step \in [Attempts -> Steps]
    /\ key \in [Attempts -> Keys \cup {None}]
    /\ body \in [Attempts -> Bodies \cup {None}]
    /\ answer \in [Attempts -> Answers \cup {"none"}]
    /\ effects \subseteq Attempts
    /\ origin \in [Keys -> Attempts \cup {None}]
    /\ ttls \in Nat

(* An attempt has a key and a hash from the start, has changed state only  *)
(* in its handler, and has succeeded only if it has.                       *)
AttemptOK(a) ==
    /\ step[a] # "idle" => key[a] \in Keys /\ body[a] \in Bodies
    /\ a \in effects => step[a] \in {"finish", "answered"}
    /\ step[a] = "finish" /\ answer[a] = "success" => a \in effects

(* The attempt whose work stands: it has changed state, and its answer is  *)
(* not one that gives the key back.                                        *)
Stands(a) == a \in effects /\ answer[a] # "failed"

(* As long as no row has outlived its time, an attempt that has begun the  *)
(* work, or whose work stands, is the one that its key's row is of.        *)
OwnerOK(a) ==
    /\ step[a] \in {"handle", "finish"} =>
          /\ origin[key[a]] = a
          /\ record[key[a]].state = "in_progress"
          /\ record[key[a]].hash = body[a]
    /\ Stands(a) => origin[key[a]] = a /\ record[key[a]].state # "none"

OwnersOK == ttls = 0 => overdue = {} /\ \A a \in Attempts : OwnerOK(a)

(* A success that a row stores is that of an attempt which did the work.   *)
Source(b, k, h) ==
    /\ b \in effects /\ key[b] = k /\ answer[b] = "success"
    /\ ttls = 0 => body[b] = h

StoredOK(k) ==
    record[k].state = "completed" /\ record[k].answer = "success"
        => \E b \in Attempts : Source(b, k, record[k].hash)

KeysInv ==
    /\ Shape
    /\ \A a \in Attempts : AttemptOK(a)
    /\ OwnersOK
    /\ \A k \in Keys : StoredOK(k)
    /\ ReplaysTheAnswer

(* Without rows and attempts there is nothing to relate.                   *)
LEMMA KeysInitially == IdempotencyInit => KeysInv
<1> SUFFICES ASSUME IdempotencyInit PROVE KeysInv
  OBVIOUS
<1> USE DEF IdempotencyInit, NoRecord, Record, Steps, Ended, Answers
<1>1. Shape
  BY DEF Shape
<1>2. \A a \in Attempts : AttemptOK(a)
  BY DEF AttemptOK
<1>3. OwnersOK
  BY DEF OwnersOK, OwnerOK, Stands
<1>4. \A k \in Keys : StoredOK(k)
  BY DEF StoredOK
<1>5. ReplaysTheAnswer
  BY DEF ReplaysTheAnswer
<1> QED
  BY <1>1, <1>2, <1>3, <1>4, <1>5 DEF KeysInv

(* A row that is completed is a row.                                       *)
LEMMA CompletedIsRecord ==
    ASSUME NEW r \in [Keys -> Record], NEW k \in Keys, NEW x \in Answers \cup {"none"}
    PROVE  [r EXCEPT ![k].state = "completed", ![k].answer = x] \in [Keys -> Record]
<1> DEFINE half == [r EXCEPT ![k] = [@ EXCEPT !.state = "completed"]]
<1>1. r[k] \in Record
  OBVIOUS
<1>2. [r[k] EXCEPT !.state = "completed"] \in Record
  BY <1>1 DEF Record
<1>3. half \in [Keys -> Record]
  BY <1>2
<1>4. half[k] = [r[k] EXCEPT !.state = "completed"]
  OBVIOUS
<1>5. [half[k] EXCEPT !.answer = x] \in Record
  BY <1>2, <1>4 DEF Record
<1>6. [half EXCEPT ![k] = [half[k] EXCEPT !.answer = x]] \in [Keys -> Record]
  BY <1>3, <1>5
<1>7. [r EXCEPT ![k].state = "completed", ![k].answer = x]
        = [half EXCEPT ![k] = [half[k] EXCEPT !.answer = x]]
  OBVIOUS
<1> QED
  BY <1>6, <1>7

(* The shape of the state.                                                 *)
LEMMA ShapeKept ==
    ASSUME Shape, \A a \in Attempts : AttemptOK(a), [IdempotencyNext]_idemVars
    PROVE  Shape'
<1> USE DEF Shape, AttemptOK, Record, NoRecord, Steps, Ended, Answers, Move, Reply, Failure
<1>1. ASSUME NEW a \in Attempts, NEW k \in Keys, NEW b \in Bodies, Send(a, k, b)
      PROVE  Shape'
  BY <1>1 DEF Send
<1>2. ASSUME NEW a \in Attempts, Begin(a)
      PROVE  Shape'
  BY <1>2 DEF Begin, Free
<1>3. ASSUME NEW a \in Attempts, Load(a)
      PROVE  Shape'
  BY <1>3 DEF Load, Replay
<1>4. ASSUME NEW a \in Attempts, NEW x \in Answers, NEW changed \in BOOLEAN,
             Handle(a, x, changed)
      PROVE  Shape'
  BY <1>4 DEF Handle
<1>5. ASSUME NEW a \in Attempts, Finish(a)
      PROVE  Shape'
  <2>1. key[a] \in Keys
    BY <1>5 DEF Finish
  <2>2. record[key[a]] \in Record /\ answer[a] \in Answers \cup {"none"}
    BY <2>1
  <2>3. [record EXCEPT ![key[a]].state = "completed", ![key[a]].answer = answer[a]]
          \in [Keys -> Record]
    BY <2>1, <2>2, CompletedIsRecord
  <2>4. [record EXCEPT ![key[a]] = NoRecord] \in [Keys -> Record]
    OBVIOUS
  <2>5. record' \in [Keys -> Record]
    BY <1>5, <2>3, <2>4 DEF Finish, Releases
  <2> QED
    BY <1>5, <2>5 DEF Finish
<1>6. ASSUME NEW a \in Attempts, Break(a)
      PROVE  Shape'
  BY <1>6 DEF Break
<1>7. ASSUME NEW k \in Keys, Outlive(k)
      PROVE  Shape'
  BY <1>7 DEF Outlive
<1>8. ASSUME DeleteExpired
      PROVE  Shape'
  BY <1>8 DEF DeleteExpired
<1>9. ASSUME UNCHANGED idemVars
      PROVE  Shape'
  BY <1>9 DEF idemVars
<1> QED
  BY <1>1, <1>2, <1>3, <1>4, <1>5, <1>6, <1>7, <1>8, <1>9 DEF IdempotencyNext

(* An attempt's own steps keep what is known of it.                        *)
LEMMA AttemptsKept ==
    ASSUME Shape, \A a \in Attempts : AttemptOK(a), [IdempotencyNext]_idemVars
    PROVE  (\A t \in Attempts : AttemptOK(t))'
<1> USE DEF Shape, AttemptOK, Record, NoRecord, Steps, Ended, Answers, Move, Reply, Failure
<1>1. ASSUME NEW a \in Attempts, NEW k \in Keys, NEW b \in Bodies, Send(a, k, b)
      PROVE  (\A t \in Attempts : AttemptOK(t))'
  BY <1>1 DEF Send
<1>2. ASSUME NEW a \in Attempts, Begin(a)
      PROVE  (\A t \in Attempts : AttemptOK(t))'
  BY <1>2 DEF Begin, Free
<1>3. ASSUME NEW a \in Attempts, Load(a)
      PROVE  (\A t \in Attempts : AttemptOK(t))'
  BY <1>3 DEF Load, Replay
<1>4. ASSUME NEW a \in Attempts, NEW x \in Answers, NEW changed \in BOOLEAN,
             Handle(a, x, changed)
      PROVE  (\A t \in Attempts : AttemptOK(t))'
  BY <1>4 DEF Handle
<1>5. ASSUME NEW a \in Attempts, Finish(a)
      PROVE  (\A t \in Attempts : AttemptOK(t))'
  BY <1>5 DEF Finish, Releases
<1>6. ASSUME NEW a \in Attempts, Break(a)
      PROVE  (\A t \in Attempts : AttemptOK(t))'
  BY <1>6 DEF Break
<1>7. ASSUME NEW k \in Keys, Outlive(k)
      PROVE  (\A t \in Attempts : AttemptOK(t))'
  BY <1>7 DEF Outlive
<1>8. ASSUME DeleteExpired
      PROVE  (\A t \in Attempts : AttemptOK(t))'
  BY <1>8 DEF DeleteExpired
<1>9. ASSUME UNCHANGED idemVars
      PROVE  (\A t \in Attempts : AttemptOK(t))'
  BY <1>9 DEF idemVars
<1> QED
  BY <1>1, <1>2, <1>3, <1>4, <1>5, <1>6, <1>7, <1>8, <1>9 DEF IdempotencyNext

(* Without a row that outlives its time nobody takes over another's row.   *)
LEMMA OwnersKept ==
    ASSUME Shape, \A a \in Attempts : AttemptOK(a), OwnersOK, [IdempotencyNext]_idemVars
    PROVE  OwnersOK'
<1> USE DEF Shape, AttemptOK, OwnersOK, OwnerOK, Stands, Record, NoRecord, Steps, Ended,
        Answers, Move, Reply, Failure
<1>1. ASSUME NEW a \in Attempts, NEW k \in Keys, NEW b \in Bodies, Send(a, k, b)
      PROVE  OwnersOK'
  BY <1>1 DEF Send
<1>2. ASSUME NEW a \in Attempts, Begin(a)
      PROVE  OwnersOK'
  BY <1>2 DEF Begin, Free
<1>3. ASSUME NEW a \in Attempts, Load(a)
      PROVE  OwnersOK'
  BY <1>3 DEF Load, Replay
<1>4. ASSUME NEW a \in Attempts, NEW x \in Answers, NEW changed \in BOOLEAN,
             Handle(a, x, changed)
      PROVE  OwnersOK'
  BY <1>4 DEF Handle
<1>5. ASSUME NEW a \in Attempts, Finish(a)
      PROVE  OwnersOK'
  BY <1>5 DEF Finish, Releases
<1>6. ASSUME NEW a \in Attempts, Break(a)
      PROVE  OwnersOK'
  BY <1>6 DEF Break
<1>7. ASSUME NEW k \in Keys, Outlive(k)
      PROVE  OwnersOK'
  BY <1>7 DEF Outlive
<1>8. ASSUME DeleteExpired
      PROVE  OwnersOK'
  BY <1>8 DEF DeleteExpired
<1>9. ASSUME UNCHANGED idemVars
      PROVE  OwnersOK'
  BY <1>9 DEF idemVars
<1> QED
  BY <1>1, <1>2, <1>3, <1>4, <1>5, <1>6, <1>7, <1>8, <1>9 DEF IdempotencyNext

(* The success that a row stores stays that of the attempt behind it.      *)
LEMMA StoredKept ==
    ASSUME Shape, \A a \in Attempts : AttemptOK(a), OwnersOK,
           \A k \in Keys : StoredOK(k), [IdempotencyNext]_idemVars
    PROVE  (\A l \in Keys : StoredOK(l))'
<1> USE DEF Shape, AttemptOK, OwnersOK, OwnerOK, Stands, StoredOK, Source, Record, NoRecord,
        Steps, Ended, Answers, Move, Reply, Failure
<1>1. ASSUME NEW a \in Attempts, NEW k \in Keys, NEW b \in Bodies, Send(a, k, b)
      PROVE  (\A l \in Keys : StoredOK(l))'
  BY <1>1 DEF Send
<1>2. ASSUME NEW a \in Attempts, Begin(a)
      PROVE  (\A l \in Keys : StoredOK(l))'
  BY <1>2 DEF Begin, Free
<1>3. ASSUME NEW a \in Attempts, Load(a)
      PROVE  (\A l \in Keys : StoredOK(l))'
  BY <1>3 DEF Load, Replay
<1>4. ASSUME NEW a \in Attempts, NEW x \in Answers, NEW changed \in BOOLEAN,
             Handle(a, x, changed)
      PROVE  (\A l \in Keys : StoredOK(l))'
  BY <1>4 DEF Handle
<1>5. ASSUME NEW a \in Attempts, Finish(a)
      PROVE  (\A l \in Keys : StoredOK(l))'
  BY <1>5 DEF Finish, Releases
<1>6. ASSUME NEW a \in Attempts, Break(a)
      PROVE  (\A l \in Keys : StoredOK(l))'
  BY <1>6 DEF Break
<1>7. ASSUME NEW k \in Keys, Outlive(k)
      PROVE  (\A l \in Keys : StoredOK(l))'
  BY <1>7 DEF Outlive
<1>8. ASSUME DeleteExpired
      PROVE  (\A l \in Keys : StoredOK(l))'
  BY <1>8 DEF DeleteExpired
<1>9. ASSUME UNCHANGED idemVars
      PROVE  (\A l \in Keys : StoredOK(l))'
  BY <1>9 DEF idemVars
<1> QED
  BY <1>1, <1>2, <1>3, <1>4, <1>5, <1>6, <1>7, <1>8, <1>9 DEF IdempotencyNext

(* What is replayed is what a row stores, and what was stored stays true.  *)
LEMMA ReplayKept ==
    ASSUME Shape, \A a \in Attempts : AttemptOK(a), OwnersOK,
           \A k \in Keys : StoredOK(k), ReplaysTheAnswer, [IdempotencyNext]_idemVars
    PROVE  ReplaysTheAnswer'
<1> USE DEF Shape, AttemptOK, StoredOK, Source, ReplaysTheAnswer, Record, NoRecord, Steps,
        Ended, Answers, Move, Reply, Failure
<1>1. ASSUME NEW a \in Attempts, NEW k \in Keys, NEW b \in Bodies, Send(a, k, b)
      PROVE  ReplaysTheAnswer'
  BY <1>1 DEF Send
<1>2. ASSUME NEW a \in Attempts, Begin(a)
      PROVE  ReplaysTheAnswer'
  BY <1>2 DEF Begin, Free
<1>3. ASSUME NEW a \in Attempts, Load(a)
      PROVE  ReplaysTheAnswer'
  BY <1>3 DEF Load, Replay
<1>4. ASSUME NEW a \in Attempts, NEW x \in Answers, NEW changed \in BOOLEAN,
             Handle(a, x, changed)
      PROVE  ReplaysTheAnswer'
  BY <1>4 DEF Handle
<1>5. ASSUME NEW a \in Attempts, Finish(a)
      PROVE  ReplaysTheAnswer'
  BY <1>5 DEF Finish, Releases
<1>6. ASSUME NEW a \in Attempts, Break(a)
      PROVE  ReplaysTheAnswer'
  BY <1>6 DEF Break
<1>7. ASSUME NEW k \in Keys, Outlive(k)
      PROVE  ReplaysTheAnswer'
  BY <1>7 DEF Outlive
<1>8. ASSUME DeleteExpired
      PROVE  ReplaysTheAnswer'
  BY <1>8 DEF DeleteExpired
<1>9. ASSUME UNCHANGED idemVars
      PROVE  ReplaysTheAnswer'
  BY <1>9 DEF idemVars
<1> QED
  BY <1>1, <1>2, <1>3, <1>4, <1>5, <1>6, <1>7, <1>8, <1>9 DEF IdempotencyNext

(* Every step of an attempt, and a row that outlives its time, keeps the   *)
(* invariant.                                                              *)
LEMMA KeysInductive == KeysInv /\ [IdempotencyNext]_idemVars => KeysInv'
BY ShapeKept, AttemptsKept, OwnersKept, StoredKept, ReplayKept DEF KeysInv

(* The row of a key is of one attempt, so that the work of only one        *)
(* stands.                                                                 *)
LEMMA OneWorkPerKey == KeysInv => WorkStandsOnce
BY DEF KeysInv, Shape, AttemptOK, OwnersOK, OwnerOK, Stands, WorkStandsOnce, Answers

(* The invariant holds in every reachable state.                           *)
LEMMA KeysInvariance == IdempotencySpec => []KeysInv
BY KeysInitially, KeysInductive, PTL DEF IdempotencySpec

(* A request that is repeated under its key has its work done once, unless *)
(* a row outlives its time or an attempt answers with a failure, and every *)
(* success that is replayed is the answer of an attempt that did the work, *)
(* for the same request (middleware.go).                                   *)
THEOREM AlwaysDoneOnce == IdempotencySpec => []DoneOnce
<1>1. KeysInv => DoneOnce
  BY OneWorkPerKey DEF KeysInv, DoneOnce
<1> QED
  BY <1>1, KeysInvariance, PTL

-----------------------------------------------------------------------------
(* Prices and promotions.                                                  *)

(* The prices of PricingTypeOK, and the one below the other.               *)
PriceOK(old) ==
    /\ old \in PriceRow \cup {NoPrice}
    /\ old.compareAt > 0 => old.compareAt > old.at.amount

(* What a command has read: a row that was there before, and the one that  *)
(* is there now if the version is the same.                                *)
ReadOK(now, old) ==
    /\ old.version \in Nat /\ old.version <= now.version
    /\ old.version = now.version => old = now

CommandOK(r) ==
    LET c == command[r] IN
    /\ c.op \in {"none", "sync", "compare_at", "create", "update", "status"}
    /\ c.op = "sync" =>
          /\ c.subject \in Skus /\ c.arg \in [at : Prices, active : BOOLEAN]
          /\ ReadOK(price[c.subject], c.row) /\ c.row.version <= MaxRowVersion
    /\ c.op = "compare_at" =>
          /\ c.subject \in Skus /\ c.arg \in CompareAts
          /\ ReadOK(price[c.subject], c.row) /\ c.row.version <= MaxRowVersion
    /\ c.op \in {"create", "update", "status"} =>
          /\ c.subject \in Promotions
          /\ c.op = "status" => c.arg \in PromotionStatus
          /\ ReadOK(promotion[c.subject], c.row) /\ c.row.version <= MaxRowVersion

PricingInv ==
    /\ price \in [Skus -> PriceRow \cup {NoPrice}]
    /\ \A s \in Skus : PriceOK(price[s])
    /\ promotion \in [Promotions -> PromotionRow \cup {NoPromotion}]
    /\ path \in [Skus -> Paths \cup {Nothing}]
    /\ DOMAIN command = Requests
    /\ \A r \in Requests : CommandOK(r)

(* A row has a version, whether or not it has been inserted.               *)
LEMMA RowsHaveVersions ==
    /\ \A old \in PriceRow \cup {NoPrice} : old.version \in Nat
    /\ \A old \in PromotionRow \cup {NoPromotion} : old.version \in Nat
  BY PricingAssumption DEF PriceRow, NoPrice, PromotionRow, NoPromotion

(* What an event makes of a row is a row, whose comparison is above its    *)
(* price.                                                                  *)
LEMMA SyncedIsOK ==
    ASSUME NEW old, PriceOK(old), old.version <= MaxRowVersion,
           NEW offer \in [at : Prices, active : BOOLEAN]
    PROVE  /\ PriceOK(Saved(Synced(old, offer)))
           /\ Saved(Synced(old, offer)).version = old.version + 1
           /\ Saved(Synced(old, offer)).at = offer.at
<1> USE PricingAssumption
<1>1. CASE old = NoPrice
  <2>1. Saved(Synced(old, offer)) =
            [at |-> offer.at, compareAt |-> 0, active |-> offer.active, version |-> 1]
    BY <1>1 DEF Saved, Synced, NewOfferPrice
  <2> QED
    BY <1>1, <2>1 DEF PriceOK, PriceRow, NoPrice
<1>2. CASE old # NoPrice
  <2>1. old \in PriceRow
    BY <1>2 DEF PriceOK
  <2> DEFINE kept == IF old.at = offer.at
                          \/ (offer.at.currency = old.at.currency /\ old.compareAt > offer.at.amount)
                     THEN old.compareAt ELSE 0
  <2>2. Saved(Synced(old, offer)) =
            [at |-> offer.at, compareAt |-> kept, active |-> offer.active,
             version |-> old.version + 1]
    <3>1. ChangePrice(old, offer.at) =
              [at |-> offer.at, compareAt |-> kept, active |-> old.active,
               version |-> old.version]
      <4>1. CASE old.at = offer.at
        BY <2>1, <4>1 DEF PriceRow, ChangePrice
      <4>2. CASE old.at # offer.at
        BY <2>1, <4>2 DEF PriceRow, ChangePrice
      <4> QED
        BY <4>1, <4>2
    <3>2. Synced(old, offer) =
              [at |-> offer.at, compareAt |-> kept, active |-> offer.active,
               version |-> old.version]
      BY <1>2, <3>1 DEF Synced
    <3> QED
      BY <3>2 DEF Saved
  <2>3. /\ kept \in Nat /\ old.version + 1 \in 1..MaxRowVersion + 1
        /\ kept > 0 => kept > offer.at.amount
    BY <2>1 DEF PriceOK, PriceRow
  <2> QED
    BY <2>2, <2>3 DEF PriceOK, PriceRow
<1> QED
  BY <1>1, <1>2

(* The seller's comparison leaves the price alone, and is above it.        *)
LEMMA ComparedIsOK ==
    ASSUME NEW old, PriceOK(old), old.version <= MaxRowVersion,
           NEW amount \in CompareAts, CanCompare(old, amount)
    PROVE  LET saved == Saved([old EXCEPT !.compareAt = amount])
           IN  /\ PriceOK(saved) /\ saved.version = old.version + 1
               /\ saved.at = old.at
<1> USE PricingAssumption
<1>1. old \in PriceRow /\ (amount > 0 => amount > old.at.amount)
  BY DEF PriceOK, CanCompare
<1>2. Saved([old EXCEPT !.compareAt = amount]) =
          [at |-> old.at, compareAt |-> amount, active |-> old.active,
           version |-> old.version + 1]
  <2> DEFINE shown == [at |-> old.at, compareAt |-> amount, active |-> old.active,
                       version |-> old.version]
  <2>1. [old EXCEPT !.compareAt = amount] = shown
    BY <1>1 DEF PriceRow
  <2>2. Saved(shown) = [at |-> old.at, compareAt |-> amount, active |-> old.active,
                        version |-> old.version + 1]
    BY DEF Saved
  <2> QED
    BY ONLY <2>1, <2>2
<1>3. amount \in Nat /\ old.version + 1 \in 1..MaxRowVersion + 1
  BY <1>1 DEF PriceRow
<1> QED
  BY <1>1, <1>2, <1>3 DEF PriceOK, PriceRow

(* What a manager may make of a promotion is a promotion; one that has     *)
(* ended stays as it is.                                                   *)
LEMMA ChangedIsOK ==
    ASSUME NEW old \in PromotionRow \cup {NoPromotion}, old.version <= MaxRowVersion,
           NEW o \in {"create", "update", "status"}, NEW arg,
           o = "status" => arg \in PromotionStatus, CanChange(old, o, arg)
    PROVE  LET saved == Saved(Changed(old, o, arg))
           IN  /\ saved \in PromotionRow /\ saved.version = old.version + 1
               /\ old.status = "ended" => saved.status = "ended" /\ saved.spec = old.spec
<1> USE PricingAssumption
<1>1. /\ old = [spec |-> old.spec, status |-> old.status, version |-> old.version]
      /\ old.version \in 0..MaxRowVersion /\ old.status \in PromotionStatus
  BY DEF PromotionRow, NoPromotion, PromotionStatus
<1>2. old.version + 1 \in 1..MaxRowVersion + 1
  BY <1>1
<1>3. CASE o = "status"
  <2>1. Saved(Changed(old, o, arg)) =
            [spec |-> old.spec, status |-> arg, version |-> old.version + 1]
    <3>1. Changed(old, o, arg) =
              [spec |-> old.spec, status |-> arg, version |-> old.version]
      BY <1>1, <1>3 DEF Changed
    <3> QED
      BY <3>1 DEF Saved
  <2>2. old \in PromotionRow /\ (old.status = "ended" => arg = "ended")
    BY <1>3 DEF CanChange
  <2> QED
    BY <1>2, <1>3, <2>1, <2>2 DEF PromotionRow
<1>4. CASE o \in {"create", "update"}
  <2>1. Saved(Changed(old, o, arg)) =
            [spec |-> arg, status |-> old.status, version |-> old.version + 1]
    BY <1>1, <1>4 DEF Saved, Changed
  <2>2. arg \in ValidSpecs /\ old.status # "ended"
    <3>1. CASE o = "create"
      BY <3>1 DEF CanChange, NoPromotion
    <3>2. CASE o = "update"
      BY <3>2 DEF CanChange
    <3> QED
      BY <1>4, <3>1, <3>2
  <2> QED
    BY <1>1, <1>2, <2>1, <2>2 DEF PromotionRow
<1> QED
  BY <1>3, <1>4

(* What a command has read stays older than a row that is saved.           *)
LEMMA SavedIsNewer ==
    ASSUME NEW now, NEW old, ReadOK(now, old), now.version \in Nat,
           NEW new, new.version = now.version + 1
    PROVE  ReadOK(new, old)
  BY DEF ReadOK

(* A command that begins has read what is there.                           *)
LEMMA BeginKeeps ==
    ASSUME PricingInv, NEW r \in Requests,
           BeginSync(r) \/ BeginSetCompareAt(r) \/ BeginPromotion(r)
    PROVE  PricingInv'
<1> USE PricingAssumption
<1>1. /\ price' = price /\ promotion' = promotion /\ path' = path
      /\ DOMAIN command' = Requests
      /\ \A t \in Requests \ {r} : command'[t] = command[t]
  BY DEF PricingInv, BeginSync, BeginSetCompareAt, BeginPromotion, BeginCommand
<1>2. CommandOK(r)'
  <2>1. CASE BeginSync(r)
    <3>1. PICK s \in Skus, p \in Prices, active \in BOOLEAN :
              BeginCommand(r, "sync", s, [at |-> p, active |-> active], price[s])
      BY <2>1 DEF BeginSync
    <3>2. command'[r] = [op |-> "sync", subject |-> s, arg |-> [at |-> p, active |-> active],
                         row |-> price[s]]
      BY <3>1 DEF BeginCommand, PricingInv
    <3> QED
      BY <1>1, <3>1, <3>2, RowsHaveVersions
      DEF BeginCommand, CommandOK, ReadOK, PricingInv
  <2>2. CASE BeginSetCompareAt(r)
    <3>1. PICK s \in Skus, amount \in CompareAts :
              BeginCommand(r, "compare_at", s, amount, price[s])
      BY <2>2 DEF BeginSetCompareAt
    <3>2. command'[r] = [op |-> "compare_at", subject |-> s, arg |-> amount, row |-> price[s]]
      BY <3>1 DEF BeginCommand, PricingInv
    <3> QED
      BY <1>1, <3>1, <3>2, RowsHaveVersions
      DEF BeginCommand, CommandOK, ReadOK, PricingInv
  <2>3. CASE BeginPromotion(r)
    <3>1. PICK p \in Promotions :
              \E o \in {"create", "update", "status"} : \E arg :
                 /\ o = "status" => arg \in PromotionStatus
                 /\ BeginCommand(r, o, p, arg, promotion[p])
      <4>1. PICK p \in Promotions :
                \/ \E spec \in Specs :
                       BeginCommand(r, IF promotion[p] = NoPromotion THEN "create" ELSE "update",
                                    p, spec, promotion[p])
                \/ \E status \in PromotionStatus \ {"draft"} :
                       BeginCommand(r, "status", p, status, promotion[p])
        BY <2>3 DEF BeginPromotion
      <4> QED
        BY <4>1
    <3>2. PICK o \in {"create", "update", "status"} : \E arg :
                 /\ o = "status" => arg \in PromotionStatus
                 /\ BeginCommand(r, o, p, arg, promotion[p])
      BY <3>1
    <3>3. PICK arg : /\ o = "status" => arg \in PromotionStatus
                     /\ BeginCommand(r, o, p, arg, promotion[p])
      BY <3>2
    <3>4. command'[r] = [op |-> o, subject |-> p, arg |-> arg, row |-> promotion[p]]
      BY <3>3 DEF BeginCommand, PricingInv
    <3> QED
      BY <1>1, <3>3, <3>4, RowsHaveVersions
      DEF BeginCommand, CommandOK, ReadOK, PricingInv
  <2> QED
    BY <2>1, <2>2, <2>3
<1>3. ASSUME NEW t \in Requests \ {r} PROVE CommandOK(t)'
  BY <1>1 DEF PricingInv, CommandOK
<1> QED
  BY <1>1, <1>2, <1>3 DEF PricingInv

(* A price that is saved.                                                  *)
LEMMA PriceSaveKeeps ==
    ASSUME PricingInv, NEW r \in Requests, SyncOfferPrice(r) \/ SetCompareAt(r)
    PROVE  LET s == command[r].subject
           IN  /\ PricingInv' /\ s \in Skus
               /\ \A t \in Skus \ {s} : price'[t] = price[t]
               /\ price'[s].at # price[s].at =>
                     command[r].op = "sync" /\ command[r].arg.at = price'[s].at
<1> DEFINE c == command[r]
           s == c.subject
           new == IF c.op = "sync" THEN Saved(Synced(c.row, c.arg))
                  ELSE Saved([c.row EXCEPT !.compareAt = c.arg])
<1>1. /\ c.op \in {"sync", "compare_at"} /\ s \in Skus
      /\ c.row = price[s] /\ c.row.version <= MaxRowVersion
      /\ price' = [price EXCEPT ![s] = new] /\ promotion' = promotion /\ path' = path
      /\ command' = [command EXCEPT ![r] = Quiet]
      /\ c.op = "sync" => c.arg \in [at : Prices, active : BOOLEAN]
      /\ c.op = "compare_at" => c.arg \in CompareAts /\ CanCompare(c.row, c.arg)
  BY DEF SyncOfferPrice, SetCompareAt, PricingInv, CommandOK, ReadOK, CanSave, EndCommand
<1>2. PriceOK(c.row) /\ price[s].version \in Nat
  BY <1>1, RowsHaveVersions DEF PricingInv
<1>3. /\ PriceOK(new) /\ new.version = price[s].version + 1
      /\ new.at = IF c.op = "sync" THEN c.arg.at ELSE price[s].at
  <2>1. CASE c.op = "sync"
    BY <1>1, <1>2, <2>1, SyncedIsOK
  <2>2. CASE c.op = "compare_at"
    BY <1>1, <1>2, <2>2, ComparedIsOK
  <2> QED
    BY <1>1, <2>1, <2>2
<1> HIDE DEF new
<1>4. /\ price'[s] = new /\ \A t \in Skus \ {s} : price'[t] = price[t]
      /\ price' \in [Skus -> PriceRow \cup {NoPrice}]
      /\ \A t \in Skus : PriceOK(price'[t])
  BY <1>1, <1>3 DEF PricingInv, PriceOK
<1>5. CommandOK(r)'
  BY <1>1 DEF CommandOK, Quiet, PricingInv
<1>6. ASSUME NEW t \in Requests \ {r} PROVE CommandOK(t)'
  <2>1. command'[t] = command[t]
    BY <1>1, <1>6 DEF PricingInv
  <2>2. ASSUME NEW u \in Skus, ReadOK(price[u], command[t].row)
        PROVE  ReadOK(price'[u], command[t].row)
    <3>1. CASE u = s
      BY <1>2, <1>3, <1>4, <2>2, <3>1, SavedIsNewer
    <3>2. CASE u # s
      BY <1>4, <2>2, <3>2
    <3> QED
      BY <3>1, <3>2
  <2> QED
    BY <1>1, <2>1, <2>2 DEF PricingInv, CommandOK
<1>7. DOMAIN command' = Requests
  BY <1>1 DEF PricingInv
<1> QED
  BY <1>1, <1>3, <1>4, <1>5, <1>6, <1>7 DEF PricingInv

(* A promotion that is saved.                                              *)
LEMMA PromotionSaveKeeps ==
    ASSUME PricingInv, NEW r \in Requests, ChangePromotion(r)
    PROVE  /\ PricingInv' /\ price' = price
           /\ \A p \in Promotions :
                 promotion[p].status = "ended" =>
                     promotion'[p].status = "ended" /\ promotion'[p].spec = promotion[p].spec
<1> DEFINE c == command[r]
           s == c.subject
           new == Saved(Changed(c.row, c.op, c.arg))
<1>1. /\ c.op \in {"create", "update", "status"} /\ s \in Promotions
      /\ c.row = promotion[s] /\ c.row.version <= MaxRowVersion
      /\ promotion' = [promotion EXCEPT ![s] = new] /\ price' = price /\ path' = path
      /\ command' = [command EXCEPT ![r] = Quiet]
      /\ CanChange(c.row, c.op, c.arg)
      /\ c.op = "status" => c.arg \in PromotionStatus
  BY DEF ChangePromotion, PricingInv, CommandOK, ReadOK, CanSave, EndCommand
<1>2. c.row \in PromotionRow \cup {NoPromotion} /\ promotion[s].version \in Nat
  BY <1>1, RowsHaveVersions DEF PricingInv
<1>3. /\ new \in PromotionRow /\ new.version = promotion[s].version + 1
      /\ promotion[s].status = "ended" =>
            new.status = "ended" /\ new.spec = promotion[s].spec
  BY <1>1, <1>2, ChangedIsOK
<1> HIDE DEF new
<1>4. /\ promotion'[s] = new /\ \A t \in Promotions \ {s} : promotion'[t] = promotion[t]
      /\ promotion' \in [Promotions -> PromotionRow \cup {NoPromotion}]
  BY <1>1, <1>3 DEF PricingInv
<1>5. CommandOK(r)'
  BY <1>1 DEF CommandOK, Quiet, PricingInv
<1>6. ASSUME NEW t \in Requests \ {r} PROVE CommandOK(t)'
  <2>1. command'[t] = command[t]
    BY <1>1, <1>6 DEF PricingInv
  <2>2. ASSUME NEW u \in Promotions, ReadOK(promotion[u], command[t].row)
        PROVE  ReadOK(promotion'[u], command[t].row)
    <3>1. CASE u = s
      BY <1>2, <1>3, <1>4, <2>2, <3>1, SavedIsNewer
    <3>2. CASE u # s
      BY <1>4, <2>2, <3>2
    <3> QED
      BY <3>1, <3>2
  <2> QED
    BY <1>1, <2>1, <2>2 DEF PricingInv, CommandOK
<1>7. DOMAIN command' = Requests
  BY <1>1 DEF PricingInv
<1> QED
  BY <1>1, <1>3, <1>4, <1>5, <1>6, <1>7 DEF PricingInv

LEMMA PricingInitially == PricingInit => PricingInv
<1> SUFFICES ASSUME PricingInit PROVE PricingInv
  OBVIOUS
<1>1. \A s \in Skus : PriceOK(price[s])
  BY DEF PricingInit, PriceOK, NoPrice
<1> QED
  BY <1>1 DEF PricingInit, PricingInv, CommandOK, Quiet

(* A step keeps the invariant, changes a price to what a worker was told   *)
(* of it, and leaves a promotion that has ended.                           *)
LEMMA PricingStepKeeps ==
    ASSUME PricingInv, [PricingNext]_pricingVars
    PROVE  /\ PricingInv'
           /\ \A s \in Skus : price'[s].at # price[s].at =>
                 \E r \in Requests : /\ command[r].op = "sync" /\ command[r].subject = s
                                      /\ command[r].arg.at = price'[s].at
           /\ \A p \in Promotions :
                 promotion[p].status = "ended" =>
                     promotion'[p].status = "ended" /\ promotion'[p].spec = promotion[p].spec
<1>1. CASE UNCHANGED pricingVars
  BY <1>1 DEF pricingVars, PricingInv, CommandOK
<1>2. CASE SetProductCategories
  <2>1. path' \in [Skus -> Paths \cup {Nothing}]
    BY <1>2 DEF SetProductCategories, PricingInv
  <2> QED
    BY <1>2, <2>1 DEF SetProductCategories, PricingInv, CommandOK
<1>3. ASSUME NEW r \in Requests, Fail(r)
      PROVE  PricingInv' /\ price' = price /\ promotion' = promotion
  BY <1>3 DEF Fail, EndCommand, PricingInv, CommandOK, Quiet
<1>4. ASSUME NEW r \in Requests, BeginSync(r) \/ BeginSetCompareAt(r) \/ BeginPromotion(r)
      PROVE  PricingInv' /\ price' = price /\ promotion' = promotion
  BY <1>4, BeginKeeps DEF BeginSync, BeginSetCompareAt, BeginPromotion, BeginCommand
<1>5. ASSUME NEW r \in Requests, SyncOfferPrice(r) \/ SetCompareAt(r)
      PROVE  /\ PricingInv' /\ promotion' = promotion
             /\ \A s \in Skus : price'[s].at # price[s].at =>
                    /\ command[r].op = "sync" /\ command[r].subject = s
                    /\ command[r].arg.at = price'[s].at
  BY <1>5, PriceSaveKeeps DEF SyncOfferPrice, SetCompareAt
<1>6. ASSUME NEW r \in Requests, ChangePromotion(r)
      PROVE  /\ PricingInv' /\ price' = price
             /\ \A p \in Promotions :
                   promotion[p].status = "ended" =>
                     promotion'[p].status = "ended" /\ promotion'[p].spec = promotion[p].spec
  BY <1>6, PromotionSaveKeeps
<1> QED
  BY <1>1, <1>2, <1>3, <1>4, <1>5, <1>6 DEF PricingNext, PricingStep

LEMMA PricingInvariance == PricingSpec => []PricingInv
<1>1. PricingInv /\ [PricingNext]_pricingVars => PricingInv'
  BY PricingStepKeeps
<1> QED
  BY <1>1, PricingInitially, PTL DEF PricingSpec

(* The rows of offer_prices, promotions and categories stay in their       *)
(* ranges, whatever commands and events meet.                              *)
THEOREM PricesTypeCorrect == PricingSpec => []PricingTypeOK
<1>1. PricingInv => PricingTypeOK
  BY DEF PricingInv, PricingTypeOK, CommandOK
<1> QED
  BY <1>1, PricingInvariance, PTL

(* SyncOfferPrice and SetCompareAt, which write the whole row, never bring *)
(* an old price back or compare a price with a lower one; no command       *)
(* changes or restarts a promotion that SetPromotionStatus has ended.      *)
THEOREM PricesAlwaysKept == PricingSpec => PricesKept
<1>1. PricingInv /\ PricingInv' /\ [PricingNext]_pricingVars =>
          /\ [\A s \in Skus :
                 /\ price'[s].at # price[s].at =>
                       \E r \in Requests :
                           /\ command[r].op = "sync" /\ command[r].subject = s
                           /\ command[r].arg.at = price'[s].at
                 /\ price'[s].compareAt > 0 =>
                       price'[s].compareAt > price'[s].at.amount]_pricingVars
          /\ [\A p \in Promotions :
                 promotion[p].status = "ended" =>
                     /\ promotion'[p].status = "ended"
                     /\ promotion'[p].spec = promotion[p].spec]_pricingVars
  BY PricingStepKeeps DEF PricingInv, PriceOK
<1> QED
  BY <1>1, PricingInvariance, PTL DEF PricingSpec, PricesKept, PriceIsSynced, EndedStays
-----------------------------------------------------------------------------
(* Accounts, sessions and challenges.                                      *)

Labels == {"idle", "insert_user", "insert_challenge", "save_challenge", "find_user",
           "save_user", "insert_session", "find_owner", "save_session", "each", "save_next"}

Statuses == {"none", "active", "revoked"}

SessionRecord == [status : Statuses, user : Users \cup {Null}, digest : Nat, version : Nat]

(* The part of TypeOK that is about sessions, without the bounds.          *)
Typed ==
    /\ live \in [SessionIds -> SessionRecord]
    /\ tokenOf \in [Tokens -> SessionIds \cup {Null}]
    /\ generated \in Nat
    /\ exchanged \subseteq Nat \X Nat
    /\ handler \in [Goroutines -> Operations \cup {"none"}]
    /\ place \in [Goroutines -> Labels]
    /\ who \in [Goroutines -> Users \cup {Null}]
    /\ sid \in [Goroutines -> SessionIds \cup {Null}]
    /\ token \in [Goroutines -> Nat]
    /\ next \in [Goroutines -> Nat]
    /\ session \in [Goroutines -> SessionRecord]
    /\ todo \in [Goroutines -> SUBSET SessionIds]

Existing == {s \in SessionIds : live[s].status # "none"}

(* Nothing has been signed in or refreshed with the token yet.             *)
Unused(t) ==
    /\ \A s \in Existing : live[s].digest # t
    /\ \A p \in exchanged : p[1] # t

(* The sessions accept different tokens, and none that was exchanged.      *)
DigestsOK ==
    /\ \A s \in Existing : live[s].digest <= generated
    /\ \A p \in exchanged : p[1] <= generated
    /\ \A s, z \in Existing : live[s].digest = live[z].digest => s = z
    /\ \A s \in Existing : \A p \in exchanged : live[s].digest # p[1]
    /\ \A t \in Tokens : tokenOf[t] # Null => tokenOf[t] \in Existing

(* A request that has read a session read what is there, or an older       *)
(* version; one that is about to create one has a free id.                 *)
Reading == {"find_owner", "save_session", "save_next"}

SessionRead(r) ==
    /\ sid[r] \in Existing
    /\ session[r].version <= live[sid[r]].version
    /\ session[r].version = live[sid[r]].version => session[r] = live[sid[r]]

RequestOK(r) ==
    /\ place[r] \in Reading => SessionRead(r)
    /\ place[r] = "insert_session" => sid[r] \in SessionIds \ Existing /\ next[r] # 0
    /\ handler[r] = "refresh" => next[r] # 0
    /\ next[r] # 0 => next[r] <= generated /\ Unused(next[r])
    /\ todo[r] \subseteq Existing

(* No two requests have generated the same token or create one session.    *)
Apart(q, r) ==
    /\ next[q] # 0 => next[q] # next[r]
    /\ place[q] = "insert_session" /\ place[r] = "insert_session" => sid[q] # sid[r]

SessionsInv ==
    /\ Typed
    /\ DigestsOK
    /\ \A r \in Goroutines : RequestOK(r)
    /\ \A q, r \in Goroutines : q # r => Apart(q, r)
    /\ ExchangedOnce

-----------------------------------------------------------------------------
(* What the other requests have is left alone.                             *)
OthersSame(r) ==
    \A q \in Goroutines \ {r} :
        /\ handler'[q] = handler[q] /\ place'[q] = place[q] /\ sid'[q] = sid[q]
        /\ next'[q] = next[q] /\ session'[q] = session[q] /\ todo'[q] = todo[q]

(* A step that changes no session and generates no token.                  *)
LEMMA QuietKeeps ==
    ASSUME SessionsInv, Typed', NEW r \in Goroutines, OthersSame(r),
           UNCHANGED <<live, tokenOf, exchanged, generated>>,
           next'[r] \in {0, next[r]}, place'[r] # "insert_session", RequestOK(r)'
    PROVE  SessionsInv'
<1>1. Existing' = Existing /\ \A t : Unused(t)' <=> Unused(t)
  BY DEF Existing, Unused
<1>2. DigestsOK'
  BY <1>1 DEF SessionsInv, DigestsOK
<1>3. ASSUME NEW q \in Goroutines \ {r} PROVE RequestOK(q)'
  BY <1>1 DEF SessionsInv, RequestOK, SessionRead, OthersSame
<1>4. ASSUME NEW p \in Goroutines, NEW q \in Goroutines, p # q PROVE Apart(p, q)'
  BY <1>4 DEF SessionsInv, Apart, OthersSame
<1> QED
  BY <1>2, <1>3, <1>4 DEF SessionsInv, ExchangedOnce

(* A step that generates a token for a request.                            *)
LEMMA GenerateKeeps ==
    ASSUME SessionsInv, Typed', NEW r \in Goroutines, OthersSame(r),
           UNCHANGED <<live, tokenOf, exchanged>>, generated' = generated + 1,
           next'[r] = generated + 1,
           place'[r] \in Reading => SessionRead(r)',
           place'[r] = "insert_session" =>
               /\ sid'[r] \in SessionIds \ Existing
               /\ \A q \in Goroutines : sid[q] # sid'[r],
           todo'[r] \subseteq Existing
    PROVE  SessionsInv'
<1>1. Existing' = Existing /\ \A t : Unused(t)' <=> Unused(t)
  BY DEF Existing, Unused
<1>2. generated \in Nat /\ exchanged \subseteq Nat \X Nat
      /\ \A s \in Existing : live[s].digest \in Nat
  BY DEF SessionsInv, Typed, Existing, SessionRecord
<1>3. Unused(generated + 1)
  <2>1. \A s \in Existing : live[s].digest # generated + 1
    BY <1>2 DEF SessionsInv, DigestsOK
  <2>2. \A p \in exchanged : p[1] # generated + 1
    BY <1>2 DEF SessionsInv, DigestsOK
  <2> QED
    BY <2>1, <2>2 DEF Unused
<1>4. DigestsOK'
  <2>1. \A s \in Existing : live[s].digest <= generated + 1
    BY <1>2 DEF SessionsInv, DigestsOK
  <2>2. \A p \in exchanged : p[1] <= generated + 1
    BY <1>2 DEF SessionsInv, DigestsOK
  <2> QED
    BY <1>1, <2>1, <2>2 DEF SessionsInv, DigestsOK
<1>5. RequestOK(r)'
  BY <1>1, <1>2, <1>3 DEF RequestOK
<1>6. \A q \in Goroutines : next[q] \in Nat /\ next[q] < generated + 1
  BY <1>2 DEF SessionsInv, RequestOK, Typed
<1>7. ASSUME NEW q \in Goroutines \ {r} PROVE RequestOK(q)'
  <2>1. next[q] # 0 => next[q] <= generated + 1
    BY <1>6
  <2> QED
    BY <1>1, <2>1 DEF SessionsInv, RequestOK, SessionRead, OthersSame
<1>8. ASSUME NEW p \in Goroutines, NEW q \in Goroutines, p # q PROVE Apart(p, q)'
  <2>1. CASE p # r /\ q # r
    BY <1>8, <2>1 DEF SessionsInv, Apart, OthersSame
  <2>2. CASE p = r
    BY <1>6, <1>8, <2>2 DEF Apart, OthersSame
  <2>3. CASE q = r
    BY <1>6, <1>8, <2>3 DEF Apart, OthersSame
  <2> QED
    BY <2>1, <2>2, <2>3
<1> QED
  BY <1>4, <1>5, <1>7, <1>8 DEF SessionsInv, ExchangedOnce

-----------------------------------------------------------------------------
(* What a save leaves in the two tables.                                   *)
LEMMA SessionSaved ==
    ASSUME Typed, NEW s \in SessionIds, NEW made \in SessionRecord, SaveSession(s, made)
    PROVE  /\ live' \in [SessionIds -> SessionRecord]
           /\ tokenOf' \in [Tokens -> SessionIds \cup {Null}]
           /\ live'[s].status = made.status /\ live'[s].digest = made.digest
           /\ live'[s].version = made.version + 1
           /\ \A z \in SessionIds \ {s} : live'[z] = live[z]
           /\ \A t \in Tokens : tokenOf'[t] \in {tokenOf[t], s}
<1> DEFINE kept == [made EXCEPT !.version = made.version + 1]
<1>1. /\ kept \in SessionRecord
      /\ kept.status = made.status /\ kept.digest = made.digest
      /\ kept.version = made.version + 1
  BY DEF SessionRecord
<1>2. live' = [live EXCEPT ![s] = kept]
  BY DEF SaveSession
<1>3. tokenOf' = tokenOf \/ tokenOf' = [tokenOf EXCEPT ![made.digest] = s]
  BY DEF SaveSession
<1> HIDE DEF kept
<1>4. /\ tokenOf' \in [Tokens -> SessionIds \cup {Null}]
      /\ \A t \in Tokens : tokenOf'[t] \in {tokenOf[t], s}
  BY <1>3 DEF Typed
<1> QED
  BY <1>1, <1>2, <1>4 DEF Typed

(* A new session of a request that generated a token for it.               *)
LEMMA InsertKeeps ==
    ASSUME SessionsInv, Typed', NEW r \in Goroutines, OthersSame(r), place[r] = "insert_session",
           UNCHANGED <<exchanged, generated>>,
           NEW made \in SessionRecord, made.status = "active", made.digest = next[r],
           SaveSession(sid[r], made),
           place'[r] = "idle", handler'[r] = "none", next'[r] = 0, todo'[r] = {}
    PROVE  SessionsInv'
<1>1. sid[r] \in SessionIds \ Existing /\ next[r] # 0 /\ next[r] <= generated
      /\ Unused(next[r])
  BY DEF SessionsInv, RequestOK
<1>2. PICK s \in SessionIds : s = sid[r] /\ s \notin Existing
  BY <1>1
<1>3. /\ live'[s].status = "active" /\ live'[s].digest = next[r]
      /\ \A z \in SessionIds \ {s} : live'[z] = live[z]
      /\ \A t \in Tokens : tokenOf'[t] \in {tokenOf[t], s}
  BY <1>2, SessionSaved DEF SessionsInv
<1>4. Existing' = Existing \cup {s}
  BY <1>2, <1>3 DEF Existing
<1>5. \A z \in Existing : z \in SessionIds /\ z # s /\ live'[z] = live[z]
  BY <1>2, <1>3 DEF Existing
<1>6. DigestsOK'
  <2>1. \A z \in Existing' : live'[z].digest <= generated'
    BY <1>1, <1>3, <1>4, <1>5 DEF SessionsInv, DigestsOK
  <2>2. \A y, z \in Existing' : live'[y].digest = live'[z].digest => y = z
    BY <1>1, <1>3, <1>4, <1>5 DEF SessionsInv, DigestsOK, Unused
  <2>3. \A z \in Existing' : \A p \in exchanged' : live'[z].digest # p[1]
    BY <1>1, <1>3, <1>4, <1>5 DEF SessionsInv, DigestsOK, Unused
  <2>4. \A t \in Tokens : tokenOf'[t] # Null => tokenOf'[t] \in Existing'
    BY <1>3, <1>4 DEF SessionsInv, DigestsOK
  <2> QED
    BY <2>1, <2>2, <2>3, <2>4 DEF SessionsInv, DigestsOK
<1>7. RequestOK(r)'
  BY DEF RequestOK, Reading
<1>8. ASSUME NEW q \in Goroutines \ {r} PROVE RequestOK(q)'
  <2>1. RequestOK(q) /\ Apart(q, r)
    BY DEF SessionsInv
  <2>2. place[q] \in Reading => SessionRead(q)'
    BY <1>4, <1>5, <2>1 DEF RequestOK, SessionRead, OthersSame
  <2>3. place[q] = "insert_session" => sid[q] \in SessionIds \ Existing'
    BY <1>2, <1>4, <2>1 DEF RequestOK, Apart
  <2>4. next[q] # 0 => Unused(next[q])'
    <3>1. SUFFICES ASSUME next[q] # 0 PROVE Unused(next[q])'
      OBVIOUS
    <3>2. PICK n : n = next[q]
      OBVIOUS
    <3>3. Unused(n) /\ n # next[r] /\ n = next'[q]
      BY <2>1, <3>1, <3>2 DEF RequestOK, Apart, OthersSame
    <3>4. Unused(n)'
      BY <1>3, <1>4, <1>5, <3>3 DEF Unused
    <3> QED
      BY <3>3, <3>4
  <2> QED
    BY <1>4, <2>1, <2>2, <2>3, <2>4 DEF RequestOK, OthersSame
<1>9. ASSUME NEW p \in Goroutines, NEW q \in Goroutines, p # q PROVE Apart(p, q)'
  BY <1>9 DEF SessionsInv, Apart, OthersSame
<1> QED
  BY <1>6, <1>7, <1>8, <1>9 DEF SessionsInv, ExchangedOnce

(* What a commit does to a session that exists: it has the same token, or  *)
(* the one that the request generated.                                     *)
LEMMA CommitKeeps ==
    ASSUME SessionsInv, Typed', NEW r \in Goroutines, OthersSame(r),
           place[r] \in Reading, live[sid[r]].version = session[r].version,
           UNCHANGED generated,
           NEW made \in SessionRecord, made.status # "none",
           made.version = session[r].version,
           SaveSession(sid[r], made),
           \/ made.digest = session[r].digest /\ UNCHANGED exchanged
           \/ /\ made.digest = next[r] /\ next[r] # 0
              /\ exchanged' = exchanged \cup {<<session[r].digest, next[r]>>},
           next'[r] \in {0, next[r]} /\ (made.digest = session[r].digest \/ next'[r] = 0),
           place'[r] \in {"idle", "each"}, handler'[r] = "refresh" => next'[r] # 0,
           todo'[r] \subseteq todo[r]
    PROVE  SessionsInv'
<1>1. PICK s \in Existing : s = sid[r]
  BY DEF SessionsInv, RequestOK, SessionRead
<1>2. s \in SessionIds /\ live[s] = session[r] /\ live[s].digest \in Nat
      /\ live[s].version \in Nat
  BY <1>1 DEF SessionsInv, RequestOK, SessionRead, Existing, Typed, SessionRecord
<1>3. PICK d \in Nat : d = live[s].digest
  BY <1>2
<1>4. /\ live'[s].status # "none" /\ live'[s].digest = made.digest
      /\ live'[s].version = live[s].version + 1
      /\ \A z \in SessionIds \ {s} : live'[z] = live[z]
      /\ \A t \in Tokens : tokenOf'[t] \in {tokenOf[t], s}
  BY <1>1, <1>2, SessionSaved DEF SessionsInv
<1>5. Existing' = Existing
  BY <1>1, <1>4 DEF Existing
<1>6. \A z \in Existing \ {s} : live'[z] = live[z]
  BY <1>4 DEF Existing
<1>7. next[r] # 0 => /\ next[r] <= generated /\ next[r] # d
                     /\ \A z \in Existing : live[z].digest # next[r]
                     /\ \A p \in exchanged : p[1] # next[r]
  BY <1>1, <1>3 DEF SessionsInv, RequestOK, Unused
<1>8. /\ \A z \in Existing \ {s} : live[z].digest # d
      /\ \A p \in exchanged : p[1] # d
      /\ d <= generated
  BY <1>1, <1>3 DEF SessionsInv, DigestsOK
<1>9. \/ live'[s].digest = d /\ exchanged' = exchanged
      \/ /\ live'[s].digest = next[r] /\ next[r] # 0 /\ next'[r] = 0
         /\ exchanged' = exchanged \cup {<<d, next[r]>>}
  BY <1>2, <1>3, <1>4, <1>7
<1>10. DigestsOK'
  <2>1. \A z \in Existing' : live'[z].digest <= generated'
    BY <1>5, <1>6, <1>7, <1>8, <1>9 DEF SessionsInv, DigestsOK
  <2>2. \A p \in exchanged' : p[1] <= generated'
    BY <1>8, <1>9 DEF SessionsInv, DigestsOK
  <2>3. \A y, z \in Existing' : live'[y].digest = live'[z].digest => y = z
    BY <1>5, <1>6, <1>7, <1>8, <1>9 DEF SessionsInv, DigestsOK
  <2>4. \A z \in Existing' : \A p \in exchanged' : live'[z].digest # p[1]
    BY <1>5, <1>6, <1>7, <1>8, <1>9 DEF SessionsInv, DigestsOK
  <2>5. \A t \in Tokens : tokenOf'[t] # Null => tokenOf'[t] \in Existing'
    BY <1>4, <1>5 DEF SessionsInv, DigestsOK
  <2> QED
    BY <2>1, <2>2, <2>3, <2>4, <2>5 DEF DigestsOK
<1>11. ExchangedOnce'
  BY <1>8, <1>9 DEF SessionsInv, ExchangedOnce
<1>12. ASSUME NEW n, n # d, Unused(n), live'[s].digest # n PROVE Unused(n)'
  BY <1>5, <1>6, <1>9, <1>12 DEF Unused
<1>13. RequestOK(r)'
  <2>1. place'[r] \notin Reading /\ place'[r] # "insert_session"
    BY DEF Reading
  <2>2. todo'[r] \subseteq Existing'
    BY <1>5 DEF SessionsInv, RequestOK
  <2>3. next'[r] # 0 => next'[r] <= generated' /\ Unused(next[r])'
    <3>1. SUFFICES ASSUME next'[r] # 0 PROVE next'[r] <= generated' /\ Unused(next[r])'
      OBVIOUS
    <3>2. PICK n : n = next[r]
      OBVIOUS
    <3>3. n = next'[r] /\ n # d /\ Unused(n) /\ live'[s].digest # n
      BY <1>7, <1>9, <3>1, <3>2 DEF SessionsInv, RequestOK
    <3>4. Unused(n)'
      BY <1>12, <3>3
    <3> QED
      BY <1>7, <3>1, <3>2, <3>3, <3>4
  <2> QED
    BY <2>1, <2>2, <2>3 DEF RequestOK
<1>14. ASSUME NEW q \in Goroutines \ {r} PROVE RequestOK(q)'
  <2>1. RequestOK(q) /\ Apart(q, r)
    BY DEF SessionsInv
  <2>2. place[q] \in Reading => SessionRead(q)'
    <3>1. SUFFICES ASSUME place[q] \in Reading PROVE SessionRead(q)'
      OBVIOUS
    <3>2. SessionRead(q) /\ session[q].version \in Nat
      BY <2>1, <3>1 DEF RequestOK, SessionsInv, Typed, SessionRecord
    <3>3. CASE sid[q] = s
      BY <1>2, <1>4, <1>5, <3>2, <3>3 DEF SessionRead, OthersSame
    <3>4. CASE sid[q] # s
      BY <1>5, <1>6, <3>2, <3>4 DEF SessionRead, OthersSame
    <3> QED
      BY <3>3, <3>4
  <2>3. next[q] # 0 => Unused(next[q])'
    <3>1. SUFFICES ASSUME next[q] # 0 PROVE Unused(next[q])'
      OBVIOUS
    <3>2. PICK n : n = next[q]
      OBVIOUS
    <3>3. Unused(n) /\ n # next[r] /\ n = next'[q] /\ n # d
      BY <1>1, <1>3, <2>1, <3>1, <3>2 DEF RequestOK, Apart, OthersSame, Unused
    <3>4. Unused(n)'
      BY <1>9, <1>12, <3>3
    <3> QED
      BY <3>3, <3>4
  <2> QED
    BY <1>5, <2>1, <2>2, <2>3 DEF RequestOK, OthersSame
<1>15. ASSUME NEW p \in Goroutines, NEW q \in Goroutines, p # q PROVE Apart(p, q)'
  BY <1>15 DEF SessionsInv, Apart, OthersSame
<1> QED
  BY <1>10, <1>11, <1>13, <1>14, <1>15 DEF SessionsInv

-----------------------------------------------------------------------------
(* The part of Typed that is about requests.                               *)
RequestTyped ==
    /\ handler \in [Goroutines -> Operations \cup {"none"}]
    /\ place \in [Goroutines -> Labels]
    /\ who \in [Goroutines -> Users \cup {Null}]
    /\ sid \in [Goroutines -> SessionIds \cup {Null}]
    /\ token \in [Goroutines -> Nat]
    /\ next \in [Goroutines -> Nat]
    /\ session \in [Goroutines -> SessionRecord]
    /\ todo \in [Goroutines -> SUBSET SessionIds]

(* The end of a handler leaves nothing of it.                              *)
LEMMA Finished ==
    ASSUME Typed, NEW r \in Goroutines, EndHandler(r)
    PROVE  /\ RequestTyped' /\ OthersSame(r)
           /\ place'[r] = "idle" /\ handler'[r] = "none" /\ next'[r] = 0 /\ todo'[r] = {}
<1>1. NoSession \in SessionRecord
  BY DEF NoSession, SessionRecord, Statuses
<1> QED
  BY <1>1 DEF EndHandler, Typed, RequestTyped, OthersSame, Labels

(* A request that ends without saving a session disturbs nothing.          *)
LEMMA FinishKeeps ==
    ASSUME SessionsInv, NEW r \in Goroutines, EndHandler(r),
           UNCHANGED <<live, tokenOf, exchanged, generated>>
    PROVE  SessionsInv'
<1>1. /\ RequestTyped' /\ OthersSame(r)
      /\ place'[r] = "idle" /\ handler'[r] = "none" /\ next'[r] = 0 /\ todo'[r] = {}
  BY Finished DEF SessionsInv
<1>2. Typed'
  BY <1>1 DEF SessionsInv, Typed, RequestTyped
<1>3. RequestOK(r)'
  BY <1>1 DEF RequestOK, Reading
<1> QED
  BY <1>1, <1>2, <1>3, QuietKeeps

(* Another step of a request, or the first, that reads no session.         *)
LEMMA GotoKeeps ==
    ASSUME SessionsInv, NEW r \in Goroutines,
           UNCHANGED <<live, tokenOf, exchanged, generated, sid, next, session, todo, token>>,
           NEW o \in Operations \cup {"none"}, handler' = [handler EXCEPT ![r] = o],
           o = "refresh" => handler[r] = "refresh",
           who' \in [Goroutines -> Users \cup {Null}],
           NEW label \in Labels, Continue(r, label),
           label # "insert_session", label \in Reading => place[r] \in Reading
    PROVE  SessionsInv'
<1>1. Typed' /\ OthersSame(r) /\ place'[r] = label /\ handler'[r] = o
  BY DEF SessionsInv, Typed, OthersSame, Continue
<1>2. RequestOK(r)'
  BY <1>1 DEF SessionsInv, RequestOK, SessionRead, Existing, Unused
<1> QED
  BY <1>1, <1>2, QuietKeeps

(* The first query of a session by a request that changes it.              *)
LEMMA ReadKeeps ==
    ASSUME SessionsInv, NEW r \in Goroutines, NEW s \in Existing,
           UNCHANGED <<live, tokenOf, exchanged, generated, token, next>>,
           NEW o \in Operations \cup {"none"}, handler' = [handler EXCEPT ![r] = o],
           o = "refresh" => handler[r] = "refresh",
           who' = who, NEW label \in Labels, Continue(r, label), label # "insert_session",
           sid' = [sid EXCEPT ![r] = s], session' = [session EXCEPT ![r] = live[s]],
           NEW left \in SUBSET todo[r], todo' = [todo EXCEPT ![r] = left]
    PROVE  SessionsInv'
<1>1. s \in SessionIds /\ live[s] \in SessionRecord /\ live[s].version \in Nat
  BY DEF SessionsInv, Typed, Existing, SessionRecord
<1>2. Typed' /\ OthersSame(r) /\ place'[r] = label /\ handler'[r] = o
      /\ sid'[r] = s /\ session'[r] = live[s] /\ todo'[r] = left
  BY <1>1 DEF SessionsInv, Typed, OthersSame, Continue
<1>3. SessionRead(r)'
  BY <1>1, <1>2 DEF SessionRead, Existing
<1>4. RequestOK(r)'
  BY <1>2, <1>3 DEF SessionsInv, RequestOK, Existing, Unused
<1> QED
  BY <1>2, <1>4, QuietKeeps

-----------------------------------------------------------------------------
(* Without sessions and tokens there is nothing to confuse.                *)
LEMMA SessionsInitially == IdentityInit => SessionsInv
<1> SUFFICES ASSUME IdentityInit PROVE SessionsInv
  OBVIOUS
<1>1. NoSession \in SessionRecord /\ NoSession.status = "none"
  BY DEF NoSession, SessionRecord, Statuses
<1>2. Typed
  BY <1>1 DEF IdentityInit, Typed, Labels
<1>3. Existing = {}
  BY <1>1 DEF IdentityInit, Existing
<1>4. DigestsOK
  BY <1>3 DEF IdentityInit, DigestsOK
<1>5. \A r \in Goroutines : RequestOK(r)
  BY DEF IdentityInit, RequestOK, Reading
<1>6. \A q, r \in Goroutines : q # r => Apart(q, r)
  BY DEF IdentityInit, Apart
<1> QED
  BY <1>2, <1>4, <1>5, <1>6 DEF SessionsInv, IdentityInit, ExchangedOnce

(* The steps of registration, confirmation and the commands on accounts.   *)
LEMMA AccountsKeep ==
    ASSUME SessionsInv, NEW r \in Goroutines,
           \/ \E u \in Users :
                 \/ StartRegister(r, u) \/ StartConfirm(r, u)
                 \/ StartBlock(r, u) \/ StartUnblock(r, u)
                 \/ \E o \in {"grant", "withdraw"} : ChangeRole(r, u, o)
           \/ InsertUser(r) \/ InsertChallenge(r) \/ ReadConfirmed(r) \/ CommitUser(r)
           \/ \E right \in BOOLEAN : SaveAttempt(r, right)
    PROVE  SessionsInv'
<1> USE DEF rows, clock, history
<1>0. /\ handler \in [Goroutines -> Operations \cup {"none"}]
      /\ who \in [Goroutines -> Users \cup {Null}]
  BY DEF SessionsInv, Typed
<1>1. ASSUME NEW u \in Users, NEW o \in Operations, NEW label \in Labels,
             FindUser(r, u, o, label), UNCHANGED <<rows, generated, history>>,
             o # "refresh", label \in {"insert_user", "save_user"}
      PROVE  SessionsInv'
  BY <1>0, <1>1, GotoKeeps DEF FindUser, StartHandler, Reading
<1>2. ASSUME NEW u \in Users, StartRegister(r, u) PROVE SessionsInv'
  BY <1>1, <1>2 DEF StartRegister, Operations, Labels
<1>3. ASSUME NEW u \in Users, StartConfirm(r, u) PROVE SessionsInv'
  BY <1>0, <1>3, GotoKeeps DEF StartConfirm, StartHandler, Reading, Operations, Labels
<1>4. ASSUME NEW u \in Users, StartBlock(r, u) PROVE SessionsInv'
  BY <1>1, <1>4 DEF StartBlock, Operations, Labels
<1>5. ASSUME NEW u \in Users, StartUnblock(r, u) PROVE SessionsInv'
  BY <1>1, <1>5 DEF StartUnblock, Operations, Labels
<1>6. ASSUME NEW u \in Users, NEW o \in {"grant", "withdraw"}, ChangeRole(r, u, o) PROVE SessionsInv'
  BY <1>1, <1>6 DEF ChangeRole, Operations, Labels
<1>7. handler' = handler => handler' = [handler EXCEPT ![r] = handler[r]]
  BY <1>0
<1>8. CASE InsertUser(r)
  BY <1>0, <1>7, <1>8, GotoKeeps DEF InsertUser, Reading, Labels
<1>9. CASE InsertChallenge(r)
  BY <1>9, FinishKeeps DEF InsertChallenge
<1>10. CASE ReadConfirmed(r)
  BY <1>0, <1>7, <1>10, GotoKeeps DEF ReadConfirmed, Reading, Labels
<1>11. CASE CommitUser(r)
  BY <1>11, FinishKeeps DEF CommitUser
<1>12. ASSUME NEW right \in BOOLEAN, SaveAttempt(r, right) PROVE SessionsInv'
  <2>1. UNCHANGED <<live, tokenOf, exchanged, generated>>
    BY <1>12 DEF SaveAttempt
  <2>2. CASE EndHandler(r)
    BY <2>1, <2>2, FinishKeeps
  <2>3. CASE ~ EndHandler(r)
    <3>1. Continue(r, "find_user") /\ UNCHANGED <<handler, who, sid, token, next, session, todo>>
      BY <1>12, <2>3 DEF SaveAttempt
    <3> QED
      BY <1>0, <1>7, <2>1, <3>1, GotoKeeps DEF Reading, Labels
  <2> QED
    BY <2>2, <2>3
<1> QED
  BY <1>2, <1>3, <1>4, <1>5, <1>6, <1>8, <1>9, <1>10, <1>11, <1>12

(* The steps of a sign-in, with the token it generates.                    *)
LEMMA SignInKeeps ==
    ASSUME SessionsInv, NEW r \in Goroutines,
           \/ \E u \in Users, s \in SessionIds : StartSignIn(r, u, s)
           \/ InsertSession(r)
    PROVE  SessionsInv'
<1> USE DEF rows, clock, history
<1>1. ASSUME NEW u \in Users, NEW s \in SessionIds, StartSignIn(r, u, s) PROVE SessionsInv'
  <2>1. /\ generated \in Nat
        /\ generated' = generated + 1 /\ UNCHANGED <<live, tokenOf, exchanged>>
        /\ UNCHANGED <<token, session, todo>>
        /\ handler' = [handler EXCEPT ![r] = "sign_in"] /\ place' = [place EXCEPT ![r] = "insert_session"]
        /\ who' = [who EXCEPT ![r] = u] /\ sid' = [sid EXCEPT ![r] = s]
        /\ next' = [next EXCEPT ![r] = generated + 1]
    BY <1>1 DEF StartSignIn, StartHandler, Continue, SessionsInv, Typed
  <2>2. generated + 1 \in Nat
    BY <2>1
  <2>3. Typed' /\ OthersSame(r) /\ next'[r] = generated + 1
    BY <2>1, <2>2 DEF SessionsInv, Typed, OthersSame, Operations, Labels
  <2>4. s \in SessionIds \ Existing /\ \A q \in Goroutines : sid[q] # s
    BY <1>1 DEF StartSignIn, Existing
  <2>5. place'[r] = "insert_session" /\ sid'[r] = s /\ todo'[r] \subseteq Existing
    BY <2>1 DEF SessionsInv, Typed, RequestOK
  <2> QED
    BY <2>1, <2>3, <2>4, <2>5, GenerateKeeps DEF Reading
<1>2. CASE InsertSession(r)
  <2> DEFINE made == StartSession(who[r], next[r])
  <2>1. made \in SessionRecord /\ made.status = "active" /\ made.digest = next[r]
    BY DEF SessionsInv, Typed, SessionRecord, Statuses, StartSession
  <2>2. /\ place[r] = "insert_session" /\ SaveSession(sid[r], made) /\ EndHandler(r)
        /\ UNCHANGED <<generated, exchanged>>
    BY <1>2 DEF InsertSession
  <2>3. sid[r] \in SessionIds
    BY <2>2 DEF SessionsInv, RequestOK
  <2> HIDE DEF made
  <2>4. /\ RequestTyped' /\ OthersSame(r)
        /\ place'[r] = "idle" /\ handler'[r] = "none" /\ next'[r] = 0 /\ todo'[r] = {}
    BY <2>2, Finished DEF SessionsInv
  <2>5. Typed'
    BY <2>1, <2>2, <2>3, <2>4, SessionSaved DEF SessionsInv, Typed, RequestTyped
  <2> QED
    BY <2>1, <2>2, <2>4, <2>5, InsertKeeps
<1> QED
  BY <1>1, <1>2

(* A commit of a session that was read, or its conflict.                   *)
LEMMA LastCommitKeeps ==
    ASSUME SessionsInv, NEW r \in Goroutines, place[r] \in Reading, UNCHANGED generated,
           CanSaveSession(sid[r], session[r]),
           NEW made \in SessionRecord, made.status # "none",
           made.version = session[r].version,
           SaveSession(sid[r], made),
           \/ made.digest = session[r].digest /\ UNCHANGED exchanged
           \/ /\ made.digest = next[r] /\ next[r] # 0
              /\ exchanged' = exchanged \cup {<<session[r].digest, next[r]>>},
           EndHandler(r)
    PROVE  SessionsInv'
<1>1. sid[r] \in SessionIds
  BY DEF SessionsInv, RequestOK, SessionRead, Existing
<1>2. /\ RequestTyped' /\ OthersSame(r)
      /\ place'[r] = "idle" /\ handler'[r] = "none" /\ next'[r] = 0 /\ todo'[r] = {}
  BY Finished DEF SessionsInv
<1>3. exchanged' \subseteq Nat \X Nat
  BY DEF SessionsInv, Typed, SessionRecord
<1>4. Typed'
  BY <1>1, <1>2, <1>3, SessionSaved DEF SessionsInv, Typed, RequestTyped
<1> QED
  BY <1>2, <1>4, CommitKeeps DEF CanSaveSession

(* The row of a session that is revoked, or rotated.                       *)
LEMMA Rows ==
    ASSUME NEW s \in SessionRecord, NEW t \in Nat
    PROVE  LET turned == [s EXCEPT !.digest = t] IN
           /\ Revoke(s) \in SessionRecord /\ Revoke(s).status = "revoked"
           /\ Revoke(s).digest = s.digest /\ Revoke(s).version = s.version
           /\ turned \in SessionRecord /\ turned.status = s.status
           /\ turned.digest = t /\ turned.version = s.version
BY DEF SessionRecord, Statuses, Revoke

(* The steps of a refresh, which reads the session, reads its owner, and   *)
(* commits the rotation or a revocation.                                   *)
LEMMA RefreshKeeps ==
    ASSUME SessionsInv, NEW r \in Goroutines,
           \/ \E t \in Tokens : StartRefresh(r, t)
           \/ FindOwner(r) \/ CommitRefresh(r)
    PROVE  SessionsInv'
<1> USE DEF rows, clock, history
<1>1. ASSUME NEW t \in Tokens, StartRefresh(r, t) PROVE SessionsInv'
  <2>1. PICK s \in Existing : s = tokenOf[t]
    BY <1>1 DEF StartRefresh, SessionsInv, DigestsOK
  <2>2. /\ generated \in Nat /\ t \in Nat
        /\ generated' = generated + 1 /\ UNCHANGED <<live, tokenOf, exchanged>>
        /\ UNCHANGED <<who, todo>>
        /\ handler' = [handler EXCEPT ![r] = "refresh"] /\ place' = [place EXCEPT ![r] = "find_owner"]
        /\ token' = [token EXCEPT ![r] = t] /\ sid' = [sid EXCEPT ![r] = s]
        /\ session' = [session EXCEPT ![r] = live[s]]
        /\ next' = [next EXCEPT ![r] = generated + 1]
    BY <1>1, <2>1 DEF StartRefresh, StartHandler, Continue, SessionsInv, Typed, Tokens
  <2>3. generated + 1 \in Nat
    BY <2>2
  <2>4. s \in SessionIds /\ live[s] \in SessionRecord /\ live[s].version \in Nat
    BY <2>1 DEF SessionsInv, Typed, Existing, SessionRecord
  <2>5. Typed' /\ OthersSame(r) /\ next'[r] = generated + 1
    BY <2>2, <2>3, <2>4 DEF SessionsInv, Typed, OthersSame, Operations, Labels
  <2>6. place'[r] = "find_owner" /\ sid'[r] = s /\ session'[r] = live[s]
        /\ todo'[r] \subseteq Existing
    BY <2>2 DEF SessionsInv, Typed, RequestOK
  <2>7. SessionRead(r)'
    BY <2>1, <2>2, <2>4, <2>6 DEF SessionRead, Existing
  <2> QED
    BY <2>2, <2>5, <2>6, <2>7, GenerateKeeps
<1>2. CASE FindOwner(r)
  <2>1. session[r].user \in Users \cup {Null} /\ handler[r] \in Operations \cup {"none"}
        /\ handler' = [handler EXCEPT ![r] = handler[r]]
    BY <1>2 DEF FindOwner, SessionsInv, Typed, SessionRecord
  <2>2. who' \in [Goroutines -> Users \cup {Null}]
    BY <1>2, <2>1 DEF FindOwner, SessionsInv, Typed
  <2> QED
    BY <1>2, <2>1, <2>2, GotoKeeps DEF FindOwner, Reading, Labels
<1>3. CASE CommitRefresh(r)
  <2> DEFINE s == session[r]
             rotated == Rotate(s, token[r], next[r], late[r])
             saved == IF CanSignIn(user[r]) THEN rotated
                      ELSE [row |-> Revoke(s), error |-> "FORBIDDEN"]
  <2>1. place[r] = "save_session" /\ handler[r] = "refresh" /\ EndHandler(r)
        /\ UNCHANGED generated
    BY <1>3 DEF CommitRefresh
  <2>2. CASE ~ CanSaveSession(sid[r], session[r])
    BY <1>3, <2>1, <2>2, FinishKeeps DEF CommitRefresh
  <2>3. CASE CanSaveSession(sid[r], session[r])
    <3>1. SaveSession(sid[r], saved.row)
      BY <1>3, <2>3 DEF CommitRefresh
    <3>2. IF saved.error = "none" THEN exchanged' = exchanged \cup {<<token[r], next[r]>>}
                                  ELSE UNCHANGED exchanged
      BY <1>3, <2>3 DEF CommitRefresh
    <3>3. session[r] \in SessionRecord /\ next[r] \in Nat /\ next[r] # 0
          /\ session[r].status # "none"
      BY <2>1, <2>3 DEF SessionsInv, Typed, RequestOK, SessionRead, Reading, CanSaveSession, Existing
    <3>4. \/ saved.row = session[r] /\ saved.error # "none"
          \/ saved.row = Revoke(session[r]) /\ saved.error # "none"
          \/ /\ saved.row = [session[r] EXCEPT !.digest = next[r]]
             /\ token[r] = session[r].digest /\ saved.error = "none"
      BY DEF Rotate
    <3>5. /\ saved.row \in SessionRecord /\ saved.row.status # "none"
          /\ saved.row.version = session[r].version
          /\ \/ saved.row.digest = session[r].digest /\ UNCHANGED exchanged
             \/ /\ saved.row.digest = next[r]
                /\ exchanged' = exchanged \cup {<<session[r].digest, next[r]>>}
      <4> HIDE DEF saved
      <4>1. CASE saved.row = session[r] /\ saved.error # "none"
        BY <3>2, <3>3, <4>1
      <4>2. CASE saved.row = Revoke(session[r]) /\ saved.error # "none"
        BY <3>2, <3>3, <4>2, Rows
      <4>3. CASE /\ saved.row = [session[r] EXCEPT !.digest = next[r]]
                 /\ token[r] = session[r].digest /\ saved.error = "none"
        BY <3>2, <3>3, <4>3, Rows
      <4> QED
        BY <3>4, <4>1, <4>2, <4>3
    <3> HIDE DEF saved
    <3> QED
      BY <2>1, <2>3, <3>1, <3>3, <3>5, LastCommitKeeps DEF Reading
  <2> QED
    BY <2>2, <2>3
<1> QED
  BY <1>1, <1>2, <1>3

(* The steps of a revocation, by a command or by the consumer of a block.  *)
LEMMA RevokeKeeps ==
    ASSUME SessionsInv, NEW r \in Goroutines,
           \/ \E s \in SessionIds : StartRevoke(r, s)
           \/ \E u \in Users : ConsumeBlock(r, u)
           \/ CommitRevoke(r) \/ FindNext(r) \/ SaveNext(r) \/ Consumed(r)
    PROVE  SessionsInv'
<1> USE DEF rows, clock, history
<1>0. handler[r] \in Operations \cup {"none"} /\ todo \in [Goroutines -> SUBSET SessionIds]
      /\ handler \in [Goroutines -> Operations \cup {"none"}] /\ todo[r] \subseteq Existing
  BY DEF SessionsInv, Typed, RequestOK
<1>1. ASSUME NEW s \in SessionIds, StartRevoke(r, s) PROVE SessionsInv'
  <2>1. s \in Existing /\ todo' = [todo EXCEPT ![r] = todo[r]]
    BY <1>0, <1>1 DEF StartRevoke, Existing
  <2> QED
    BY <1>1, <2>1, ReadKeeps DEF StartRevoke, StartHandler, Operations, Labels
<1>2. ASSUME NEW u \in Users, ConsumeBlock(r, u) PROVE SessionsInv'
  <2> DEFINE listed == {s \in SessionIds : live[s].status = "active" /\ live[s].user = u}
  <2>1. /\ UNCHANGED <<live, tokenOf, exchanged, generated, sid, next, session, token>>
        /\ handler' = [handler EXCEPT ![r] = "revoke_all"] /\ place' = [place EXCEPT ![r] = "each"]
        /\ who' = [who EXCEPT ![r] = u] /\ todo' = [todo EXCEPT ![r] = listed]
    BY <1>2 DEF ConsumeBlock, StartHandler, Continue
  <2>2. listed \in SUBSET Existing /\ Existing \subseteq SessionIds
    BY DEF Existing
  <2> HIDE DEF listed
  <2>3. Typed' /\ OthersSame(r) /\ place'[r] = "each" /\ handler'[r] = "revoke_all"
        /\ todo'[r] = listed
    BY <2>1, <2>2 DEF SessionsInv, Typed, OthersSame, Operations, Labels
  <2>4. RequestOK(r)'
    BY <2>1, <2>2, <2>3 DEF SessionsInv, RequestOK, Reading, Existing, Unused
  <2> QED
    BY <2>1, <2>3, <2>4, QuietKeeps
<1>3. session[r] \in SessionRecord
  BY DEF SessionsInv, Typed
<1>4. CASE CommitRevoke(r)
  <2>1. CASE ~ CanSaveSession(sid[r], session[r])
    BY <1>4, <2>1, FinishKeeps DEF CommitRevoke
  <2>2. CASE CanSaveSession(sid[r], session[r])
    BY <1>3, <1>4, <2>2, Rows, LastCommitKeeps DEF CommitRevoke, Reading
  <2> QED
    BY <2>1, <2>2
<1>5. CASE FindNext(r)
  <2>1. PICK s \in todo[r] : /\ sid' = [sid EXCEPT ![r] = s]
                             /\ session' = [session EXCEPT ![r] = live[s]]
                             /\ todo' = [todo EXCEPT ![r] = todo[r] \ {s}]
    BY <1>5 DEF FindNext
  <2>2. s \in Existing /\ handler' = [handler EXCEPT ![r] = handler[r]]
    BY <1>0, <1>5, <2>1 DEF FindNext
  <2> QED
    BY <1>0, <1>5, <2>1, <2>2, ReadKeeps DEF FindNext, Labels
<1>6. CASE SaveNext(r)
  <2>1. CASE ~ CanSaveSession(sid[r], session[r])
    BY <1>6, <2>1, FinishKeeps DEF SaveNext, Conflict
  <2>2. CASE CanSaveSession(sid[r], session[r])
    <3>1. PICK made \in SessionRecord : made = Revoke(session[r])
      BY <1>3, Rows
    <3>2. made.status = "revoked" /\ made.digest = session[r].digest
          /\ made.version = session[r].version
      BY <1>3, <3>1, Rows
    <3>3. /\ place[r] = "save_next" /\ SaveSession(sid[r], made) /\ Continue(r, "each")
          /\ UNCHANGED <<handler, who, sid, token, next, session, todo, exchanged, generated>>
      BY <1>6, <2>2, <3>1 DEF SaveNext
    <3>4. sid[r] \in SessionIds
      BY <3>3 DEF SessionsInv, RequestOK, SessionRead, Reading, Existing
    <3>5. place' = [place EXCEPT ![r] = "each"] /\ "each" \in Labels
      BY <3>3 DEF Continue, Labels
    <3>6. Typed' /\ OthersSame(r) /\ place'[r] = "each"
      BY <3>3, <3>4, <3>5, SessionSaved DEF SessionsInv, Typed, OthersSame
    <3>7. handler'[r] = "refresh" => next'[r] # 0
      BY <3>3 DEF SessionsInv, RequestOK
    <3> QED
      BY <2>2, <3>2, <3>3, <3>6, <3>7, CommitKeeps DEF CanSaveSession, Reading
  <2> QED
    BY <2>1, <2>2
<1>7. CASE Consumed(r)
  BY <1>7, FinishKeeps DEF Consumed
<1> QED
  BY <1>1, <1>2, <1>4, <1>5, <1>6, <1>7

(* Every step of a request, and of time, keeps the invariant.              *)
LEMMA SessionsInductive == SessionsInv /\ [IdentityNext]_identityVars => SessionsInv'
<1> SUFFICES ASSUME SessionsInv, [IdentityNext]_identityVars PROVE SessionsInv'
  OBVIOUS
<1>1. ASSUME UNCHANGED <<live, tokenOf, exchanged, generated, requestVars>> PROVE SessionsInv'
  BY <1>1 DEF SessionsInv, Typed, DigestsOK, RequestOK, SessionRead, Apart, Existing, Unused,
     ExchangedOnce, requestVars
<1>2. ASSUME NEW r \in Goroutines, Stop(r) PROVE SessionsInv'
  BY <1>2, FinishKeeps DEF Stop, rows, history
<1>3. CASE UNCHANGED identityVars
  BY <1>1, <1>3 DEF identityVars, rows, history
<1>4. ASSUME NEW s \in SessionIds, Lapse(s) PROVE SessionsInv'
  BY <1>1, <1>4 DEF Lapse, rows, history
<1>5. ASSUME NEW u \in Users, RunOut(u) \/ DeleteExpiredChallenge(u) PROVE SessionsInv'
  BY <1>1, <1>5 DEF RunOut, DeleteExpiredChallenge, rows, history
<1>6. ASSUME NEW r \in Goroutines, Start(r) PROVE SessionsInv'
  BY <1>6, AccountsKeep, SignInKeeps, RefreshKeeps, RevokeKeeps DEF Start
<1>7. ASSUME NEW r \in Goroutines, Proceed(r) PROVE SessionsInv'
  BY <1>7, AccountsKeep, SignInKeeps, RefreshKeeps, RevokeKeeps DEF Proceed
<1>8. ASSUME NEW r \in Goroutines, NEW u \in Users, ConsumeBlock(r, u) PROVE SessionsInv'
  BY <1>8, RevokeKeeps
<1> QED
  BY <1>2, <1>3, <1>4, <1>5, <1>6, <1>7, <1>8 DEF IdentityNext

(* The invariant holds in every reachable state.                           *)
LEMMA SessionsInvariance == IdentitySpec => []SessionsInv
BY SessionsInitially, SessionsInductive, PTL DEF IdentitySpec

(* Of requests that present one refresh token, at the same time or one     *)
(* after the other, at most one is given another token for it              *)
(* (refresh_session.go): the rotation saves the version it read, and a     *)
(* token that was exchanged is no session's any more.                      *)
THEOREM AlwaysExchangedOnce == IdentitySpec => []ExchangedOnce
<1>1. SessionsInv => ExchangedOnce
  BY DEF SessionsInv
<1> QED
  BY <1>1, SessionsInvariance, PTL

-----------------------------------------------------------------------------
(* The second argument is about the challenge of an account: the guesses   *)
(* made are those its row counts.                                          *)

Registering == {"insert_user", "insert_challenge"}
OfAccount == {"insert_challenge", "save_challenge", "find_user", "save_user"}

AccountStatuses == {"none", "pending_verification", "active", "blocked"}
AccountRecord == [status : AccountStatuses, verified : BOOLEAN, roles : SUBSET Roles,
                  version : Nat]
ChallengeRecord == [status : {"none", "pending", "verified", "exhausted"},
                    attempts : Nat, version : Nat]

CountTyped ==
    /\ account \in [Users -> AccountRecord]
    /\ code \in [Users -> ChallengeRecord]
    /\ guesses \in [Users -> Nat]
    /\ DOMAIN user = Goroutines
    /\ DOMAIN challenge = Goroutines

(* An account that does not exist has no challenge and was guessed at by   *)
(* nobody; a pending challenge has guesses left.                           *)
CodeOK(u) ==
    /\ guesses[u] <= MaxGuesses
    /\ account[u].status = "none" => code[u].status = "none" /\ guesses[u] = 0
    /\ code[u].status = "none" => code[u].version = 0
    /\ code[u].status # "none" => code[u].version # 0 /\ guesses[u] = code[u].attempts
    /\ code[u].status = "pending" => code[u].attempts < MaxGuesses

(* What a request has read of a challenge is there, or an older version,   *)
(* or the challenge was deleted; accounts never vanish.                    *)
CountOK(r) ==
    /\ place[r] \in Registering \cup OfAccount => who[r] \in Users
    /\ place[r] = "insert_user" => account[who[r]].status = "none"
    /\ place[r] \in OfAccount => account[who[r]].status # "none"
    /\ place[r] = "insert_challenge" => code[who[r]].status = "none" /\ guesses[who[r]] = 0
    /\ place[r] \in {"save_challenge", "find_user"} => handler[r] = "confirm"
    /\ place[r] = "save_challenge" =>
          /\ challenge[r] \in ChallengeRecord
          /\ challenge[r].status # "none" /\ challenge[r].version # 0
          /\ code[who[r]].status # "none" => challenge[r].version <= code[who[r]].version
          /\ code[who[r]].version = challenge[r].version => code[who[r]] = challenge[r]
    /\ place[r] = "save_user" =>
          /\ user[r] \in AccountRecord /\ user[r].status # "none"
          /\ handler[r] \in {"confirm", "block", "unblock", "grant", "withdraw"}

(* An account is registered by one request, before anybody confirms it.    *)
Alone(q, r) ==
    /\ place[q] \in Registering /\ place[r] \in Registering => who[q] # who[r]
    /\ place[q] = "insert_challenge" /\ place[r] = "save_challenge" => who[q] # who[r]

CountInv ==
    /\ CountTyped
    /\ \A u \in Users : CodeOK(u)
    /\ \A r \in Goroutines : CountOK(r)
    /\ \A q, r \in Goroutines : q # r => Alone(q, r)

(* What the other requests have of accounts is left alone.                 *)
OthersAlone(r) ==
    \A q \in Goroutines \ {r} :
        /\ handler'[q] = handler[q] /\ place'[q] = place[q] /\ who'[q] = who[q]
        /\ user'[q] = user[q] /\ challenge'[q] = challenge[q]

(* A step of a request that changes no account and no challenge.           *)
LEMMA ReadingCounts ==
    ASSUME CountInv, NEW r \in Goroutines, OthersAlone(r),
           UNCHANGED <<account, code, guesses>>,
           DOMAIN user' = Goroutines, DOMAIN challenge' = Goroutines, CountOK(r)',
           \A q \in Goroutines \ {r} : Alone(q, r)' /\ Alone(r, q)'
    PROVE  CountInv'
<1>1. CountTyped'
  BY DEF CountInv, CountTyped
<1>2. \A u \in Users : CodeOK(u)'
  BY DEF CountInv, CodeOK
<1>3. ASSUME NEW q \in Goroutines \ {r} PROVE CountOK(q)'
  BY DEF CountInv, CountOK, OthersAlone
<1>4. ASSUME NEW p \in Goroutines, NEW q \in Goroutines, p # q PROVE Alone(p, q)'
  <2>1. CASE p # r /\ q # r
    BY <1>4, <2>1 DEF CountInv, Alone, OthersAlone
  <2>2. CASE p = r \/ q = r
    BY <1>4, <2>2
  <2> QED
    BY <2>1, <2>2
<1> QED
  BY <1>1, <1>2, <1>3, <1>4 DEF CountInv

(* A step after which the request has nothing to do with an account.       *)
LEMMA LeavingCounts ==
    ASSUME CountInv, NEW r \in Goroutines, OthersAlone(r),
           UNCHANGED <<account, code, guesses>>,
           DOMAIN user' = Goroutines, DOMAIN challenge' = Goroutines,
           place'[r] \notin Registering \cup OfAccount
    PROVE  CountInv'
<1>1. CountOK(r)'
  BY DEF CountOK, Registering, OfAccount
<1>2. \A q \in Goroutines \ {r} : Alone(q, r)' /\ Alone(r, q)'
  BY DEF Alone, Registering, OfAccount
<1> QED
  BY <1>1, <1>2, ReadingCounts

(* The end of a request.                                                   *)
LEMMA EndOfRequest ==
    ASSUME Typed, CountTyped, NEW r \in Goroutines, EndHandler(r)
    PROVE  /\ OthersAlone(r) /\ place'[r] = "idle"
           /\ DOMAIN user' = Goroutines /\ DOMAIN challenge' = Goroutines
BY DEF EndHandler, Typed, CountTyped, OthersAlone

(* A step of a request that ends by it and of the rows of one account:     *)
(* what the other requests know of that account stays true.                *)
LEMMA ChangeCounts ==
    ASSUME CountInv, NEW r \in Goroutines, NEW u \in Users, OthersAlone(r), CountTyped',
           \A v \in Users \ {u} : /\ account'[v] = account[v] /\ code'[v] = code[v]
                                  /\ guesses'[v] = guesses[v],
           CodeOK(u)', CountOK(r)',
           \A q \in Goroutines \ {r} : Alone(q, r)' /\ Alone(r, q)',
           \A q \in Goroutines \ {r} : who[q] = u => CountOK(q)'
    PROVE  CountInv'
<1>1. \A v \in Users : CodeOK(v)'
  BY DEF CountInv, CodeOK
<1>2. ASSUME NEW q \in Goroutines \ {r} PROVE CountOK(q)'
  <2>1. CASE who[q] # u
    <3>1. CountOK(q)
      BY DEF CountInv
    <3>2. place'[q] = place[q] /\ who'[q] = who[q] /\ handler'[q] = handler[q]
          /\ user'[q] = user[q] /\ challenge'[q] = challenge[q]
      BY DEF OthersAlone
    <3>3. CASE place[q] \in Registering \cup OfAccount
      <4>1. who[q] \in Users \ {u}
        BY <2>1, <3>1, <3>3 DEF CountOK
      <4>2. /\ account'[who[q]] = account[who[q]] /\ code'[who[q]] = code[who[q]]
            /\ guesses'[who[q]] = guesses[who[q]]
        BY <4>1
      <4> QED
        BY <3>1, <3>2, <4>1, <4>2 DEF CountOK
    <3>4. CASE place[q] \notin Registering \cup OfAccount
      BY <3>2, <3>4 DEF CountOK, Registering, OfAccount
    <3> QED
      BY <3>3, <3>4
  <2> QED
    BY <2>1
<1>3. ASSUME NEW p \in Goroutines, NEW q \in Goroutines, p # q PROVE Alone(p, q)'
  <2>1. CASE p # r /\ q # r
    BY <1>3, <2>1 DEF CountInv, Alone, OthersAlone
  <2>2. CASE p = r \/ q = r
    BY <1>3, <2>2
  <2> QED
    BY <2>1, <2>2
<1> QED
  BY <1>1, <1>2, <1>3 DEF CountInv

-----------------------------------------------------------------------------
(* What a guess makes of a challenge.                                      *)
LEMMA Verified ==
    ASSUME MaxGuesses \in Nat \ {0}, NEW c \in ChallengeRecord, c.status # "none",
           c.attempts <= MaxGuesses, c.status = "pending" => c.attempts < MaxGuesses,
           NEW right \in BOOLEAN, NEW over,
           NEW made, made = Verify(c, right, over).row
    PROVE  /\ made \in ChallengeRecord /\ made.status # "none" /\ made.version = c.version
           /\ made.attempts = IF made = c THEN c.attempts ELSE c.attempts + 1
           /\ made.attempts <= MaxGuesses
           /\ made.status = "pending" => made.attempts < MaxGuesses
<1>1. c.attempts \in Nat /\ c.version \in Nat
      /\ c.status \in {"pending", "verified", "exhausted"}
  BY DEF ChallengeRecord
<1>2. CASE made = c
  BY <1>2
<1>3. CASE made # c
  <2>1. c.status = "pending"
    BY <1>1, <1>3 DEF Verify
  <2>2. c.attempts < MaxGuesses
    BY <2>1
  <2>3. PICK status : status = IF right THEN "verified"
                               ELSE IF c.attempts + 1 >= MaxGuesses THEN "exhausted"
                               ELSE c.status
    OBVIOUS
  <2>4. /\ status \in {"pending", "verified", "exhausted"}
        /\ status = "pending" => c.attempts + 1 < MaxGuesses
    BY <1>1, <2>1, <2>3
  <2>5. made = [c EXCEPT !.attempts = c.attempts + 1, !.status = status]
    BY <1>3, <2>1, <2>3 DEF Verify
  <2>6. PICK n \in Nat : n = c.attempts + 1
    BY <1>1
  <2>7. made = [c EXCEPT !.attempts = n, !.status = status]
    BY <2>5, <2>6
  <2>8. made \in ChallengeRecord /\ made.attempts = n
        /\ made.status = status /\ made.version = c.version
    BY <2>4, <2>7 DEF ChallengeRecord
  <2>9. n <= MaxGuesses
    BY <1>1, <2>2, <2>6
  <2> QED
    BY <1>3, <2>4, <2>6, <2>8, <2>9
<1> QED
  BY <1>2, <1>3

(* Every command on an account leaves it in being.                         *)
LEMMA ChangedExists ==
    ASSUME NEW a \in AccountRecord, a.status # "none",
           NEW o \in {"confirm", "block", "unblock", "grant", "withdraw"},
           NEW b, b = ChangedAccount(o, a), b # Null
    PROVE  b \in AccountRecord /\ b.status # "none"
<1>1. a.status \in {"pending_verification", "active", "blocked"}
  BY DEF AccountRecord, AccountStatuses
<1>2. CASE o = "confirm"
  <2>1. b = ConfirmEmail(a)
    BY <1>2 DEF ChangedAccount
  <2> QED
    BY <1>1, <2>1 DEF ConfirmEmail, AccountRecord, AccountStatuses
<1>3. CASE o = "block"
  <2>1. b = Block(a)
    BY <1>3 DEF ChangedAccount
  <2> QED
    BY <2>1 DEF Block, AccountRecord, AccountStatuses
<1>4. CASE o = "unblock"
  <2>1. b = Unblock(a)
    BY <1>4 DEF ChangedAccount
  <2> QED
    BY <2>1 DEF Unblock, AccountRecord, AccountStatuses
<1>5. CASE o = "grant"
  <2>1. b = GrantRole(a, "support_agent")
    BY <1>5 DEF ChangedAccount
  <2> QED
    BY <1>1, <2>1 DEF GrantRole, AccountRecord, AccountStatuses, Roles
<1>6. CASE o = "withdraw"
  <2>1. b = RevokeRole(a, "support_agent")
    BY <1>6 DEF ChangedAccount
  <2> QED
    BY <1>1, <2>1 DEF RevokeRole, AccountRecord, AccountStatuses, Roles
<1> QED
  BY <1>2, <1>3, <1>4, <1>5, <1>6

-----------------------------------------------------------------------------
(* Registration begins with an address nobody else is registering.         *)
LEMMA RegisterCounts ==
    ASSUME Typed, CountInv, NEW r \in Goroutines, NEW u \in Users, StartRegister(r, u)
    PROVE  CountInv'
<1>1. /\ OthersAlone(r) /\ UNCHANGED <<account, code, guesses>>
      /\ place'[r] = "insert_user" /\ who'[r] = u
      /\ DOMAIN user' = Goroutines /\ DOMAIN challenge' = Goroutines
  BY DEF StartRegister, FindUser, StartHandler, Continue, OthersAlone, Typed, CountInv, CountTyped,
     rows, history
<1>2. account[u].status = "none" /\ \A q \in Goroutines : who[q] # u
  BY DEF StartRegister
<1>3. CountOK(r)'
  BY <1>1, <1>2 DEF CountOK, Registering, OfAccount
<1>4. \A q \in Goroutines \ {r} : Alone(q, r)' /\ Alone(r, q)'
  BY <1>1, <1>2 DEF Alone, OthersAlone
<1> QED
  BY <1>1, <1>3, <1>4, ReadingCounts

(* Other commands find the account there.                                  *)
LEMMA FindingCounts ==
    ASSUME Typed, CountInv, NEW r \in Goroutines, NEW u \in Users,
           NEW o \in {"block", "unblock", "grant", "withdraw"},
           account[u].status # "none", FindUser(r, u, o, "save_user"),
           UNCHANGED <<account, code, guesses>>
    PROVE  CountInv'
<1>1. /\ OthersAlone(r) /\ handler'[r] = o
      /\ place'[r] = "save_user" /\ who'[r] = u /\ user'[r] = account[u]
      /\ DOMAIN user' = Goroutines /\ DOMAIN challenge' = Goroutines
  BY DEF FindUser, StartHandler, Continue, OthersAlone, Typed, CountInv, CountTyped
<1>2. account[u] \in AccountRecord
  BY DEF CountInv, CountTyped
<1>3. CountOK(r)'
  BY <1>1, <1>2 DEF CountOK, Registering, OfAccount
<1>4. \A q \in Goroutines \ {r} : Alone(q, r)' /\ Alone(r, q)'
  BY <1>1 DEF Alone, Registering
<1> QED
  BY <1>1, <1>3, <1>4, ReadingCounts

(* A confirmation reads the challenge, so that nobody is registering the   *)
(* account any more.                                                       *)
LEMMA ConfirmCounts ==
    ASSUME Typed, CountInv, NEW r \in Goroutines, NEW u \in Users, StartConfirm(r, u)
    PROVE  CountInv'
<1>1. /\ OthersAlone(r) /\ UNCHANGED <<account, code, guesses>> /\ handler'[r] = "confirm"
      /\ place'[r] = "save_challenge" /\ who'[r] = u /\ challenge'[r] = code[u]
      /\ DOMAIN user' = Goroutines /\ DOMAIN challenge' = Goroutines
  BY DEF StartConfirm, StartHandler, Continue, OthersAlone, Typed, CountInv, CountTyped, rows, history
<1>2. code[u].status # "none" /\ code[u] \in ChallengeRecord
  BY DEF StartConfirm, CountInv, CountTyped
<1>3. code[u].version # 0 /\ account[u].status # "none" /\ code[u].version \in Nat
  BY <1>2 DEF CountInv, CodeOK, ChallengeRecord
<1>4. CountOK(r)'
  BY <1>1, <1>2, <1>3 DEF CountOK, Registering, OfAccount
<1>5. ASSUME NEW q \in Goroutines \ {r} PROVE Alone(q, r)' /\ Alone(r, q)'
  <2>1. place[q] = "insert_challenge" => who[q] # u
    BY <1>2 DEF CountInv, CountOK
  <2> QED
    BY <1>1, <2>1 DEF Alone, OthersAlone, Registering
<1> QED
  BY <1>1, <1>4, <1>5, ReadingCounts

(* The account is read again after the guess.                              *)
LEMMA RereadCounts ==
    ASSUME Typed, CountInv, NEW r \in Goroutines, ReadConfirmed(r)
    PROVE  CountInv'
<1>1. place[r] = "find_user" /\ CountOK(r)
  BY DEF ReadConfirmed, CountInv
<1>2. PICK u \in Users : u = who[r]
  BY <1>1 DEF CountOK, OfAccount
<1>3. /\ OthersAlone(r) /\ UNCHANGED <<account, code, guesses>> /\ handler'[r] = "confirm"
      /\ place'[r] = "save_user" /\ who'[r] = u /\ user'[r] = account[u]
      /\ DOMAIN user' = Goroutines /\ DOMAIN challenge' = Goroutines
  BY <1>1, <1>2 DEF ReadConfirmed, Continue, OthersAlone, Typed, CountInv, CountTyped, CountOK,
     rows, history
<1>4. account[u] \in AccountRecord /\ account[u].status # "none"
  BY <1>1, <1>2 DEF CountInv, CountTyped, CountOK, OfAccount
<1>5. CountOK(r)'
  BY <1>3, <1>4 DEF CountOK, Registering, OfAccount
<1>6. \A q \in Goroutines \ {r} : Alone(q, r)' /\ Alone(r, q)'
  BY <1>3 DEF Alone, Registering
<1> QED
  BY <1>3, <1>5, <1>6, ReadingCounts

-----------------------------------------------------------------------------
(* The account comes into being: until now it had no challenge.            *)
LEMMA InsertUserCounts ==
    ASSUME Typed, CountInv, NEW r \in Goroutines, InsertUser(r)
    PROVE  CountInv'
<1>1. place[r] = "insert_user" /\ CountOK(r)
  BY DEF InsertUser, CountInv
<1>2. PICK u \in Users : u = who[r]
  BY <1>1 DEF CountOK, Registering
<1>3. account[u].status = "none" /\ code[u].status = "none" /\ guesses[u] = 0
  BY <1>1, <1>2 DEF CountOK, CountInv, CodeOK
<1>4. PICK a \in AccountRecord : /\ a.status = "pending_verification"
                                 /\ account' = [account EXCEPT ![u] = a]
  <2>1. PICK a : a = [Registered EXCEPT !.version = @ + 1]
    OBVIOUS
  <2>2. a \in AccountRecord
    <3>1. Registered \in AccountRecord
      BY DEF Registered, AccountRecord, AccountStatuses, Roles
    <3> HIDE DEF Registered
    <3> QED
      BY <2>1, <3>1 DEF AccountRecord
  <2>3. a.status = "pending_verification"
    BY <2>1 DEF Registered
  <2>4. account' = [account EXCEPT ![u] = a]
    BY <1>2, <2>1 DEF InsertUser, SaveUser
  <2> QED
    BY <2>2, <2>3, <2>4
<1>5. /\ OthersAlone(r) /\ UNCHANGED <<code, guesses, user, challenge, who>>
      /\ place'[r] = "insert_challenge" /\ who'[r] = u
  BY <1>2 DEF InsertUser, Continue, OthersAlone, Typed, history
<1>6. CountTyped' /\ account'[u].status = "pending_verification"
      /\ \A v \in Users \ {u} : account'[v] = account[v]
  BY <1>4, <1>5 DEF CountInv, CountTyped
<1>7. CodeOK(u)'
  BY <1>3, <1>5, <1>6 DEF CountInv, CodeOK
<1>8. CountOK(r)'
  BY <1>2, <1>3, <1>5, <1>6 DEF CountOK, Registering, OfAccount
<1>9. ASSUME NEW q \in Goroutines \ {r} PROVE Alone(q, r)' /\ Alone(r, q)'
  <2>1. place[q] \in Registering => who[q] # u
    BY <1>1, <1>2 DEF CountInv, Alone, Registering
  <2>2. place[q] = "save_challenge" => who[q] # u
    BY <1>3 DEF CountInv, CountOK, OfAccount
  <2> QED
    BY <1>5, <2>1, <2>2 DEF Alone, OthersAlone, Registering
<1>10. ASSUME NEW q \in Goroutines \ {r}, who[q] = u PROVE CountOK(q)'
  <2>1. place[q] \notin Registering
    BY <1>1, <1>2, <1>10 DEF CountInv, Alone, Registering
  <2>2. place[q] \notin OfAccount
    BY <1>3, <1>10 DEF CountInv, CountOK
  <2> QED
    BY <1>5, <2>1, <2>2 DEF CountOK, OthersAlone, Registering, OfAccount
<1> QED
  BY <1>5, <1>6, <1>7, <1>8, <1>9, <1>10, ChangeCounts

(* Its challenge comes into being, at which nobody has guessed yet.        *)
LEMMA InsertChallengeCounts ==
    ASSUME MaxGuesses \in Nat \ {0}, Typed, CountInv, NEW r \in Goroutines, InsertChallenge(r)
    PROVE  CountInv'
<1>1. place[r] = "insert_challenge" /\ CountOK(r)
  BY DEF InsertChallenge, CountInv
<1>2. PICK u \in Users : u = who[r]
  BY <1>1 DEF CountOK, Registering
<1>3. guesses[u] = 0 /\ account[u].status # "none"
  BY <1>1, <1>2 DEF CountOK, OfAccount
<1>4. code' = [code EXCEPT ![u] = [status |-> "pending", attempts |-> 0, version |-> 1]]
  <2> DEFINE c == [status |-> "pending", attempts |-> 0, version |-> 0]
  <2>1. code' = [code EXCEPT ![u] = [c EXCEPT !.version = @ + 1]]
    BY <1>2 DEF InsertChallenge, SaveChallenge
  <2>2. [c EXCEPT !.version = @ + 1] = [status |-> "pending", attempts |-> 0, version |-> 1]
    OBVIOUS
  <2> QED
    BY <2>1, <2>2
<1>5. /\ OthersAlone(r) /\ place'[r] = "idle" /\ UNCHANGED <<account, guesses>>
      /\ DOMAIN user' = Goroutines /\ DOMAIN challenge' = Goroutines
  BY EndOfRequest DEF InsertChallenge, CountInv, history
<1>6. [status |-> "pending", attempts |-> 0, version |-> 1] \in ChallengeRecord
  BY DEF ChallengeRecord
<1>7. /\ CountTyped' /\ \A v \in Users \ {u} : code'[v] = code[v]
      /\ code'[u] = [status |-> "pending", attempts |-> 0, version |-> 1]
  BY <1>4, <1>5, <1>6 DEF CountInv, CountTyped
<1>8. CodeOK(u)'
  BY <1>3, <1>5, <1>7 DEF CodeOK
<1>9. CountOK(r)'
  BY <1>5 DEF CountOK, Registering, OfAccount
<1>10. \A q \in Goroutines \ {r} : Alone(q, r)' /\ Alone(r, q)'
  BY <1>5 DEF Alone, Registering
<1>11. ASSUME NEW q \in Goroutines \ {r}, who[q] = u PROVE CountOK(q)'
  <2>1. place[q] \notin Registering /\ place[q] # "save_challenge"
    BY <1>1, <1>2, <1>11 DEF CountInv, Alone, Registering
  <2>2. CountOK(q)
    BY DEF CountInv
  <2> QED
    BY <1>5, <2>1, <2>2 DEF CountOK, OthersAlone, Registering, OfAccount
<1> QED
  BY <1>5, <1>7, <1>8, <1>9, <1>10, <1>11, ChangeCounts

(* A guess is counted with the row it was compared with, or not made: the  *)
(* row is saved at the version that was read.                              *)
LEMMA GuessCounts ==
    ASSUME MaxGuesses \in Nat \ {0}, Typed, CountInv, NEW r \in Goroutines,
           NEW right \in BOOLEAN, SaveAttempt(r, right)
    PROVE  CountInv'
<1>1. place[r] = "save_challenge" /\ CountOK(r)
  BY DEF SaveAttempt, CountInv
<1>2. PICK u \in Users : u = who[r]
  BY <1>1 DEF CountOK, OfAccount
<1>3. PICK c \in ChallengeRecord : c = challenge[r]
  BY <1>1 DEF CountOK
<1>4. PICK made : made = Verify(c, right, late[r]).row
  OBVIOUS
<1>5. handler[r] = "confirm" /\ account[u].status # "none" /\ CodeOK(u) /\ guesses[u] \in Nat
  BY <1>1, <1>2 DEF CountOK, CountInv, CountTyped, OfAccount
<1>6. UNCHANGED account
  BY DEF SaveAttempt
<1>7. \/ /\ place'[r] = "idle"
      \/ /\ place'[r] = "find_user" /\ handler'[r] = "confirm" /\ who'[r] = u
  BY <1>2, <1>5 DEF SaveAttempt, EndHandler, Continue, Typed
<1>8. OthersAlone(r) /\ DOMAIN user' = Goroutines /\ DOMAIN challenge' = Goroutines
  <2>1. CASE EndHandler(r)
    BY <2>1, EndOfRequest DEF CountInv
  <2>2. CASE ~ EndHandler(r)
    BY <2>2 DEF SaveAttempt, Continue, OthersAlone, CountInv, CountTyped, Typed
  <2> QED
    BY <2>1, <2>2
<1>9. CountOK(r)'
  BY <1>5, <1>6, <1>7 DEF CountOK, Registering, OfAccount
<1>10. \A q \in Goroutines \ {r} : Alone(q, r)' /\ Alone(r, q)'
  BY <1>7 DEF Alone, Registering
<1>11. CASE UNCHANGED <<code, guesses>>
  BY <1>6, <1>8, <1>9, <1>10, <1>11, ReadingCounts
<1>12. CASE ~ UNCHANGED <<code, guesses>>
  <2>1. /\ code[u].version = c.version
        /\ code' = [code EXCEPT ![u] = [made EXCEPT !.version = @ + 1]]
        /\ guesses' = IF made = c THEN guesses ELSE [guesses EXCEPT ![u] = @ + 1]
    BY <1>2, <1>3, <1>4, <1>12 DEF SaveAttempt, CanSaveChallenge, SaveChallenge
  <2>2. code[u] = c /\ c.status # "none"
    BY <1>1, <1>2, <1>3, <2>1 DEF CountOK
  <2>3. /\ guesses[u] = c.attempts /\ c.attempts <= MaxGuesses
        /\ c.status = "pending" => c.attempts < MaxGuesses
    BY <1>5, <2>2 DEF CodeOK
  <2>4. /\ made \in ChallengeRecord /\ made.status # "none" /\ made.version = c.version
        /\ made.attempts = IF made = c THEN c.attempts ELSE c.attempts + 1
        /\ made.attempts <= MaxGuesses
        /\ made.status = "pending" => made.attempts < MaxGuesses
    BY <1>4, <2>2, <2>3, Verified
  <2>5. PICK saved \in ChallengeRecord :
           /\ code' = [code EXCEPT ![u] = saved]
           /\ saved.status = made.status /\ saved.attempts = made.attempts
           /\ saved.version = c.version + 1
    <3>1. PICK n \in Nat : n = made.version + 1
      BY <2>4 DEF ChallengeRecord
    <3>2. PICK saved : saved = [made EXCEPT !.version = n]
      OBVIOUS
    <3>3. /\ saved \in ChallengeRecord /\ saved.version = n
          /\ saved.status = made.status /\ saved.attempts = made.attempts
      BY <2>4, <3>2 DEF ChallengeRecord
    <3>4. code' = [code EXCEPT ![u] = saved]
      BY <2>1, <3>1, <3>2
    <3> QED
      BY <2>4, <3>1, <3>3, <3>4
  <2>6. PICK n \in Nat : n = made.attempts
    BY <2>4 DEF ChallengeRecord
  <2>7. guesses' = [guesses EXCEPT ![u] = n]
    BY <2>1, <2>3, <2>4, <2>6 DEF CountInv, CountTyped
  <2>8. /\ CountTyped' /\ code'[u] = saved /\ guesses'[u] = n
        /\ \A v \in Users \ {u} : code'[v] = code[v] /\ guesses'[v] = guesses[v]
    BY <1>6, <1>8, <2>5, <2>7 DEF CountInv, CountTyped
  <2>9. c.version \in Nat /\ saved.version # 0 /\ saved.version = c.version + 1
    BY <2>5 DEF ChallengeRecord
  <2>10. CodeOK(u)'
    BY <1>5, <1>6, <2>4, <2>5, <2>6, <2>8, <2>9 DEF CodeOK
  <2>11. ASSUME NEW q \in Goroutines \ {r}, who[q] = u PROVE CountOK(q)'
    <3>1. CountOK(q) /\ place[q] # "insert_challenge"
      BY <2>2, <2>11 DEF CountInv, CountOK
    <3>2. place[q] = "save_challenge" =>
             challenge[q].version \in Nat /\ challenge[q].version < saved.version
      BY <2>2, <2>9, <2>11, <3>1 DEF CountOK, ChallengeRecord
    <3>3. place[q] = "save_challenge" =>
             challenge[q].version <= saved.version /\ saved.version # challenge[q].version
      BY <2>9, <3>2
    <3> QED
      BY <1>6, <1>8, <2>8, <2>11, <3>1, <3>3
         DEF CountOK, OthersAlone, Registering, OfAccount
  <2> QED
    BY <1>6, <1>8, <1>9, <1>10, <2>8, <2>10, <2>11, ChangeCounts
<1> QED
  BY <1>11, <1>12

(* Blocks and roles leave the account in being.                            *)
LEMMA CommitUserCounts ==
    ASSUME Typed, CountInv, NEW r \in Goroutines, CommitUser(r)
    PROVE  CountInv'
<1>1. place[r] = "save_user" /\ CountOK(r)
  BY DEF CommitUser, CountInv
<1>2. PICK u \in Users : u = who[r]
  BY <1>1 DEF CountOK, OfAccount
<1>3. account[u].status # "none"
  BY <1>1, <1>2 DEF CountOK, OfAccount
<1>4. /\ OthersAlone(r) /\ place'[r] = "idle" /\ UNCHANGED <<code, guesses>>
      /\ DOMAIN user' = Goroutines /\ DOMAIN challenge' = Goroutines
  BY EndOfRequest DEF CommitUser, CountInv, history
<1>5. CASE UNCHANGED account
  BY <1>4, <1>5, LeavingCounts DEF Registering, OfAccount
<1>6. CASE ~ UNCHANGED account
  <2>1. PICK b : /\ b = ChangedAccount(handler[r], user[r]) /\ b # Null
                 /\ account' = [account EXCEPT ![u] = [b EXCEPT !.version = @ + 1]]
    BY <1>2, <1>6 DEF CommitUser, SaveUser
  <2>2. b \in AccountRecord /\ b.status # "none"
    BY <1>1, <2>1, ChangedExists DEF CountOK
  <2>3. PICK saved \in AccountRecord : /\ account' = [account EXCEPT ![u] = saved]
                                       /\ saved.status # "none"
    <3>1. PICK n \in Nat : n = b.version + 1
      BY <2>2 DEF AccountRecord
    <3>2. PICK saved : saved = [b EXCEPT !.version = n]
      OBVIOUS
    <3>3. saved \in AccountRecord /\ saved.status = b.status
      BY <2>2, <3>2 DEF AccountRecord
    <3>4. account' = [account EXCEPT ![u] = saved]
      BY <2>1, <3>1, <3>2
    <3> QED
      BY <2>2, <3>3, <3>4
  <2>4. /\ CountTyped' /\ account'[u] = saved
        /\ \A v \in Users \ {u} : account'[v] = account[v]
    BY <1>4, <2>3 DEF CountInv, CountTyped
  <2>5. CodeOK(u)'
    BY <1>4, <2>3, <2>4 DEF CountInv, CodeOK
  <2>6. CountOK(r)' /\ \A q \in Goroutines \ {r} : Alone(q, r)' /\ Alone(r, q)'
    BY <1>4 DEF CountOK, Alone, Registering, OfAccount
  <2>7. ASSUME NEW q \in Goroutines \ {r}, who[q] = u PROVE CountOK(q)'
    <3>1. CountOK(q) /\ place[q] # "insert_user"
      BY <1>3, <2>7 DEF CountInv, CountOK
    <3> QED
      BY <1>4, <2>3, <2>4, <2>7, <3>1 DEF CountOK, OthersAlone, Registering, OfAccount
  <2> QED
    BY <1>4, <2>4, <2>5, <2>6, <2>7, ChangeCounts
<1> QED
  BY <1>5, <1>6

(* A challenge that is deleted was read at another version.                *)
LEMMA DeleteCounts ==
    ASSUME Typed, CountInv, NEW u \in Users, DeleteExpiredChallenge(u)
    PROVE  CountInv'
<1>1. /\ code' = [code EXCEPT ![u] = NoChallenge]
      /\ UNCHANGED <<account, guesses, handler, place, who, user, challenge>>
  BY DEF DeleteExpiredChallenge, history, requestVars
<1>2. NoChallenge \in ChallengeRecord /\ NoChallenge.status = "none" /\ NoChallenge.version = 0
  BY DEF NoChallenge, ChallengeRecord
<1>3. /\ CountTyped' /\ code'[u] = NoChallenge
      /\ \A v \in Users \ {u} : code'[v] = code[v]
  BY <1>1, <1>2 DEF CountInv, CountTyped
<1>4. code[u].status # "none"
  BY DEF DeleteExpiredChallenge
<1>5. ASSUME NEW v \in Users PROVE CodeOK(v)'
  <2>1. CASE v = u
    BY <1>1, <1>2, <1>3, <1>4, <2>1 DEF CountInv, CodeOK
  <2>2. CASE v # u
    BY <1>1, <1>3, <2>2 DEF CountInv, CodeOK
  <2> QED
    BY <2>1, <2>2
<1>6. ASSUME NEW q \in Goroutines PROVE CountOK(q)'
  <2>1. CountOK(q)
    BY DEF CountInv
  <2>2. CASE who[q] = u
    BY <1>1, <1>2, <1>3, <1>4, <2>1, <2>2 DEF CountOK, Registering, OfAccount
  <2>3. CASE who[q] # u
    BY <1>1, <1>3, <2>1, <2>3 DEF CountOK, Registering, OfAccount
  <2> QED
    BY <2>2, <2>3
<1>7. \A p, q \in Goroutines : p # q => Alone(p, q)'
  BY <1>1 DEF CountInv, Alone
<1> QED
  BY <1>3, <1>5, <1>6, <1>7 DEF CountInv

-----------------------------------------------------------------------------
(* Nobody has guessed at anything.                                         *)
LEMMA NoGuessInitially == ASSUME MaxGuesses \in Nat \ {0}, IdentityInit PROVE CountInv
<1>1. NoAccount \in AccountRecord /\ NoAccount.status = "none"
  BY DEF NoAccount, AccountRecord, AccountStatuses
<1>2. NoChallenge \in ChallengeRecord /\ NoChallenge.status = "none" /\ NoChallenge.version = 0
  BY DEF NoChallenge, ChallengeRecord
<1> QED
  BY <1>1, <1>2 DEF IdentityInit, CountInv, CountTyped, CodeOK, CountOK, Alone, Registering, OfAccount

(* Every step of a request, and of time, keeps guesses and rows together.  *)
LEMMA CountInductive ==
    ASSUME MaxGuesses \in Nat \ {0}, Typed, CountInv, [IdentityNext]_identityVars
    PROVE  CountInv'
<1>1. ASSUME UNCHANGED <<account, code, guesses, handler, place, who, user, challenge>>
      PROVE  CountInv'
  BY <1>1 DEF CountInv, CountTyped, CodeOK, CountOK, Alone
<1>2. CASE UNCHANGED identityVars
  BY <1>1, <1>2 DEF identityVars, rows, history, requestVars
<1>3. ASSUME NEW s \in SessionIds, Lapse(s) PROVE CountInv'
  BY <1>1, <1>3 DEF Lapse, rows, history, requestVars
<1>4. ASSUME NEW u \in Users, RunOut(u) \/ DeleteExpiredChallenge(u) PROVE CountInv'
  BY <1>1, <1>4, DeleteCounts DEF RunOut, rows, history, requestVars
<1>5. ASSUME NEW r \in Goroutines, EndHandler(r), UNCHANGED <<account, code, guesses>>
      PROVE  CountInv'
  BY <1>5, EndOfRequest, LeavingCounts DEF CountInv, Registering, OfAccount
<1>6. ASSUME NEW r \in Goroutines, UNCHANGED <<account, code, guesses, challenge>>,
             OthersAlone(r), DOMAIN user' = Goroutines,
             place'[r] \notin Registering \cup OfAccount
      PROVE  CountInv'
  BY <1>6, LeavingCounts DEF CountInv, CountTyped
<1>7. ASSUME NEW r \in Goroutines, Stop(r) PROVE CountInv'
  BY <1>5, <1>7 DEF Stop, rows, history
<1>8. ASSUME NEW r \in Goroutines, Start(r) PROVE CountInv'
  <2>1. ASSUME NEW u \in Users,
               \/ StartBlock(r, u) \/ StartUnblock(r, u)
               \/ \E o \in {"grant", "withdraw"} : ChangeRole(r, u, o)
        PROVE  CountInv'
    BY <2>1, FindingCounts DEF StartBlock, StartUnblock, ChangeRole, rows, history
  <2>2. ASSUME NEW u \in Users, NEW s \in SessionIds, StartSignIn(r, u, s) PROVE CountInv'
    BY <1>6, <2>2 DEF StartSignIn, StartHandler, Continue, OthersAlone, Registering, OfAccount, Typed,
       CountInv, CountTyped, rows, history
  <2>3. ASSUME NEW t \in Tokens, StartRefresh(r, t) PROVE CountInv'
    BY <1>6, <2>3 DEF StartRefresh, StartHandler, Continue, OthersAlone, Registering, OfAccount, Typed,
       CountInv, CountTyped, rows, history
  <2>4. ASSUME NEW s \in SessionIds, StartRevoke(r, s) PROVE CountInv'
    BY <1>6, <2>4 DEF StartRevoke, StartHandler, Continue, OthersAlone, Registering, OfAccount, Typed,
       CountInv, CountTyped, rows, history
  <2> QED
    BY <1>8, <2>1, <2>2, <2>3, <2>4, RegisterCounts, ConfirmCounts DEF Start
<1>9. ASSUME NEW r \in Goroutines, Proceed(r) PROVE CountInv'
  <2>1. CASE InsertSession(r) \/ CommitRefresh(r) \/ CommitRevoke(r) \/ Consumed(r)
    BY <1>5, <2>1 DEF InsertSession, CommitRefresh, CommitRevoke, Consumed, rows, history
  <2>2. CASE FindOwner(r)
    BY <1>6, <2>2 DEF FindOwner, Continue, OthersAlone, Registering, OfAccount, Typed,
       CountInv, CountTyped, rows, history
  <2>3. CASE FindNext(r)
    BY <1>6, <2>3 DEF FindNext, Continue, OthersAlone, Registering, OfAccount, Typed,
       CountInv, CountTyped, rows, history
  <2>4. CASE SaveNext(r)
    <3>1. UNCHANGED <<account, code, guesses>>
      BY <2>4 DEF SaveNext, history
    <3>2. CASE EndHandler(r)
      BY <1>5, <3>1, <3>2
    <3>3. CASE ~ EndHandler(r)
      <4>1. Continue(r, "each") /\ UNCHANGED <<handler, who, user, challenge>>
        BY <2>4, <3>3 DEF SaveNext, Conflict
      <4> QED
        BY <1>6, <3>1, <4>1 DEF Continue, OthersAlone, Registering, OfAccount, Typed,
           CountInv, CountTyped
    <3> QED
      BY <3>2, <3>3
  <2> QED
    BY <1>9, <2>1, <2>2, <2>3, <2>4, InsertUserCounts, InsertChallengeCounts, RereadCounts,
       CommitUserCounts, GuessCounts DEF Proceed
<1>10. ASSUME NEW r \in Goroutines, NEW u \in Users, ConsumeBlock(r, u) PROVE CountInv'
  BY <1>6, <1>10 DEF ConsumeBlock, StartHandler, Continue, OthersAlone, Registering, OfAccount, Typed,
     CountInv, CountTyped, rows, history
<1> QED
  BY <1>2, <1>3, <1>4, <1>7, <1>8, <1>9, <1>10 DEF IdentityNext

(* No more secrets are tried against a challenge than the policy allows,   *)
(* and of requests that present one refresh token, at the same time or one *)
(* after the other, at most one is given another token for it              *)
(* (confirm_email.go, refresh_session.go): a guess and a rotation are      *)
(* saved at the version that was read.                                     *)
THEOREM AlwaysSecretsSpent ==
    ASSUME MaxGuesses \in Nat \ {0}
    PROVE  IdentitySpec => []SecretsSpent
<1>1. IdentityInit => CountInv
  BY NoGuessInitially
<1>2. SessionsInv /\ CountInv /\ [IdentityNext]_identityVars => CountInv'
  BY CountInductive DEF SessionsInv
<1>3. SessionsInv /\ CountInv => SecretsSpent
  BY DEF SessionsInv, CountInv, CodeOK, SecretsSpent, GuessesBounded
<1> QED
  BY <1>1, <1>2, <1>3, SessionsInvariance, PTL DEF IdentitySpec
=============================================================================
