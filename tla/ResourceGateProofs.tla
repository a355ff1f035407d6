------------------------- MODULE ResourceGateProofs -------------------------
(***************************************************************************)
(* For any number of callers and any sizes of the semaphores: no slot is   *)
(* lost or used twice, and the order of the classes rules out a deadlock.  *)
(***************************************************************************)
EXTENDS ResourceGate, FiniteSetTheorems, TLAPS

LEMMA TypeInductive == ASSUME TypeOK, [Next]_vars PROVE TypeOK'
<1> USE DEF TypeOK, Stage
<1>1. ASSUME NEW c \in Callers, NEW classes \in SUBSET Classes, Request(c, classes)
      PROVE  TypeOK'
  BY <1>1 DEF Request
<1>2. ASSUME NEW c \in Callers, NEW k \in Classes, Take(c, k) PROVE TypeOK'
  BY <1>2 DEF Take
<1>3. ASSUME NEW c \in Callers, NEW k \in Classes, TimeOut(c, k) PROVE TypeOK'
  BY <1>3 DEF TimeOut
<1>4. ASSUME NEW c \in Callers, NEW k \in Classes, GiveBack(c, k) PROVE TypeOK'
  BY <1>4 DEF GiveBack
<1>5. ASSUME NEW c \in Callers, Expire(c) \/ Finish(c) PROVE TypeOK'
  BY <1>5 DEF Expire, Finish
<1>6. CASE UNCHANGED vars
  BY <1>6 DEF vars
<1> QED BY <1>1, <1>2, <1>3, <1>4, <1>5, <1>6 DEF Next

LEMMA OrderInductive == ASSUME IInv, [Next]_vars PROVE HeldInOrder'
<1> USE DEF IInv, TypeOK, HeldInOrder
<1>1. ASSUME NEW c \in Callers, NEW classes \in SUBSET Classes, Request(c, classes)
      PROVE  HeldInOrder'
  BY <1>1 DEF Request, SlotsConserved
<1>2. ASSUME NEW c \in Callers, NEW k \in Classes, Take(c, k) PROVE HeldInOrder'
  <2>1. /\ stage[c] = "acquiring" /\ k \in want[c] \ held[c]
        /\ \A other \in want[c] \ held[c] : RESOURCE_ORDER[k] <= RESOURCE_ORDER[other]
        /\ held' = [held EXCEPT ![c] = @ \cup {k}] /\ UNCHANGED want
        /\ stage' = [stage EXCEPT ![c] = IF held'[c] = want[c] THEN "using" ELSE @]
    BY <1>2 DEF Take, NextClass
  <2>2. \A other \in Classes \ {k} : RESOURCE_ORDER[k] # RESOURCE_ORDER[other]
    BY DEF RESOURCE_ORDER, Classes
  <2>3. \A other \in (want[c] \ held[c]) \ {k} : RESOURCE_ORDER[k] < RESOURCE_ORDER[other]
    BY <2>1, <2>2 DEF RESOURCE_ORDER, Classes
  <2>4. held'[c] = held[c] \cup {k}
    BY <2>1
  <2>5. ASSUME NEW d \in Callers \ {c}
        PROVE  held'[d] = held[d] /\ stage'[d] = stage[d] /\ want'[d] = want[d]
    BY <2>1
  <2>6. stage'[c] = IF held'[c] = want[c] THEN "using" ELSE "acquiring"
    BY <2>1
  <2> QED BY <2>1, <2>3, <2>4, <2>5, <2>6
<1>3. ASSUME NEW c \in Callers, NEW k \in Classes, TimeOut(c, k) PROVE HeldInOrder'
  BY <1>3 DEF TimeOut
<1>4. ASSUME NEW c \in Callers, NEW k \in Classes, GiveBack(c, k) PROVE HeldInOrder'
  BY <1>4 DEF GiveBack
<1>5. ASSUME NEW c \in Callers, Expire(c) \/ Finish(c) PROVE HeldInOrder'
  BY <1>5 DEF Expire, Finish
<1>6. CASE UNCHANGED vars
  BY <1>6 DEF vars
<1> QED BY <1>1, <1>2, <1>3, <1>4, <1>5, <1>6 DEF Next

(* A slot moves between the semaphore and exactly one holder. *)
LEMMA HoldersFinite == \A k \in Classes : IsFiniteSet(Holders(k)) /\ Cardinality(Holders(k)) \in Nat
BY GateAssumption, FS_Subset, FS_CardinalityType DEF Holders

LEMMA SlotsInductive == ASSUME IInv, [Next]_vars PROVE SlotsConserved'
<1> USE DEF IInv, TypeOK
<1> DEFINE Sum(k) == free[k] + Cardinality(Holders(k)) = Limit[k]
           Idle(c) == stage[c] = "idle" => held[c] = {}
<1>1. ASSUME NEW c \in Callers, NEW k \in Classes, Take(c, k) PROVE SlotsConserved'
  <2>1. /\ k \notin held[c] /\ free[k] > 0 /\ stage[c] = "acquiring"
        /\ held' = [held EXCEPT ![c] = @ \cup {k}]
        /\ free' = [free EXCEPT ![k] = @ - 1]
        /\ stage' = [stage EXCEPT ![c] = IF held'[c] = want[c] THEN "using" ELSE @]
    BY <1>1 DEF Take, NextClass
  <2>2. Holders(k)' = Holders(k) \cup {c} /\ c \notin Holders(k)
    BY <2>1 DEF Holders
  <2>3. Cardinality(Holders(k)') = Cardinality(Holders(k)) + 1
    BY <2>2, HoldersFinite, FS_AddElement
  <2>4. \A other \in Classes \ {k} : Holders(other)' = Holders(other)
    BY <2>1 DEF Holders
  <2>5. \A i \in Classes : Sum(i)'
    BY <2>1, <2>3, <2>4, HoldersFinite, GateAssumption DEF SlotsConserved
  <2>6. \A d \in Callers : Idle(d)'
    BY <2>1 DEF SlotsConserved
  <2> QED BY <2>5, <2>6 DEF SlotsConserved
<1>2. ASSUME NEW c \in Callers, NEW k \in Classes, GiveBack(c, k) PROVE SlotsConserved'
  <2>1. /\ k \in held[c] /\ stage[c] # "idle"
        /\ held' = [held EXCEPT ![c] = @ \ {k}]
        /\ free' = [free EXCEPT ![k] = @ + 1]
        /\ stage' = [stage EXCEPT ![c] = IF held'[c] = {} THEN "idle" ELSE @]
    BY <1>2 DEF GiveBack, LastClass
  <2>2. Holders(k)' = Holders(k) \ {c} /\ c \in Holders(k)
    BY <2>1 DEF Holders
  <2>3. Cardinality(Holders(k)') = Cardinality(Holders(k)) - 1
    BY <2>2, HoldersFinite, FS_RemoveElement
  <2>4. \A other \in Classes \ {k} : Holders(other)' = Holders(other)
    BY <2>1 DEF Holders
  <2>5. \A i \in Classes : Sum(i)'
    BY <2>1, <2>3, <2>4, HoldersFinite, GateAssumption DEF SlotsConserved
  <2>6. \A d \in Callers : Idle(d)'
    BY <2>1 DEF SlotsConserved
  <2> QED BY <2>5, <2>6 DEF SlotsConserved
<1>3. ASSUME UNCHANGED <<held, free>>,
             \A c \in Callers : stage'[c] = "idle" => held[c] = {}
      PROVE  SlotsConserved'
  BY <1>3 DEF SlotsConserved, Holders
<1>4. ASSUME NEW c \in Callers, NEW classes \in SUBSET Classes, Request(c, classes)
      PROVE  SlotsConserved'
  BY <1>3, <1>4 DEF Request, SlotsConserved
<1>5. ASSUME NEW c \in Callers, NEW k \in Classes, TimeOut(c, k) PROVE SlotsConserved'
  BY <1>3, <1>5 DEF TimeOut, SlotsConserved
<1>6. ASSUME NEW c \in Callers, Expire(c) \/ Finish(c) PROVE SlotsConserved'
  BY <1>3, <1>6 DEF Expire, Finish, SlotsConserved
<1>7. CASE UNCHANGED vars
  BY <1>3, <1>7 DEF vars, SlotsConserved
<1> QED BY <1>1, <1>2, <1>4, <1>5, <1>6, <1>7 DEF Next

-----------------------------------------------------------------------------

(* A nonempty set of classes has a first and a last one. *)
LEMMA ClassesOrdered ==
  ASSUME NEW S \in SUBSET Classes, S # {}
  PROVE  /\ \E k \in S : \A other \in S : RESOURCE_ORDER[k] <= RESOURCE_ORDER[other]
         /\ \E k \in S : \A other \in S : RESOURCE_ORDER[other] <= RESOURCE_ORDER[k]
<1>1. \E k \in S : \A other \in S : RESOURCE_ORDER[k] <= RESOURCE_ORDER[other]
  <2>1. CASE "license" \in S
    BY <2>1 DEF Classes, RESOURCE_ORDER
  <2>2. CASE "license" \notin S /\ "aedt" \in S
    BY <2>2 DEF Classes, RESOURCE_ORDER
  <2>3. CASE "license" \notin S /\ "aedt" \notin S
    <3>1. S = {"cpu"}
      BY <2>3 DEF Classes
    <3> QED BY <3>1 DEF RESOURCE_ORDER
  <2> QED BY <2>1, <2>2, <2>3
<1>2. \E k \in S : \A other \in S : RESOURCE_ORDER[other] <= RESOURCE_ORDER[k]
  <2>1. CASE "cpu" \in S
    BY <2>1 DEF Classes, RESOURCE_ORDER
  <2>2. CASE "cpu" \notin S /\ "aedt" \in S
    BY <2>2 DEF Classes, RESOURCE_ORDER
  <2>3. CASE "cpu" \notin S /\ "aedt" \notin S
    <3>1. S = {"license"}
      BY <2>3 DEF Classes
    <3> QED BY <3>1 DEF RESOURCE_ORDER
  <2> QED BY <2>1, <2>2, <2>3
<1> QED BY <1>1, <1>2

(* If nobody can go on, the holder of an exhausted class waits for a later  *)
(* one that is exhausted too.                                               *)
LEMMA WaitsHigher ==
  ASSUME IInv, \A c \in Callers : ~CanProceed(c), NEW k \in Classes, free[k] = 0
  PROVE  \E m \in Classes : RESOURCE_ORDER[k] < RESOURCE_ORDER[m] /\ free[m] = 0
<1> USE DEF IInv, TypeOK
<1>1. Holders(k) # {}
  <2>1. Cardinality(Holders(k)) # 0
    BY GateAssumption DEF SlotsConserved
  <2> QED BY <2>1, HoldersFinite, FS_EmptySet
<1>2. PICK c \in Callers : k \in held[c]
  BY <1>1 DEF Holders
<1>3. stage[c] = "acquiring"
  <2>1. stage[c] # "idle"
    BY <1>2 DEF SlotsConserved
  <2>2. \E i \in Classes : LastClass(c, i)
    BY <1>2, ClassesOrdered DEF LastClass
  <2> QED BY <2>1, <2>2 DEF CanProceed, Stage
<1>4. want[c] \ held[c] # {}
  BY <1>3 DEF HeldInOrder
<1>5. PICK m \in Classes : NextClass(c, m)
  BY <1>4, ClassesOrdered DEF NextClass
<1>6. free[m] = 0
  BY <1>3, <1>5 DEF CanProceed
<1>7. RESOURCE_ORDER[k] < RESOURCE_ORDER[m]
  BY <1>2, <1>3, <1>5 DEF HeldInOrder, NextClass
<1> QED BY <1>6, <1>7

LEMMA OrderExcludesCircle == IInv => NoCircularWait
<1> SUFFICES ASSUME IInv, NEW c \in Callers, stage[c] = "acquiring",
                    \A d \in Callers : ~CanProceed(d)
             PROVE  FALSE
  BY DEF NoCircularWait
<1>1. PICK k \in Classes : NextClass(c, k)
  BY ClassesOrdered DEF IInv, TypeOK, HeldInOrder, NextClass
<1>2. free[k] = 0
  BY <1>1 DEF CanProceed, IInv, TypeOK
<1>3. PICK l \in Classes : RESOURCE_ORDER[k] < RESOURCE_ORDER[l] /\ free[l] = 0
  BY <1>2, WaitsHigher
<1>4. PICK m \in Classes : RESOURCE_ORDER[l] < RESOURCE_ORDER[m] /\ free[m] = 0
  BY <1>3, WaitsHigher
<1>5. \E n \in Classes : RESOURCE_ORDER[m] < RESOURCE_ORDER[n]
  BY <1>4, WaitsHigher
<1> QED BY <1>3, <1>4, <1>5 DEF RESOURCE_ORDER, Classes

-----------------------------------------------------------------------------

LEMMA InvInit == Init => IInv
<1> SUFFICES ASSUME Init PROVE IInv
  OBVIOUS
<1>1. \A k \in Classes : Holders(k) = {}
  BY DEF Init, Holders
<1>2. TypeOK /\ HeldInOrder
  BY GateAssumption DEF Init, TypeOK, HeldInOrder, Stage
<1>3. SlotsConserved
  BY <1>1, FS_EmptySet, GateAssumption DEF Init, SlotsConserved
<1> QED BY <1>2, <1>3 DEF IInv

THEOREM Invariance == Spec => []IInv
<1>1. IInv /\ [Next]_vars => IInv'
  BY TypeInductive, OrderInductive, SlotsInductive DEF IInv
<1> QED BY InvInit, <1>1, PTL DEF Spec

(* No slot is lost, duplicated or kept by a caller that has returned. *)
THEOREM Conservation == Spec => []SlotsConserved
<1>1. IInv => SlotsConserved
  BY DEF IInv
<1> QED BY <1>1, Invariance, PTL

(* The callers never wait for each other in a circle. *)
THEOREM DeadlockFreedom == Spec => []NoCircularWait
BY OrderExcludesCircle, Invariance, PTL
=============================================================================
