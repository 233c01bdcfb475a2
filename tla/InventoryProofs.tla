-------------------------- MODULE InventoryProofs --------------------------
(***************************************************************************)
(* Part 1 proves Inventory for every set of SKUs, warehouses and            *)
(* reservations and for every bound: type correctness, and that the         *)
(* counters of a stock row agree with the reservation table and with the    *)
(* movement ledger.  The strengthening IInv adds to TypeOK and the three    *)
(* state invariants that an ACTIVE reservation holds at least one unit; the *)
(* facts about HeldUnits that a step needs are lemmas about two reservation *)
(* tables.                                                                  *)
(*                                                                          *)
(* Part 2 proves InventoryTx, statement by statement, for every number of   *)
(* sessions and every table:                                                *)
(*                                                                          *)
(*   TypeInv, LocksInv   a session that reads or writes a row holds its     *)
(*                       advisory lock, and a lock has one holder: the      *)
(*                       compare-and-set on `version` never loses, however  *)
(*                       many calls a transaction makes and whatever keys   *)
(*                       hash to one lock.                                  *)
(*   SingleInv           what a transaction of one call has written so far  *)
(*                       is its plan over the committed rows: when it       *)
(*                       commits, the tables make one step of Inventory.    *)
(*   AscendingInv        a session waits only for locks after all those it  *)
(*                       holds: no circle of sessions waits for itself.     *)
(*                                                                          *)
(* The last two are about MaxCalls = 1.  With two calls the second takes    *)
(* its locks while the first holds its own: MCInventoryTxCapture.cfg shows  *)
(* the deadlock that the capture of an order can meet.                      *)
(*                                                                          *)
(* Part 3 proves that the lines of purchase receipts, which are sorted,     *)
(* cannot meet it, however many calls a transaction makes:                  *)
(*                                                                          *)
(*   ClimbingInv         the rows a session has locked are also before      *)
(*                       those of all its calls to come.                    *)
(***************************************************************************)
EXTENDS Inventory, InventoryTx, FiniteSetTheorems, WellFoundedInduction, TLAPS

(* The units of one reservation. *)
UnitsOf(r, q) == {r} \X (1 .. q)

LEMMA UnitsOfCardinality ==
  ASSUME NEW r, NEW q \in Nat
  PROVE  IsFiniteSet(UnitsOf(r, q)) /\ Cardinality(UnitsOf(r, q)) = q
<1>1. IsFiniteSet({r}) /\ Cardinality({r}) = 1
  BY FS_Singleton
<1>2. IsFiniteSet(1 .. q) /\ Cardinality(1 .. q) = q
  BY FS_Interval
<1>3. Cardinality(UnitsOf(r, q)) = Cardinality({r}) * Cardinality(1 .. q)
  BY <1>1, <1>2, FS_Product DEF UnitsOf
<1>4. IsFiniteSet(UnitsOf(r, q))
  BY <1>1, <1>2, FS_Product DEF UnitsOf
<1> QED
  BY <1>1, <1>2, <1>3, <1>4

(* An ACTIVE reservation holds something: coalesce rejects a line of zero. *)
ActiveHolds ==
    \A r \in Res : res[r].status = "ACTIVE" => res[r].qty >= 1

IInv ==
    /\ TypeOK
    /\ HeldIsReserved
    /\ NoOversell
    /\ LedgerExplainsLevel
    /\ ActiveHolds

-----------------------------------------------------------------------------
(* What one step does to the units held.                                   *)

(* Units of one reservation are held on its row as long as it is ACTIVE. *)
LEMMA ActiveUnitsHeld ==
  ASSUME TypeOK, HeldIsReserved, NEW r \in Res, res[r].status = "ACTIVE"
  PROVE  /\ res[r].key \in Key
         /\ res[r].qty \in Nat
         /\ UnitsOf(r, res[r].qty) \subseteq HeldUnits(res[r].key)
         /\ res[r].qty <= reserved[res[r].key]
<1>1. res[r].key \in Key /\ res[r].qty \in Nat
  BY DEF TypeOK, Reservation
<1>2. r \in ActiveOn(res[r].key)
  BY DEF ActiveOn
<1>3. UnitsOf(r, res[r].qty) \subseteq HeldUnits(res[r].key)
  BY <1>2 DEF HeldUnits, UnitsOf
<1>4. /\ IsFiniteSet(HeldUnits(res[r].key))
      /\ reserved[res[r].key] = Cardinality(HeldUnits(res[r].key))
  BY <1>1 DEF HeldIsReserved
<1>5. Cardinality(UnitsOf(r, res[r].qty)) <= Cardinality(HeldUnits(res[r].key))
  BY <1>3, <1>4, FS_Subset
<1>6. Cardinality(UnitsOf(r, res[r].qty)) = res[r].qty
  BY <1>1, UnitsOfCardinality
<1> QED
  BY <1>1, <1>3, <1>4, <1>5, <1>6

(* Finishing r takes exactly the units of r away from the row of r. *)
LEMMA FinishHeld ==
  ASSUME TypeOK, HeldIsReserved,
         NEW r \in Res, res[r].status = "ACTIVE",
         NEW t \in Terminal, res' = [res EXCEPT ![r].status = t],
         NEW k \in Key
  PROVE  /\ IsFiniteSet(HeldUnits(k)')
         /\ Cardinality(HeldUnits(k)') =
              IF k = res[r].key THEN reserved[k] - res[r].qty ELSE reserved[k]
<1> DEFINE U == UnitsOf(r, res[r].qty)
<1>0. res \in [Res -> Reservation] /\ t # "ACTIVE"
  BY DEF TypeOK, Terminal
<1>1. \A x \in Res : /\ res'[x].key = res[x].key
                     /\ res'[x].qty = res[x].qty
                     /\ res'[x].status = IF x = r THEN t ELSE res[x].status
  BY <1>0 DEF Reservation
<1>2. IsFiniteSet(HeldUnits(k)) /\ reserved[k] = Cardinality(HeldUnits(k))
  BY DEF HeldIsReserved
<1>3. CASE k = res[r].key
  <2>1. ActiveOn(k)' = ActiveOn(k) \ {r}
    BY <1>0, <1>1 DEF ActiveOn
  <2>2. HeldUnits(k)' = HeldUnits(k) \ U
    <3>1. \A x \in ActiveOn(k)' : res'[x].qty = res[x].qty
      BY <1>1 DEF ActiveOn
    <3>2. HeldUnits(k)' = UNION {{x} \X (1 .. res[x].qty) : x \in ActiveOn(k)'}
      BY <3>1 DEF HeldUnits
    <3> QED
      BY <2>1, <3>2 DEF HeldUnits, UnitsOf
  <2>3. U \subseteq HeldUnits(k) /\ res[r].qty \in Nat
    BY <1>3, ActiveUnitsHeld
  <2>4. HeldUnits(k) \cap U = U
    BY <2>3
  <2>5. Cardinality(U) = res[r].qty
    BY <2>3, UnitsOfCardinality
  <2> HIDE DEF U
  <2>6. /\ IsFiniteSet(HeldUnits(k) \ U)
        /\ Cardinality(HeldUnits(k) \ U)
             = Cardinality(HeldUnits(k)) - Cardinality(HeldUnits(k) \cap U)
    BY <1>2, FS_Difference
  <2> QED
    BY <1>2, <1>3, <2>2, <2>4, <2>5, <2>6
<1>4. CASE k # res[r].key
  <2>1. ActiveOn(k)' = ActiveOn(k)
    BY <1>0, <1>1, <1>4 DEF ActiveOn
  <2>2. \A x \in ActiveOn(k) : res'[x].qty = res[x].qty
    BY <1>1 DEF ActiveOn
  <2>3. HeldUnits(k)' = HeldUnits(k)
    BY <2>1, <2>2 DEF HeldUnits
  <2> QED
    BY <1>2, <1>4, <2>3
<1> QED
  BY <1>3, <1>4

(* Tables that agree on the reservations hold the same units. *)
LEMMA SameHeld ==
  ASSUME res' = res, NEW k \in Key
  PROVE  HeldUnits(k)' = HeldUnits(k)
BY DEF HeldUnits, ActiveOn

(* A reservation created for row k adds its units to k and to no other row. *)
LEMMA ReserveHeld ==
  ASSUME TypeOK, HeldIsReserved,
         NEW demand \in Demands, NEW ids \in [DOMAIN demand -> Res],
         ReserveMany(demand, ids), NEW k \in Key
  PROVE  /\ IsFiniteSet(HeldUnits(k)')
         /\ Cardinality(HeldUnits(k)') =
              IF k \in DOMAIN demand THEN reserved[k] + demand[k] ELSE reserved[k]
<1>1. PICK K \in SUBSET Key : demand \in [K -> Qty]
  BY DEF Demands
<1>2. DOMAIN demand = K
  BY <1>1
<1>3. \A j \in K : ids[j] \in Res /\ res[ids[j]].status = "NONE"
  BY <1>2 DEF ReserveMany
<1>4. \A j, i \in K : ids[j] = ids[i] => j = i
  BY <1>2 DEF ReserveMany
<1>5. \A j \in K : /\ res'[ids[j]].status = "ACTIVE"
                   /\ res'[ids[j]].key = j
                   /\ res'[ids[j]].qty = demand[j]
  <2>1. TAKE j \in K
  <2>2. \A i \in DOMAIN demand : ids[i] = ids[j] => i = j
    BY <1>2, <1>4
  <2>3. (CHOOSE i \in DOMAIN demand : ids[i] = ids[j]) = j
    BY <1>2, <2>2
  <2>4. res'[ids[j]] = [status |-> "ACTIVE", key |-> j, qty |-> demand[j]]
    BY <1>2, <1>3, <2>3 DEF ReserveMany
  <2> QED
    BY <2>4
<1>6. \A r \in Res : (~ \E j \in K : ids[j] = r) => res'[r] = res[r]
  BY <1>2 DEF ReserveMany
<1>7. IsFiniteSet(HeldUnits(k)) /\ reserved[k] = Cardinality(HeldUnits(k))
  BY DEF HeldIsReserved
<1>8. \A r \in ActiveOn(k) : r \in ActiveOn(k)' /\ res'[r] = res[r]
  <2>1. TAKE r \in ActiveOn(k)
  <2>2. ~ \E j \in K : ids[j] = r
    BY <1>3 DEF ActiveOn
  <2> QED
    BY <1>6, <2>2 DEF ActiveOn
<1>9. CASE k \in K
  <2> DEFINE U == UnitsOf(ids[k], demand[k])
  <2>1. ActiveOn(k)' = ActiveOn(k) \cup {ids[k]}
    <3>1. ids[k] \in ActiveOn(k)'
      BY <1>3, <1>5, <1>9 DEF ActiveOn
    <3>2. ASSUME NEW r \in ActiveOn(k)', r # ids[k]
          PROVE  r \in ActiveOn(k)
      <4>1. r \in Res /\ res'[r].status = "ACTIVE" /\ res'[r].key = k
        BY DEF ActiveOn
      <4>2. ~ \E j \in K : ids[j] = r
        BY <1>5, <3>2, <4>1
      <4> QED
        BY <1>6, <4>1, <4>2 DEF ActiveOn
    <3> QED
      BY <1>8, <3>1, <3>2
  <2>2. HeldUnits(k)' = HeldUnits(k) \cup U
    <3>1. HeldUnits(k)' = UNION {{r} \X (1 .. res'[r].qty) : r \in ActiveOn(k)'}
      BY DEF HeldUnits
    <3>2. res'[ids[k]].qty = demand[k]
      BY <1>5, <1>9
    <3>3. \A r \in ActiveOn(k) : res'[r].qty = res[r].qty
      BY <1>8
    <3> QED
      BY <2>1, <3>1, <3>2, <3>3 DEF HeldUnits, UnitsOf
  <2>3. demand[k] \in Nat
    BY <1>1, <1>9, InventoryAssumption DEF Qty
  <2>4. IsFiniteSet(U) /\ Cardinality(U) = demand[k]
    BY <2>3, UnitsOfCardinality
  <2>5. HeldUnits(k) \cap U = {}
    BY <1>3, <1>9 DEF HeldUnits, ActiveOn, UnitsOf
  <2> HIDE DEF U
  <2>6. /\ IsFiniteSet(HeldUnits(k) \cup U)
        /\ Cardinality(HeldUnits(k) \cup U) = Cardinality(HeldUnits(k))
             + Cardinality(U) - Cardinality(HeldUnits(k) \cap U)
    BY <1>7, <2>4, FS_Union
  <2>7. Cardinality(HeldUnits(k) \cap U) = 0
    BY <2>5, FS_EmptySet
  <2>8. Cardinality(HeldUnits(k)) \in Nat
    BY <1>7, FS_CardinalityType
  <2> QED
    BY <1>2, <1>7, <1>9, <2>2, <2>3, <2>4, <2>6, <2>7, <2>8
<1>10. CASE k \notin K
  <2>1. ActiveOn(k)' = ActiveOn(k)
    <3>1. ASSUME NEW r \in ActiveOn(k)'
          PROVE  r \in ActiveOn(k)
      <4>1. r \in Res /\ res'[r].status = "ACTIVE" /\ res'[r].key = k
        BY DEF ActiveOn
      <4>2. ~ \E j \in K : ids[j] = r
        BY <1>5, <1>10, <4>1
      <4> QED
        BY <1>6, <4>1, <4>2 DEF ActiveOn
    <3> QED
      BY <1>8, <3>1
  <2>2. HeldUnits(k)' = HeldUnits(k)
    BY <1>8, <2>1 DEF HeldUnits
  <2> QED
    BY <1>2, <1>7, <1>10, <2>2
<1> QED
  BY <1>9, <1>10

-----------------------------------------------------------------------------
(* The inductive invariant, one lemma for each kind of step.               *)

LEMMA InitIInv == Init => IInv
<1> SUFFICES ASSUME Init PROVE IInv
  OBVIOUS
<1>1. TypeOK
  <2>1. NoReservation \in Reservation
    BY InventoryAssumption DEF NoReservation, Reservation
  <2> QED
    BY <2>1 DEF Init, TypeOK, NoMovement, Movements
<1>2. \A k \in Key : HeldUnits(k) = {}
  BY DEF Init, HeldUnits, ActiveOn, NoReservation
<1>3. HeldIsReserved
  BY <1>2, FS_EmptySet DEF Init, HeldIsReserved
<1>4. NoOversell /\ LedgerExplainsLevel /\ ActiveHolds
  BY DEF Init, NoOversell, LedgerExplainsLevel, ActiveHolds, NoMovement, NoReservation
<1> QED
  BY <1>1, <1>3, <1>4 DEF IInv

(* A step that leaves the reservation table and `reserved` alone. *)
LEMMA LevelStepHeld ==
  ASSUME HeldIsReserved, UNCHANGED <<reserved, res>>
  PROVE  HeldIsReserved'
<1>1. \A k \in Key : HeldUnits(k)' = HeldUnits(k)
  BY SameHeld
<1> QED
  BY <1>1 DEF HeldIsReserved

LEMMA SeedIInv ==
  ASSUME IInv, NEW s \in Sku, NEW W \in SUBSET Warehouse, SeedLevels(s, W)
  PROVE  IInv'
<1>1. HeldIsReserved'
  BY LevelStepHeld DEF IInv, SeedLevels
<1>2. TypeOK'
  BY DEF IInv, TypeOK, SeedLevels, Key
<1>3. NoOversell' /\ LedgerExplainsLevel' /\ ActiveHolds'
  BY DEF IInv, NoOversell, LedgerExplainsLevel, ActiveHolds, SeedLevels
<1> QED
  BY <1>1, <1>2, <1>3 DEF IInv

LEMMA RestockIInv ==
  ASSUME IInv, NEW k \in Key, NEW q \in Qty, Restock(k, q) \/ ReceiveStock(k, q)
  PROVE  IInv'
<1>0. q \in Nat /\ TypeOK /\ onHand[k] \in Nat
  BY InventoryAssumption DEF IInv, TypeOK, Qty
<1>1. HeldIsReserved'
  BY LevelStepHeld DEF IInv, Restock, ReceiveStock
<1>2. TypeOK'
  BY <1>0 DEF TypeOK, Restock, ReceiveStock, WriteMovement, Movements
<1>3. NoOversell'
  BY <1>0 DEF IInv, TypeOK, NoOversell, Restock, ReceiveStock
<1>4. LedgerExplainsLevel'
  BY <1>0 DEF IInv, TypeOK, LedgerExplainsLevel, Restock, ReceiveStock, WriteMovement
<1>5. ActiveHolds'
  BY DEF IInv, ActiveHolds, Restock, ReceiveStock
<1> QED
  BY <1>1, <1>2, <1>3, <1>4, <1>5 DEF IInv

LEMMA AdjustIInv ==
  ASSUME IInv, NEW k \in Key, NEW delta \in -MaxQty .. MaxQty, Adjust(k, delta)
  PROVE  IInv'
<1>0. delta \in Int /\ TypeOK /\ onHand[k] + delta \in Nat
  BY InventoryAssumption DEF IInv, TypeOK, Adjust
<1>1. HeldIsReserved'
  BY LevelStepHeld DEF IInv, Adjust
<1>2. TypeOK'
  BY <1>0 DEF TypeOK, Adjust, WriteMovement, Movements
<1>3. NoOversell'
  BY <1>0 DEF IInv, TypeOK, NoOversell, Adjust
<1>4. LedgerExplainsLevel'
  BY <1>0 DEF IInv, TypeOK, LedgerExplainsLevel, Adjust, WriteMovement
<1>5. ActiveHolds'
  BY DEF IInv, ActiveHolds, Adjust
<1> QED
  BY <1>1, <1>2, <1>3, <1>4, <1>5 DEF IInv

LEMMA TransferIInv ==
  ASSUME IInv, NEW s \in Sku, NEW from \in Warehouse, NEW to \in Warehouse,
         NEW q \in Qty, Transfer(s, from, to, q)
  PROVE  IInv'
<1> DEFINE src == <<s, from>>  dst == <<s, to>>
<1>0. /\ TypeOK /\ q \in Nat /\ src \in Key /\ dst \in Key /\ src # dst
      /\ onHand[src] \in Nat /\ onHand[dst] \in Nat /\ reserved[src] \in Nat
  BY InventoryAssumption DEF IInv, TypeOK, Transfer, Qty, Key
<1>1. HeldIsReserved'
  BY LevelStepHeld DEF IInv, Transfer
<1>2. onHand' = [onHand EXCEPT ![src] = @ - q, ![dst] = @ + q]
  BY DEF Transfer
<1>3. ledger' = [ledger EXCEPT
        ![src] = WriteMovement(@, -q, 0, onHand[src] - q),
        ![dst] = WriteMovement(@, q, 0, onHand[dst] + q)]
  BY DEF Transfer
<1>4. onHand[src] - reserved[src] >= q /\ UNCHANGED <<rows, reserved, res>>
      /\ src \in rows /\ dst \in rows
  BY DEF Transfer, Available
<1> HIDE DEF src, dst
<1>5. TypeOK'
  <2>1. onHand[src] - q \in Nat /\ onHand[dst] + q \in Nat
    BY <1>0, <1>4
  <2>2. onHand' \in [Key -> Nat]
    BY <1>0, <1>2, <2>1 DEF TypeOK
  <2>3. ledger' \in [Key -> Movements]
    BY <1>0, <1>3, <2>1 DEF TypeOK, WriteMovement, Movements
  <2> QED
    BY <1>0, <1>4, <2>2, <2>3 DEF TypeOK
<1>6. NoOversell'
  BY <1>0, <1>2, <1>4 DEF IInv, TypeOK, NoOversell
<1>7. LedgerExplainsLevel'
  BY <1>0, <1>2, <1>3, <1>4 DEF IInv, TypeOK, LedgerExplainsLevel, WriteMovement
<1>8. ActiveHolds'
  BY <1>4 DEF IInv, ActiveHolds
<1> QED
  BY <1>1, <1>5, <1>6, <1>7, <1>8 DEF IInv

LEMMA FinishIInv ==
  ASSUME IInv, NEW r \in Res,
         \/ \E t \in {"RELEASED", "EXPIRED"} : ReleaseReservation(r, t)
         \/ CommitReservation(r)
  PROVE  IInv'
<1> DEFINE k == res[r].key  q == res[r].qty
<1>0. TypeOK /\ res \in [Res -> Reservation] /\ res[r].status = "ACTIVE"
  BY DEF IInv, TypeOK, ReleaseReservation, CommitReservation
<1>1. /\ k \in Key /\ q \in Nat /\ q <= reserved[k]
      /\ onHand[k] \in Nat /\ reserved[k] \in Nat /\ reserved[k] <= onHand[k]
  BY <1>0, ActiveUnitsHeld DEF IInv, TypeOK, NoOversell
<1>2. PICK t \in Terminal : res' = [res EXCEPT ![r].status = t]
  BY DEF ReleaseReservation, CommitReservation, Terminal
<1>3. reserved' = [reserved EXCEPT ![k] = @ - q] /\ rows' = rows
  BY DEF ReleaseReservation, CommitReservation
<1>4. \/ /\ onHand' = onHand
         /\ ledger' = [ledger EXCEPT ![k] = WriteMovement(@, 0, -q, onHand[k])]
      \/ /\ onHand' = [onHand EXCEPT ![k] = @ - q]
         /\ ledger' = [ledger EXCEPT ![k] = WriteMovement(@, -q, -q, onHand[k] - q)]
  BY DEF ReleaseReservation, CommitReservation
<1>5. HeldIsReserved'
  <2>1. \A j \in Key : /\ IsFiniteSet(HeldUnits(j)')
                       /\ Cardinality(HeldUnits(j)') =
                            IF j = k THEN reserved[j] - q ELSE reserved[j]
    BY <1>0, <1>2, FinishHeld DEF IInv
  <2> HIDE DEF k, q
  <2> QED
    BY <1>0, <1>1, <1>3, <2>1 DEF TypeOK, HeldIsReserved
<1>6. res' \in [Res -> Reservation]
  BY <1>0, <1>2 DEF Reservation
<1>7. \A x \in Res : /\ res'[x].status = IF x = r THEN t ELSE res[x].status
                     /\ res'[x].qty = res[x].qty
  BY <1>0, <1>2 DEF Reservation
<1> HIDE DEF k, q
<1>8. TypeOK'
  <2>1. reserved' \in [Key -> Nat]
    BY <1>0, <1>1, <1>3 DEF TypeOK
  <2>2. onHand' \in [Key -> Nat]
    BY <1>0, <1>1, <1>4 DEF TypeOK
  <2>3. ledger' \in [Key -> Movements]
    BY <1>0, <1>1, <1>4 DEF TypeOK, WriteMovement, Movements
  <2> QED
    BY <1>0, <1>3, <1>6, <2>1, <2>2, <2>3 DEF TypeOK
<1>9. NoOversell'
  <2>1. \A j \in Key : reserved'[j] <= onHand'[j]
    BY <1>0, <1>1, <1>3, <1>4 DEF IInv, TypeOK, NoOversell
  <2>2. \A j \in Key \ rows : onHand'[j] = 0
    BY <1>0, <1>1, <1>4 DEF IInv, TypeOK, NoOversell
  <2> QED
    BY <1>3, <2>1, <2>2 DEF NoOversell
<1>10. LedgerExplainsLevel'
  BY <1>0, <1>1, <1>3, <1>4 DEF IInv, TypeOK, LedgerExplainsLevel, WriteMovement
<1>11. ActiveHolds'
  BY <1>2, <1>7 DEF IInv, ActiveHolds, Terminal
<1> QED
  BY <1>5, <1>8, <1>9, <1>10, <1>11 DEF IInv

LEMMA ReserveIInv ==
  ASSUME IInv, NEW demand \in Demands, NEW ids \in [DOMAIN demand -> Res],
         ReserveMany(demand, ids)
  PROVE  IInv'
<1>1. PICK K \in SUBSET Key : demand \in [K -> Qty]
  BY DEF Demands
<1>2. DOMAIN demand = K /\ TypeOK
  BY <1>1 DEF IInv
<1>3. \A k \in K : demand[k] \in Nat /\ demand[k] >= 1
  BY <1>1, InventoryAssumption DEF Qty
<1>4. /\ \A k \in K : k \in rows /\ onHand[k] - reserved[k] >= demand[k]
      /\ reserved' = [k \in Key |-> IF k \in K THEN reserved[k] + demand[k] ELSE reserved[k]]
      /\ ledger' = [k \in Key |-> IF k \in K
             THEN WriteMovement(ledger[k], 0, demand[k], onHand[k]) ELSE ledger[k]]
      /\ rows' = rows /\ onHand' = onHand
  BY <1>2 DEF ReserveMany, Available
<1>5. \A r \in Res : \/ \E k \in K : res'[r] = [status |-> "ACTIVE", key |-> k, qty |-> demand[k]]
                     \/ res'[r] = res[r]
  BY <1>2 DEF ReserveMany
<1>6. HeldIsReserved'
  <2>1. \A k \in Key : /\ IsFiniteSet(HeldUnits(k)')
                       /\ Cardinality(HeldUnits(k)') =
                            IF k \in K THEN reserved[k] + demand[k] ELSE reserved[k]
    BY <1>2, ReserveHeld DEF IInv
  <2> QED
    BY <1>4, <2>1 DEF HeldIsReserved
<1>7. res' \in [Res -> Reservation]
  <2>1. \A r \in Res : res'[r] \in Reservation
    <3>1. TAKE r \in Res
    <3>2. CASE res'[r] = res[r]
      BY <1>2, <3>2 DEF TypeOK
    <3>3. ASSUME NEW k \in K,
                 res'[r] = [status |-> "ACTIVE", key |-> k, qty |-> demand[k]]
          PROVE  res'[r] \in Reservation
      BY <1>3, <3>3 DEF Reservation
    <3> QED
      BY <1>5, <3>2, <3>3
  <2>2. \E f : res' = [r \in Res |-> f[r]]
    <3>1. res' = [r \in Res |-> res'[r]]
      BY DEF ReserveMany
    <3> QED
      BY <3>1
  <2> QED
    BY <2>1, <2>2
<1>8. TypeOK'
  <2>1. reserved' \in [Key -> Nat]
    BY <1>2, <1>3, <1>4 DEF TypeOK
  <2>2. ledger' \in [Key -> Movements]
    BY <1>2, <1>3, <1>4 DEF TypeOK, WriteMovement, Movements
  <2> QED
    BY <1>2, <1>4, <1>7, <2>1, <2>2 DEF TypeOK
<1>9. NoOversell'
  BY <1>2, <1>3, <1>4 DEF IInv, TypeOK, NoOversell
<1>10. LedgerExplainsLevel'
  BY <1>2, <1>3, <1>4 DEF IInv, TypeOK, LedgerExplainsLevel, WriteMovement
<1>11. ActiveHolds'
  <2>1. ASSUME NEW r \in Res, res'[r].status = "ACTIVE"
        PROVE  res'[r].qty >= 1
    <3>1. CASE res'[r] = res[r]
      BY <2>1, <3>1 DEF IInv, ActiveHolds
    <3>2. ASSUME NEW k \in K,
                 res'[r] = [status |-> "ACTIVE", key |-> k, qty |-> demand[k]]
          PROVE  res'[r].qty >= 1
      BY <1>3, <3>2
    <3> QED
      BY <1>5, <3>1, <3>2
  <2> QED
    BY <2>1 DEF ActiveHolds
<1> QED
  BY <1>6, <1>8, <1>9, <1>10, <1>11 DEF IInv

LEMMA NextIInv ==
  ASSUME IInv, [Next]_vars
  PROVE  IInv'
<1>1. CASE UNCHANGED vars
  <2>1. HeldIsReserved'
    BY <1>1, LevelStepHeld DEF IInv, vars
  <2> QED
    BY <1>1, <2>1 DEF IInv, vars, TypeOK, NoOversell, LedgerExplainsLevel, ActiveHolds
<1>2. CASE Next
  BY <1>2, SeedIInv, ReserveIInv, FinishIInv, RestockIInv, AdjustIInv, TransferIInv
  DEF Next
<1> QED
  BY <1>1, <1>2

THEOREM InductiveInvariant == Spec => []IInv
BY InitIInv, NextIInv, PTL DEF Spec

-----------------------------------------------------------------------------
(* What the stock service may be relied on for.                            *)

(* The stock tables always hold values of their columns' types. *)
THEOREM TypeCorrect == Spec => []TypeOK
BY InductiveInvariant, PTL DEF IInv

(***************************************************************************)
(* For every set of SKUs, warehouses and reservations, the reserved counter *)
(* of a row is the sum of its ACTIVE reservations (the counter and the      *)
(* table that reserveMany, releaseReservation and commitReservation change  *)
(* together).                                                               *)
(***************************************************************************)
THEOREM ReservedIsSumOfActive == Spec => []HeldIsReserved
BY InductiveInvariant, PTL DEF IInv

(* No row ever promises more units than it has. *)
THEOREM NeverOversold == Spec => []NoOversell
BY InductiveInvariant, PTL DEF IInv

(* The movement ledger always adds up to the counters. *)
THEOREM LedgerCorrect == Spec => []LedgerExplainsLevel
BY InductiveInvariant, PTL DEF IInv

(***************************************************************************)
(* The invariant guards of releaseReservation and commitReservation never   *)
(* fail on an ACTIVE reservation: it can always be given back or sold.      *)
(***************************************************************************)
THEOREM NeverStranded == Spec => []NoStrandedReservation
<1>1. ASSUME IInv PROVE NoStrandedReservation
  <2>1. SUFFICES ASSUME NEW r \in Res, res[r].status = "ACTIVE"
                 PROVE  /\ res[r].key \in rows
                        /\ reserved[res[r].key] >= res[r].qty
                        /\ onHand[res[r].key] >= res[r].qty
    BY DEF NoStrandedReservation
  <2> DEFINE k == res[r].key  q == res[r].qty
  <2>2. k \in Key /\ q \in Nat /\ q <= reserved[k] /\ q >= 1
    BY <1>1, <2>1, ActiveUnitsHeld DEF IInv, ActiveHolds
  <2>3. /\ reserved[k] \in Nat /\ onHand[k] \in Nat /\ reserved[k] <= onHand[k]
        /\ k \notin rows => onHand[k] = 0
    BY <1>1, <2>2 DEF IInv, TypeOK, NoOversell
  <2> HIDE DEF k, q
  <2>4. k \in rows /\ reserved[k] >= q /\ onHand[k] >= q
    BY <2>2, <2>3
  <2> QED
    BY <2>4 DEF k, q
<1> QED
  BY <1>1, InductiveInvariant, PTL

(* A reservation is finished at most once, whoever finishes it and how often. *)
THEOREM TerminalIsFinal == Spec => FinishedOnce
<1>1. ASSUME Next, NEW r \in Res, res[r].status \in Terminal, TypeOK
      PROVE  res'[r] = res[r]
  <2>1. res[r].status # "ACTIVE" /\ res[r].status # "NONE" /\ res \in [Res -> Reservation]
    BY <1>1 DEF Terminal, TypeOK
  <2>2. CASE res' = res
    BY <2>2
  <2>3. ASSUME NEW x \in Res, res[x].status = "ACTIVE",
               NEW t, res' = [res EXCEPT ![x].status = t]
        PROVE  res'[r] = res[r]
    BY <2>1, <2>3
  <2>4. ASSUME NEW demand \in Demands, NEW ids \in [DOMAIN demand -> Res],
               ReserveMany(demand, ids)
        PROVE  res'[r] = res[r]
    <3>1. ~ \E k \in DOMAIN demand : ids[k] = r
      BY <2>1, <2>4 DEF ReserveMany
    <3> QED
      BY <2>4, <3>1 DEF ReserveMany
  <2> QED
    BY <1>1, <2>2, <2>3, <2>4
    DEF Next, SeedLevels, ReleaseReservation, CommitReservation, Restock,
        ReceiveStock, Adjust, Transfer
<1>2. ASSUME IInv, [Next]_vars
      PROVE  [\A r \in Res : res[r].status \in Terminal => res'[r] = res[r]]_vars
  BY <1>1, <1>2 DEF IInv
<1> QED
  BY <1>2, InductiveInvariant, PTL DEF Spec, FinishedOnce

-----------------------------------------------------------------------------
(* Part 2.  Calls and the records of a transaction.                        *)

ChangeRecord == [onHand : Int, reserved : Int]

CallRecord ==
    [op : {"reserve", "release", "commit", "restock", "receive", "adjust", "transfer"},
     change : [Key -> ChangeRecord], r : SUBSET Res, to : {"NONE"} \cup Terminal]

LEMMA QtyType == /\ Qty \subseteq Nat \ {0}
                 /\ -MaxQty .. MaxQty \subseteq Int
BY InventoryAssumption DEF Qty

LEMMA NoChangeType ==
  /\ NoChange \in [Key -> ChangeRecord]
  /\ \A k \in Key : NoChange[k] = Change(0, 0)
BY DEF NoChange, Change, ChangeRecord

LEMMA CallsType == Calls \subseteq CallRecord
<1>1. ReserveCalls \subseteq CallRecord
  <2> SUFFICES ASSUME NEW d \in Demands
               PROVE  Call("reserve", [k \in Key |-> Change(0, IF k \in DOMAIN d THEN d[k] ELSE 0)]) \in CallRecord
    BY DEF ReserveCalls
  <2>1. \A k \in Key : k \in DOMAIN d => d[k] \in Nat
    BY QtyType DEF Demands
  <2> QED
    BY <2>1 DEF Call, CallRecord, Change, ChangeRecord
<1>2. FinishCalls \subseteq CallRecord
  BY NoChangeType DEF FinishCalls, Finish, CallRecord, Terminal
<1>3. OneRowCalls \subseteq CallRecord
  BY NoChangeType, QtyType DEF OneRowCalls, Call, CallRecord, Change, ChangeRecord
<1>4. TransferCalls \subseteq CallRecord
  <2> SUFFICES ASSUME NEW c \in TransferCalls PROVE c \in CallRecord
    OBVIOUS
  <2>1. PICK from \in Warehouse : c \in {Call("transfer", Moved(s, from, to, q)) :
                                            s \in Sku, to \in Warehouse \ {from}, q \in Qty}
    BY DEF TransferCalls
  <2>2. PICK s \in Sku, to \in Warehouse \ {from}, q \in Qty : c = Call("transfer", Moved(s, from, to, q))
    BY <2>1
  <2>3. Change(-q, 0) \in ChangeRecord /\ Change(q, 0) \in ChangeRecord
    BY QtyType DEF Change, ChangeRecord
  <2>4. Moved(s, from, to, q) \in [Key -> ChangeRecord]
    BY <2>3, NoChangeType DEF Moved
  <2> QED
    BY <2>2, <2>4 DEF Call, CallRecord
<1> QED
  BY <1>1, <1>2, <1>3, <1>4 DEF Calls

(* Only release and commit finish a reservation, and a reserved line is positive. *)
LEMMA ReserveCall ==
  ASSUME NEW c \in Calls, c.op = "reserve"
  PROVE  /\ c.r = {}
         /\ \A k \in Key : c.change[k].reserved \in Nat /\ c.change[k].onHand = 0
<1>1. c \in ReserveCalls
  <2>1. c \notin FinishCalls
    BY DEF FinishCalls, Finish
  <2>2. c \notin OneRowCalls
    BY DEF OneRowCalls, Call
  <2>3. c \notin TransferCalls
    BY DEF TransferCalls, Call
  <2> QED
    BY <2>1, <2>2, <2>3 DEF Calls
<1>2. PICK d \in Demands : c = Call("reserve", [k \in Key |-> Change(0, IF k \in DOMAIN d THEN d[k] ELSE 0)])
  BY <1>1 DEF ReserveCalls
<1>3. \A k \in Key : k \in DOMAIN d => d[k] \in Nat
  BY QtyType DEF Demands
<1> QED
  BY <1>2, <1>3 DEF Call, Change

LEMMA TransactionCalls ==
  ASSUME NEW cs \in Transactions
  PROVE  cs \in Seq(Calls) /\ cs # <<>> /\ (MaxCalls = 1 => Tail(cs) = <<>>)
<1>1. CASE cs \in {<<c>> : c \in Calls}
  <2>1. PICK c \in Calls : cs = <<c>>
    BY <1>1
  <2>2. Tail(<<c>>) = <<>>
    OBVIOUS
  <2> QED
    BY <2>1, <2>2
<1>2. CASE cs \notin {<<c>> : c \in Calls}
  <2>1. PICK n \in 2 .. MaxCalls : cs \in [1 .. n -> Calls]
    BY <1>2 DEF Transactions
  <2>2. MaxCalls \in Nat /\ n \in Nat /\ n >= 2
    BY InventoryTxAssumption
  <2> QED
    BY <2>1, <2>2
<1> QED
  BY <1>1, <1>2

LEMMA StartFields ==
  ASSUME NEW t \in Transaction, NEW cs \in Seq(Calls), NEW change \in [Key -> ChangeRecord]
  PROVE  LET s == Start(t, cs, change) IN
         /\ s \in Transaction
         /\ s.pc = "lock" /\ s.calls = cs /\ s.want = Rows(change) /\ s.left = change
         /\ s.newLevel = t.newLevel /\ s.newRes = t.newRes
<1>1. Rows(change) \subseteq Key
  BY DEF Rows
<1> QED
  BY <1>1 DEF Start, Transaction, ChangeRecord

LEMMA EnterFields ==
  ASSUME NEW t \in Transaction, NEW cs \in Seq(Calls)
  PROVE  LET s == Enter(t, cs) IN
         /\ s \in Transaction
         /\ s.newLevel = t.newLevel /\ s.newRes = t.newRes
         /\ cs = <<>> => s.pc = "end"
         /\ cs # <<>> => s.calls = cs
         /\ cs # <<>> /\ Head(cs).r # {} => s.pc = "read"
         /\ cs # <<>> /\ Head(cs).r = {} =>
              s.pc = "lock" /\ s.left = Head(cs).change /\ s.want = Rows(Head(cs).change)
<1>1. CASE cs = <<>>
  BY <1>1 DEF Enter, Transaction
<1>2. CASE cs # <<>>
  <2>1. Head(cs) \in CallRecord
    BY <1>2, CallsType
  <2>2. Head(cs).change \in [Key -> ChangeRecord]
    BY <2>1 DEF CallRecord
  <2>3. CASE Head(cs).r # {}
    BY <1>2, <2>3 DEF Enter, Transaction
  <2>4. CASE Head(cs).r = {}
    <3>1. Enter(t, cs) = Start(t, cs, Head(cs).change)
      BY <1>2, <2>4 DEF Enter
    <3> QED
      BY <1>2, <2>2, <2>4, <3>1, StartFields
  <2> QED
    BY <2>3, <2>4
<1> QED
  BY <1>1, <1>2

LEMMA IdleFields ==
  /\ Idle \in Transaction
  /\ Idle.pc = "idle" /\ Idle.calls = <<>> /\ Idle.want = {} /\ Idle.left = NoChange
  /\ \A k \in Key : Idle.newLevel[k] = NoRow
  /\ \A r \in Res : Idle.newRes[r] = NoReservation
<1>1. NoRow \in LevelRow /\ NoReservation \in Reservation
  BY InventoryAssumption DEF NoRow, LevelRow, NoReservation, Reservation, NoMovement, Movements
<1>2. (CHOOSE k \in Key : TRUE) \in Key
  BY InventoryAssumption
<1> QED
  BY <1>1, <1>2, NoChangeType DEF Idle, Transaction, ChangeRecord

-----------------------------------------------------------------------------
(* Types, that a session that is busy has a call to work on, and that the    *)
(* lines it reserves are not negative.                                      *)

Busy == {"read", "lock", "level", "update", "flip"}

LinesPositive(t) ==
    Head(t.calls).op = "reserve" => \A k \in Key : t.left[k].reserved \in Nat

Prepared(t) ==
    /\ t.pc \in Busy => t.calls # <<>>
    /\ t.pc \in {"read", "flip"} => Head(t.calls).r # {}
    /\ t.pc \in {"lock", "level", "update"} => LinesPositive(t)

TypeInv ==
    /\ TxTypeOK
    /\ \A p \in Proc : Prepared(tx[p])

LEMMA CallFields ==
  ASSUME NEW t \in Transaction, t.calls # <<>>
  PROVE  /\ Head(t.calls) \in Calls /\ Head(t.calls) \in CallRecord
         /\ Tail(t.calls) \in Seq(Calls)
         /\ Head(t.calls).r # {} => Finishes(Head(t.calls)) \in Head(t.calls).r
         /\ Head(t.calls).r # {} => Finishes(Head(t.calls)) \in Res
         /\ Head(t.calls).to \in {"NONE"} \cup Terminal
<1>1. t.calls \in Seq(Calls)
  BY DEF Transaction
<1>2. Head(t.calls) \in Calls /\ Tail(t.calls) \in Seq(Calls)
  BY <1>1
<1> QED
  BY <1>2, CallsType DEF CallRecord, Finishes

LEMMA EnterPrepared ==
  ASSUME NEW t \in Transaction, NEW cs \in Seq(Calls)
  PROVE  Prepared(Enter(t, cs))
<1> DEFINE u == Enter(t, cs)
<1>1. u.pc \in {"lock", "level", "update"} => LinesPositive(u)
  <2> SUFFICES ASSUME u.pc \in {"lock", "level", "update"}, Head(u.calls).op = "reserve", NEW k \in Key
               PROVE  u.left[k].reserved \in Nat
    BY DEF LinesPositive
  <2>1. cs # <<>> /\ u.calls = cs
    BY EnterFields
  <2>2. Head(cs) \in Calls
    BY <2>1
  <2>3. Head(cs).r = {} /\ Head(cs).change[k].reserved \in Nat
    BY <2>1, <2>2, ReserveCall
  <2> QED
    BY <2>1, <2>3, EnterFields
<1> QED
  BY <1>1, EnterFields DEF Prepared, Busy

LEMMA AsType ==
  ASSUME TxTypeOK, NEW p \in Proc
  PROVE  /\ \A k \in Key : LevelAs(p, k) \in LevelRow
         /\ \A r \in Res : ResAs(p, r) \in Reservation
BY DEF TxTypeOK, Transaction, LevelAs, ResAs

LEMMA FinishChangeType ==
  ASSUME NEW op, NEW row \in Reservation
  PROVE  /\ FinishChange(op, row) \in [Key -> ChangeRecord]
         /\ \A k \in Key : FinishChange(op, row)[k] =
              IF k = row.key THEN Change(IF op = "commit" THEN -row.qty ELSE 0, -row.qty) ELSE Change(0, 0)
<1>1. row.key \in Key /\ row.qty \in Nat
  BY DEF Reservation
<1>2. Change(IF op = "commit" THEN -row.qty ELSE 0, -row.qty) \in ChangeRecord
  BY <1>1 DEF Change, ChangeRecord
<1> QED
  BY <1>1, <1>2, NoChangeType DEF FinishChange

LEMMA ChangedType ==
  ASSUME NEW row \in LevelRow, NEW change \in ChangeRecord
  PROVE  Changed(row, change) \in LevelRow
<1>1. VersionMod \in Nat \ {0}
  BY InventoryTxAssumption
<1>2. (row.version + 1) % VersionMod \in Nat
  BY <1>1 DEF LevelRow
<1> QED
  BY <1>2 DEF Changed, LevelRow, ChangeRecord, WriteMovement, Movements

(* The session's record after UpdateLevel, before it goes on. *)
Updated(t, row, new) ==
    [t EXCEPT !.left[t.key] = Change(0, 0), !.newRes = new, !.newLevel[t.key] = Changed(row, t.left[t.key])]

LEMMA UpdatedFields ==
  ASSUME NEW t \in Transaction, NEW row \in LevelRow, NEW new \in [Res -> Reservation],
         NEW u, u = Updated(t, row, new)
  PROVE  /\ u \in Transaction
         /\ u.pc = t.pc /\ u.calls = t.calls /\ u.want = t.want /\ u.newRes = new
         /\ \A k \in Key : u.left[k] = IF k = t.key THEN Change(0, 0) ELSE t.left[k]
         /\ \A k \in Key : u.newLevel[k] = IF k = t.key THEN Changed(row, t.left[t.key]) ELSE t.newLevel[k]
         /\ Rows(u.left) = Rows(t.left) \ {t.key}
<1>1. Change(0, 0) \in ChangeRecord /\ t.left \in [Key -> ChangeRecord] /\ t.key \in Key
  BY DEF Change, ChangeRecord, Transaction
<1>2. Changed(row, t.left[t.key]) \in LevelRow
  BY <1>1, ChangedType
<1>3. [t.left EXCEPT ![t.key] = Change(0, 0)] \in [Key -> ChangeRecord]
  BY <1>1
<1>4. t.newLevel \in [Key -> LevelRow]
      /\ [t.newLevel EXCEPT ![t.key] = Changed(row, t.left[t.key])] \in [Key -> LevelRow]
  BY <1>1, <1>2 DEF Transaction
<1>5. /\ u.left = [t.left EXCEPT ![t.key] = Change(0, 0)]
      /\ u.newLevel = [t.newLevel EXCEPT ![t.key] = Changed(row, t.left[t.key])]
      /\ u.pc = t.pc /\ u.calls = t.calls /\ u.want = t.want /\ u.newRes = new
      /\ u.key = t.key /\ u.version = t.version
      /\ DOMAIN u = DOMAIN t
  BY DEF Updated, Transaction
<1>6. u \in Transaction
  BY <1>3, <1>4 DEF Updated, Transaction, ChangeRecord
<1>7. \A k \in Key : u.left[k] = IF k = t.key THEN Change(0, 0) ELSE t.left[k]
  BY <1>1, <1>5
<1>8. Rows(u.left) = Rows(t.left) \ {t.key}
  BY <1>1, <1>7 DEF Rows
<1>9. \A k \in Key : u.newLevel[k] = IF k = t.key THEN Changed(row, t.left[t.key]) ELSE t.newLevel[k]
  BY <1>4, <1>5
<1> QED
  BY <1>5, <1>6, <1>7, <1>8, <1>9

LEMMA AfterRowFields ==
  ASSUME NEW t \in Transaction, t.calls # <<>>, LinesPositive(t)
  PROVE  LET u == AfterRow(t) IN
         /\ u \in Transaction /\ Prepared(u)
         /\ u.newLevel = t.newLevel /\ u.newRes = t.newRes
         /\ \/ /\ Rows(t.left) # {}
               /\ u.pc = "level" /\ u.left = t.left /\ u.calls = t.calls
            \/ /\ Rows(t.left) = {} /\ Head(t.calls).r # {}
               /\ u.pc = "flip" /\ u.left = t.left /\ u.calls = t.calls
            \/ /\ Rows(t.left) = {} /\ Head(t.calls).r = {}
               /\ u = Enter(t, Tail(t.calls))
<1>1. CASE Rows(t.left) # {}
  BY <1>1 DEF AfterRow, Transaction, Prepared, LinesPositive, Busy
<1>2. CASE Rows(t.left) = {} /\ Head(t.calls).r # {}
  BY <1>2 DEF AfterRow, Transaction, Prepared, LinesPositive, Busy
<1>3. CASE Rows(t.left) = {} /\ Head(t.calls).r = {}
  <2>1. AfterRow(t) = Enter(t, Tail(t.calls))
    BY <1>3 DEF AfterRow
  <2>2. Tail(t.calls) \in Seq(Calls)
    BY CallFields
  <2>3. /\ Prepared(Enter(t, Tail(t.calls)))
        /\ Enter(t, Tail(t.calls)) \in Transaction
        /\ Enter(t, Tail(t.calls)).newLevel = t.newLevel
        /\ Enter(t, Tail(t.calls)).newRes = t.newRes
    BY <2>2, EnterFields, EnterPrepared
  <2> QED
    BY <1>3, <2>1, <2>3
<1> QED
  BY <1>1, <1>2, <1>3

-----------------------------------------------------------------------------
(* What one step of a session does, in the terms the invariants need. *)

(* p goes on to t, and nothing else changes. *)
Private(p, t) ==
    /\ t \in Transaction /\ Prepared(t)
    /\ tx' = [tx EXCEPT ![p] = t]
    /\ UNCHANGED <<level, reservation, lock>>

LEMMA BeginStep ==
  ASSUME TypeInv, NEW p \in Proc, NEW cs \in Transactions, Begin(p, cs)
  PROVE  /\ tx[p].pc = "idle"
         /\ Private(p, Enter(Idle, cs))
<1>1. cs \in Seq(Calls)
  BY TransactionCalls
<1>2. Enter(Idle, cs) \in Transaction /\ Prepared(Enter(Idle, cs))
  BY <1>1, IdleFields, EnterFields, EnterPrepared
<1> QED
  BY <1>2 DEF Begin, Become, Private

LEMMA ReadReservationStep ==
  ASSUME TypeInv, NEW p \in Proc, ReadReservation(p), ~ Rollback(p)
  PROVE  LET t == tx[p]
             row == ResAs(p, Finishes(Head(t.calls)))
         IN /\ t.pc = "read" /\ t \in Transaction
            /\ t.calls # <<>> /\ Head(t.calls).r # {} /\ Finishes(Head(t.calls)) \in Res
            /\ row \in Reservation /\ row.status # "NONE"
            /\ \/ /\ row.status = "ACTIVE"
                  /\ Private(p, Start(t, t.calls, FinishChange(Head(t.calls).op, row)))
               \/ /\ row.status # "ACTIVE"
                  /\ Private(p, Enter(t, Tail(t.calls)))
<1> DEFINE t == tx[p]  c == Head(t.calls)  row == ResAs(p, Finishes(c))
<1>1. t.pc = "read" /\ t \in Transaction /\ Prepared(t)
  BY DEF TypeInv, TxTypeOK, ReadReservation
<1>2. t.calls # <<>> /\ c.r # {}
  BY <1>1 DEF Prepared, Busy
<1>3. Finishes(c) \in Res /\ Tail(t.calls) \in Seq(Calls) /\ t.calls \in Seq(Calls)
  BY <1>1, <1>2, CallFields DEF Transaction
<1>4. row \in Reservation
  BY <1>3, AsType DEF TypeInv
<1>5. /\ row.status # "NONE"
      /\ tx' = [tx EXCEPT ![p] = IF row.status # "ACTIVE" THEN Enter(t, Tail(t.calls))
                                 ELSE Start(t, t.calls, FinishChange(c.op, row))]
      /\ UNCHANGED <<level, reservation, lock>>
  BY DEF ReadReservation, Become
<1>6. FinishChange(c.op, row) \in [Key -> ChangeRecord]
  BY <1>4, FinishChangeType
<1>7. CASE row.status = "ACTIVE"
  <2>1. /\ Start(t, t.calls, FinishChange(c.op, row)) \in Transaction
        /\ Prepared(Start(t, t.calls, FinishChange(c.op, row)))
    <3>1. c.op # "reserve"
      BY <1>1, <1>2, CallFields, ReserveCall
    <3> QED
      BY <1>1, <1>2, <1>3, <1>6, <3>1, StartFields DEF Prepared, LinesPositive, Busy
  <2>2. Private(p, Start(t, t.calls, FinishChange(c.op, row)))
    BY <1>5, <1>7, <2>1 DEF Private
  <2> QED
    BY <1>1, <1>2, <1>3, <1>4, <1>5, <1>7, <2>2
<1>8. CASE row.status # "ACTIVE"
  <2>1. Enter(t, Tail(t.calls)) \in Transaction /\ Prepared(Enter(t, Tail(t.calls)))
    BY <1>1, <1>3, EnterFields, EnterPrepared
  <2>2. Private(p, Enter(t, Tail(t.calls)))
    BY <1>5, <1>8, <2>1 DEF Private
  <2> QED
    BY <1>1, <1>2, <1>3, <1>4, <1>5, <1>8, <2>2
<1> QED
  BY <1>7, <1>8

(* The session's record after it has taken the lock of k. *)
Locked(t, k) ==
    [t EXCEPT !.want = @ \ {k}, !.pc = IF t.want \ {k} = {} THEN "level" ELSE "lock"]

LEMMA TakeLockStep ==
  ASSUME TypeInv, NEW p \in Proc, TakeLock(p)
  PROVE  LET t == tx[p]
             k == First(t.want)
         IN /\ t.pc = "lock" /\ t \in Transaction /\ t.calls # <<>>
            /\ Locked(t, k) \in Transaction /\ Prepared(Locked(t, k))
            /\ lock[HashText[k]] \subseteq {p}
            /\ lock' = [lock EXCEPT ![HashText[k]] = {p}]
            /\ tx' = [tx EXCEPT ![p] = Locked(t, k)]
            /\ UNCHANGED <<level, reservation>>
<1> DEFINE t == tx[p]  k == First(t.want)
<1>1. t.pc = "lock" /\ t \in Transaction /\ Prepared(t) /\ Lock(p, k)
  BY DEF TypeInv, TxTypeOK, TakeLock
<1> HIDE DEF k
<1>2. t.calls # <<>>
  BY <1>1 DEF Prepared, Busy
<1>3. Locked(t, k) \in Transaction
  BY <1>1 DEF Locked, Transaction
<1>4. Prepared(Locked(t, k))
  BY <1>1, <1>2 DEF Locked, Transaction, Prepared, LinesPositive, Busy
<1>5. [t EXCEPT !.want = t.want \ {k}, !.pc = IF t.want \ {k} = {} THEN "level" ELSE "lock"] = Locked(t, k)
  BY <1>1 DEF Locked, Transaction
<1>6. /\ lock[HashText[k]] \subseteq {p}
      /\ lock' = [lock EXCEPT ![HashText[k]] = {p}]
      /\ tx' = [tx EXCEPT ![p] = Locked(t, k)]
      /\ UNCHANGED <<level, reservation>>
  BY <1>1, <1>5 DEF Lock, Become
<1> QED
  BY <1>1, <1>2, <1>3, <1>4, <1>6 DEF k

(* The session's record after it has read row k. *)
Checked(t, k, row) == [t EXCEPT !.pc = "update", !.key = k, !.version = row.version]

LEMMA ReadLevelStep ==
  ASSUME TypeInv, NEW p \in Proc, ReadLevel(p), ~ Rollback(p)
  PROVE  /\ tx[p].pc = "level" /\ tx[p] \in Transaction /\ tx[p].calls # <<>>
         /\ \E k \in Rows(tx[p].left) :
              /\ LevelAs(p, k).there \/ Head(tx[p].calls).op = "receive"
              /\ Private(p, Checked(tx[p], k, LevelAs(p, k)))
<1> DEFINE t == tx[p]
<1>1. t.pc = "level" /\ t \in Transaction /\ Prepared(t)
  BY DEF TypeInv, TxTypeOK, ReadLevel
<1>2. t.calls # <<>>
  BY <1>1 DEF Prepared, Busy
<1>3. PICK k \in Rows(t.left) :
        /\ LevelAs(p, k).there \/ Head(t.calls).op = "receive"
        /\ tx' = [tx EXCEPT ![p] = Checked(t, k, LevelAs(p, k))]
        /\ UNCHANGED <<level, reservation, lock>>
  BY DEF ReadLevel, Become, Checked
<1>4. k \in Key /\ LevelAs(p, k) \in LevelRow
  BY AsType DEF TypeInv, Rows
<1>5. Checked(t, k, LevelAs(p, k)) \in Transaction
  BY <1>1, <1>4 DEF Checked, Transaction, LevelRow
<1>6. Prepared(Checked(t, k, LevelAs(p, k)))
  BY <1>1, <1>2 DEF Checked, Transaction, Prepared, LinesPositive, Busy
<1> QED
  BY <1>1, <1>2, <1>3, <1>5, <1>6 DEF Private

LEMMA UpdateLevelStep ==
  ASSUME TypeInv, NEW p \in Proc, UpdateLevel(p), ~ Rollback(p)
  PROVE  LET t == tx[p]
             row == LevelAs(p, t.key)
         IN /\ t.pc = "update" /\ t \in Transaction /\ t.calls # <<>> /\ t.key \in Key
            /\ row \in LevelRow
            /\ LevelFree(p, t.key)
            /\ Fits(Head(t.calls).op, row, t.left[t.key])
            /\ \E new \in Inserted(t) :
                 /\ new \in [Res -> Reservation]
                 /\ Private(p, AfterRow(Updated(t, row, new)))
<1> DEFINE t == tx[p]  row == LevelAs(p, t.key)
<1>1. t.pc = "update" /\ t \in Transaction /\ Prepared(t) /\ LevelFree(p, t.key)
  BY DEF TypeInv, TxTypeOK, UpdateLevel
<1>2. t.calls # <<>> /\ LinesPositive(t) /\ t.key \in Key
  BY <1>1 DEF Prepared, Busy, Transaction
<1>3. PICK new \in Inserted(t) :
        /\ Fits(Head(t.calls).op, row, t.left[t.key])
        /\ tx' = [tx EXCEPT ![p] = AfterRow(Updated(t, row, new))]
        /\ UNCHANGED <<level, reservation, lock>>
  BY DEF UpdateLevel, Become, Updated
<1>4. row \in LevelRow
  BY <1>2, AsType DEF TypeInv
<1>5. new \in [Res -> Reservation]
  <2>1. CASE Head(t.calls).op # "reserve"
    BY <1>1, <2>1 DEF Inserted, Transaction
  <2>2. CASE Head(t.calls).op = "reserve"
    <3>1. t.left[t.key].reserved \in Nat
      BY <1>2, <2>2 DEF LinesPositive
    <3>2. [status |-> "ACTIVE", key |-> t.key, qty |-> t.left[t.key].reserved] \in Reservation
      BY <1>2, <3>1 DEF Reservation
    <3> QED
      BY <1>1, <2>2, <3>2 DEF Inserted, Transaction
  <2> QED
    BY <2>1, <2>2
<1> DEFINE u == Updated(t, row, new)
<1>6. /\ u \in Transaction /\ u.calls = t.calls
      /\ \A k \in Key : u.left[k] = IF k = t.key THEN Change(0, 0) ELSE t.left[k]
  <2>1. t \in Transaction
    BY <1>1
  <2>2. u = Updated(t, row, new)
    OBVIOUS
  <2> HIDE DEF t, row, u
  <2> QED
    BY ONLY <2>1, <2>2, <1>4, <1>5, UpdatedFields
<1>7. LinesPositive(u)
  <2> HIDE DEF u
  <2>1. Change(0, 0).reserved = 0
    BY DEF Change
  <2> QED
    BY <1>2, <1>6, <2>1 DEF LinesPositive
<1>8. AfterRow(u) \in Transaction /\ Prepared(AfterRow(u))
  <2>1. u.calls # <<>>
    BY <1>2, <1>6
  <2> HIDE DEF u
  <2> QED
    BY <1>6, <1>7, <2>1, AfterRowFields
<1> QED
  BY <1>1, <1>2, <1>3, <1>4, <1>5, <1>8 DEF Private

(* The session's record after it has finished reservation r. *)
Flipped(t, r, row, to) == [t EXCEPT !.newRes[r] = [row EXCEPT !.status = to]]

LEMMA FlippedFields ==
  ASSUME NEW t \in Transaction, NEW r \in Res, NEW row \in Reservation, NEW to \in {"NONE"} \cup Terminal
  PROVE  LET u == Flipped(t, r, row, to) IN
         /\ u \in Transaction
         /\ u.newLevel = t.newLevel
         /\ \A x \in Res : u.newRes[x] = IF x = r THEN [row EXCEPT !.status = to] ELSE t.newRes[x]
<1>1. [row EXCEPT !.status = to] \in Reservation
  BY DEF Reservation
<1> QED
  BY <1>1 DEF Flipped, Transaction

LEMMA FlipReservationStep ==
  ASSUME TypeInv, NEW p \in Proc, FlipReservation(p), ~ Rollback(p)
  PROVE  LET t == tx[p]
             c == Head(t.calls)
             r == Finishes(c)
         IN /\ t.pc = "flip" /\ t \in Transaction /\ t.calls # <<>> /\ c.r # {}
            /\ ResFree(p, r) /\ ResAs(p, r).status = "ACTIVE"
            /\ Flipped(t, r, ResAs(p, r), c.to) \in Transaction
            /\ Private(p, Enter(Flipped(t, r, ResAs(p, r), c.to), Tail(t.calls)))
<1> DEFINE t == tx[p]  c == Head(t.calls)  r == Finishes(c)
<1>1. t.pc = "flip" /\ t \in Transaction /\ Prepared(t) /\ ResFree(p, r)
  BY DEF TypeInv, TxTypeOK, FlipReservation
<1>2. t.calls # <<>> /\ c.r # {}
  BY <1>1 DEF Prepared, Busy
<1>3. r \in Res /\ Tail(t.calls) \in Seq(Calls) /\ c.to \in {"NONE"} \cup Terminal
  BY <1>1, <1>2, CallFields
<1>4. ResAs(p, r) \in Reservation
  BY <1>3, AsType DEF TypeInv
<1> DEFINE u == Flipped(t, r, ResAs(p, r), c.to)
<1>5. /\ ResAs(p, r).status = "ACTIVE"
      /\ tx' = [tx EXCEPT ![p] = Enter(u, Tail(t.calls))]
      /\ UNCHANGED <<level, reservation, lock>>
  BY DEF FlipReservation, Flip, Become, Flipped
<1>6. u \in Transaction
  BY <1>1, <1>3, <1>4, FlippedFields
<1>7. Enter(u, Tail(t.calls)) \in Transaction /\ Prepared(Enter(u, Tail(t.calls)))
  BY <1>3, <1>6, EnterFields, EnterPrepared
<1> QED
  BY <1>1, <1>2, <1>5, <1>6, <1>7 DEF Private

-----------------------------------------------------------------------------
(* TypeInv is inductive. *)

LEMMA RollbackType ==
  ASSUME TypeInv, NEW p \in Proc, Rollback(p)
  PROVE  TypeInv'
<1>1. Prepared(Idle)
  BY IdleFields DEF Prepared, Busy
<1>2. tx' = [tx EXCEPT ![p] = Idle] /\ UNCHANGED <<level, reservation>>
  BY DEF Rollback, Become
<1>3. lock' \in [LockId -> SUBSET Proc]
  BY DEF Rollback, TypeInv, TxTypeOK
<1>4. \A q \in Proc : tx'[q] \in Transaction /\ Prepared(tx'[q])
  BY <1>1, <1>2, IdleFields DEF TypeInv, TxTypeOK
<1>5. TxTypeOK'
  BY <1>2, <1>3, <1>4 DEF TypeInv, TxTypeOK
<1> QED
  BY <1>4, <1>5 DEF TypeInv, Prepared, LinesPositive

LEMMA PrivateType ==
  ASSUME TypeInv, NEW p \in Proc, NEW t, Private(p, t)
  PROVE  TypeInv'
<1>1. \A q \in Proc : tx'[q] \in Transaction /\ Prepared(tx'[q])
  BY DEF TypeInv, TxTypeOK, Private
<1>2. TxTypeOK'
  BY <1>1 DEF TypeInv, TxTypeOK, Private
<1> QED
  BY <1>1, <1>2 DEF TypeInv, Prepared, LinesPositive

LEMMA TakeLockType ==
  ASSUME TypeInv, NEW p \in Proc, TakeLock(p)
  PROVE  TypeInv'
<1> DEFINE k == First(tx[p].want)
<1>1. /\ Locked(tx[p], k) \in Transaction /\ Prepared(Locked(tx[p], k))
      /\ lock' = [lock EXCEPT ![HashText[k]] = {p}]
      /\ tx' = [tx EXCEPT ![p] = Locked(tx[p], k)]
      /\ UNCHANGED <<level, reservation>>
  BY TakeLockStep
<1> HIDE DEF k
<1>2. \A q \in Proc : tx'[q] \in Transaction /\ Prepared(tx'[q])
  BY <1>1 DEF TypeInv, TxTypeOK
<1>3. TxTypeOK'
  BY <1>1, <1>2 DEF TypeInv, TxTypeOK
<1> QED
  BY <1>2, <1>3 DEF TypeInv, Prepared, LinesPositive

LEMMA CommitType ==
  ASSUME TypeInv, NEW p \in Proc, Commit(p)
  PROVE  TypeInv'
<1>1. tx' = [tx EXCEPT ![p] = Idle]
  BY DEF Commit, Become
<1>2. Prepared(Idle)
  BY IdleFields DEF Prepared, Busy
<1>3. \A q \in Proc : tx'[q] \in Transaction /\ Prepared(tx'[q])
  BY <1>1, <1>2, IdleFields DEF TypeInv, TxTypeOK
<1>4. level' \in [Key -> LevelRow] /\ reservation' \in [Res -> Reservation]
  BY AsType DEF Commit, TypeInv
<1>5. lock' \in [LockId -> SUBSET Proc]
  BY DEF Commit, TypeInv, TxTypeOK
<1>6. TxTypeOK'
  BY <1>1, <1>3, <1>4, <1>5 DEF TypeInv, TxTypeOK
<1> QED
  BY <1>3, <1>6 DEF TypeInv, Prepared, LinesPositive

LEMMA CreateSkuType ==
  ASSUME TypeInv, NEW s \in Sku, NEW W \in SUBSET Warehouse, CreateSku(s, W)
  PROVE  TypeInv'
<1>1. level' \in [Key -> LevelRow]
  BY DEF CreateSku, TypeInv, TxTypeOK, LevelRow
<1> QED
  BY <1>1 DEF CreateSku, TypeInv, TxTypeOK, Prepared, LinesPositive

(* A step of a session is one of five kinds. *)
LEMMA StepKinds ==
  ASSUME TypeInv, NEW p \in Proc, Step(p)
  PROVE  Rollback(p) \/ TakeLock(p) \/ Commit(p) \/ (\E t : Private(p, t))
BY ReadReservationStep, ReadLevelStep, UpdateLevelStep, FlipReservationStep DEF Step

LEMMA NextType ==
  ASSUME TypeInv, [TxNext]_txVars
  PROVE  TypeInv'
<1>1. CASE UNCHANGED txVars
  BY <1>1 DEF txVars, TypeInv, TxTypeOK, Prepared, LinesPositive
<1>2. ASSUME NEW s \in Sku, NEW W \in SUBSET Warehouse, CreateSku(s, W)
      PROVE  TypeInv'
  BY <1>2, CreateSkuType
<1>3. ASSUME NEW p \in Proc, NEW cs \in Transactions, Begin(p, cs)
      PROVE  TypeInv'
  BY <1>3, BeginStep, PrivateType
<1>4. ASSUME NEW p \in Proc, Step(p)
      PROVE  TypeInv'
  BY <1>4, StepKinds, RollbackType, TakeLockType, CommitType, PrivateType
<1>5. ASSUME NEW p \in Proc, Abort(p)
      PROVE  TypeInv'
  BY <1>5, RollbackType DEF Abort
<1> QED
  BY <1>1, <1>2, <1>3, <1>4, <1>5 DEF TxNext

LEMMA InitType == TxInit => TypeInv
<1> SUFFICES ASSUME TxInit PROVE TypeInv
  OBVIOUS
<1>1. NoRow \in LevelRow /\ NoReservation \in Reservation
  BY InventoryAssumption DEF NoRow, LevelRow, NoReservation, Reservation, NoMovement, Movements
<1>2. Prepared(Idle)
  BY IdleFields DEF Prepared, Busy
<1> QED
  BY <1>1, <1>2, IdleFields DEF TxInit, TypeInv, TxTypeOK

-----------------------------------------------------------------------------
(* The advisory locks: a lock has one holder, and a session holds the locks  *)
(* of the rows it has written and of those it is about to read or write.     *)

Holds(p, k) == p \in lock[HashText[k]]

(* Row k as the session with record t sees it. *)
Seen(t, k) == IF t.newLevel[k].there THEN t.newLevel[k] ELSE level[k]

OwnLocks(p, t) ==
    /\ \A k \in Key : t.newLevel[k].there => Holds(p, k)
    /\ t.pc = "lock" => \A k \in Rows(t.left) \ t.want : Holds(p, k)
    /\ t.pc \in {"level", "update"} => \A k \in Rows(t.left) : Holds(p, k)
    /\ t.pc = "update" => t.key \in Rows(t.left) /\ Seen(t, t.key).version = t.version

Exclusive == \A h \in LockId : \A p, q \in lock[h] : p = q

LocksInv ==
    /\ Exclusive
    /\ \A p \in Proc : OwnLocks(p, tx[p])

LEMMA HoldsAlone ==
  ASSUME Exclusive, NEW k \in Key, NEW p, NEW q, Holds(p, k), Holds(q, k)
  PROVE  p = q
<1>1. HashText[k] \in LockId
  BY DEF LockId
<1> QED
  BY <1>1 DEF Exclusive, Holds

LEMMA SeenAs ==
  ASSUME NEW p \in Proc, NEW k \in Key
  PROVE  LevelAs(p, k) = Seen(tx[p], k)
BY DEF LevelAs, Seen, Wrote

LEMMA PrivateLocks ==
  ASSUME TypeInv, LocksInv, NEW p \in Proc, NEW t, Private(p, t), OwnLocks(p, t)
  PROVE  LocksInv'
<1>1. \A q \in Proc : OwnLocks(q, tx'[q])
  BY DEF Private, LocksInv, TypeInv, TxTypeOK
<1> QED
  BY <1>1 DEF Private, LocksInv, Exclusive, OwnLocks, Holds, Seen

(* A session that is idle needs no lock; the locks of the others stay. *)
LEMMA RollbackLocks ==
  ASSUME TypeInv, LocksInv, NEW p \in Proc, Rollback(p)
  PROVE  LocksInv'
<1>1. /\ tx' = [tx EXCEPT ![p] = Idle] /\ UNCHANGED level
      /\ lock' = [h \in LockId |-> lock[h] \ {p}]
  BY DEF Rollback, Become
<1>2. Exclusive'
  BY <1>1 DEF Exclusive, LocksInv
<1>3. \A q \in Proc, k \in Key : q # p /\ Holds(q, k) => Holds(q, k)'
  BY <1>1 DEF Holds, LockId
<1>4. OwnLocks(p, Idle)'
  BY IdleFields DEF OwnLocks, NoRow
<1>5. \A q \in Proc : q # p => OwnLocks(q, tx[q])'
  <2> SUFFICES ASSUME NEW q \in Proc, q # p PROVE OwnLocks(q, tx[q])'
    OBVIOUS
  <2>1. tx'[q] = tx[q] /\ OwnLocks(q, tx[q])
    BY <1>1 DEF TypeInv, TxTypeOK, LocksInv
  <2> QED
    BY <1>1, <1>3, <2>1 DEF OwnLocks, Seen, Rows
<1>6. tx'[p] = Idle
  BY <1>1 DEF TypeInv, TxTypeOK
<1> QED
  BY <1>2, <1>4, <1>5, <1>6 DEF LocksInv

LEMMA CommitLocks ==
  ASSUME TypeInv, LocksInv, NEW p \in Proc, Commit(p)
  PROVE  LocksInv'
<1>1. /\ tx' = [tx EXCEPT ![p] = Idle]
      /\ level' = [k \in Key |-> LevelAs(p, k)]
      /\ lock' = [h \in LockId |-> lock[h] \ {p}]
  BY DEF Commit, Become
<1>2. Exclusive'
  BY <1>1 DEF Exclusive, LocksInv
<1>3. \A q \in Proc, k \in Key : q # p /\ Holds(q, k) => Holds(q, k)'
  BY <1>1 DEF Holds, LockId
<1>4. OwnLocks(p, Idle)'
  BY IdleFields DEF OwnLocks, NoRow
<1>5. \A q \in Proc, k \in Key : q # p /\ Holds(q, k) => level'[k] = level[k]
  <2> SUFFICES ASSUME NEW q \in Proc, NEW k \in Key, q # p, Holds(q, k) PROVE level'[k] = level[k]
    OBVIOUS
  <2>1. k \notin Wrote(p)
    BY HoldsAlone DEF LocksInv, OwnLocks, Wrote
  <2> QED
    BY <1>1, <2>1 DEF LevelAs
<1>6. \A q \in Proc : q # p => OwnLocks(q, tx[q])'
  <2> SUFFICES ASSUME NEW q \in Proc, q # p PROVE OwnLocks(q, tx[q])'
    OBVIOUS
  <2>1. tx'[q] = tx[q] /\ OwnLocks(q, tx[q]) /\ tx[q] \in Transaction
    BY <1>1 DEF TypeInv, TxTypeOK, LocksInv
  <2>2. tx[q].pc = "update" => tx[q].key \in Key /\ Holds(q, tx[q].key)
    BY <2>1 DEF OwnLocks, Transaction
  <2>3. tx[q].pc = "update" => Seen(tx[q], tx[q].key)' = Seen(tx[q], tx[q].key)
    BY <1>5, <2>1, <2>2 DEF Seen
  <2> QED
    BY <1>3, <2>1, <2>3 DEF OwnLocks, Rows
<1>7. tx'[p] = Idle
  BY <1>1 DEF TypeInv, TxTypeOK
<1> QED
  BY <1>2, <1>4, <1>6, <1>7 DEF LocksInv

LEMMA CreateSkuLocks ==
  ASSUME TypeInv, LocksInv, NEW s \in Sku, NEW W \in SUBSET Warehouse, CreateSku(s, W)
  PROVE  LocksInv'
<1>1. UNCHANGED <<lock, tx>>
  BY DEF CreateSku
<1>2. \A k \in Key : level'[k].version = level[k].version
  BY DEF CreateSku, TypeInv, TxTypeOK, LevelRow
<1>3. \A q \in Proc : OwnLocks(q, tx[q])'
  <2> SUFFICES ASSUME NEW q \in Proc PROVE OwnLocks(q, tx[q])'
    OBVIOUS
  <2>1. OwnLocks(q, tx[q]) /\ tx[q].key \in Key
    BY DEF LocksInv, TypeInv, TxTypeOK, Transaction
  <2> QED
    BY <1>1, <1>2, <2>1 DEF OwnLocks, Holds, Seen, Rows
<1> QED
  BY <1>1, <1>3 DEF LocksInv, Exclusive

LEMMA TakeLockLocks ==
  ASSUME TypeInv, LocksInv, NEW p \in Proc, TakeLock(p)
  PROVE  LocksInv'
<1>0. PICK k, t, u : k = First(tx[p].want) /\ t = tx[p] /\ u = Locked(t, k)
  OBVIOUS
<1>1. /\ t.pc = "lock" /\ t \in Transaction
      /\ lock[HashText[k]] \subseteq {p}
      /\ lock' = [lock EXCEPT ![HashText[k]] = {p}]
      /\ tx' = [tx EXCEPT ![p] = u]
      /\ UNCHANGED level
  BY <1>0, TakeLockStep
<1>2. Exclusive'
  BY <1>1 DEF Exclusive, LocksInv, TypeInv, TxTypeOK
<1>3. \A q \in Proc, j \in Key : Holds(q, j) => Holds(q, j)'
  BY <1>1 DEF Holds, LockId, TypeInv, TxTypeOK
<1>4. k \in Key => Holds(p, k)'
  BY <1>1 DEF Holds, LockId, TypeInv, TxTypeOK
<1>5. OwnLocks(p, u)'
  <2>1. /\ u.newLevel = t.newLevel /\ u.left = t.left /\ u.want = t.want \ {k}
        /\ u.pc = IF t.want \ {k} = {} THEN "level" ELSE "lock"
    BY <1>0, <1>1 DEF Locked, Transaction
  <2>2. OwnLocks(p, t)
    BY <1>0 DEF LocksInv
  <2>3. \A j \in Rows(t.left) \ u.want : Holds(p, j)'
    BY <1>1, <1>3, <1>4, <2>1, <2>2 DEF OwnLocks, Rows
  <2>4. \A j \in Key : u.newLevel[j].there => Holds(p, j)'
    BY <1>3, <2>1, <2>2 DEF OwnLocks
  <2> QED
    BY <2>1, <2>3, <2>4 DEF OwnLocks
<1>6. \A q \in Proc : q # p => OwnLocks(q, tx[q])'
  <2> SUFFICES ASSUME NEW q \in Proc, q # p PROVE OwnLocks(q, tx[q])'
    OBVIOUS
  <2>1. tx'[q] = tx[q] /\ OwnLocks(q, tx[q])
    BY <1>1 DEF TypeInv, TxTypeOK, LocksInv
  <2> QED
    BY <1>1, <1>3, <2>1 DEF OwnLocks, Seen, Rows
<1>7. tx'[p] = u
  BY <1>1 DEF TypeInv, TxTypeOK
<1> QED
  BY <1>2, <1>5, <1>6, <1>7 DEF LocksInv

(* A session that starts a call needs only the locks of what it has written. *)
LEMMA EnterLocks ==
  ASSUME NEW p \in Proc, NEW t \in Transaction, NEW cs \in Seq(Calls),
         \A k \in Key : t.newLevel[k].there => Holds(p, k)
  PROVE  OwnLocks(p, Enter(t, cs))
<1>1. PICK u : u = Enter(t, cs)
  OBVIOUS
<1>2. u.newLevel = t.newLevel
  BY <1>1, EnterFields
<1>3. u.pc \in {"read", "end"} \/ (u.pc = "lock" /\ u.want = Rows(u.left))
  BY <1>1, EnterFields
<1>4. OwnLocks(p, u)
  BY <1>2, <1>3 DEF OwnLocks
<1> QED
  BY <1>1, <1>4

LEMMA StepLocks ==
  ASSUME TypeInv, LocksInv, NEW p \in Proc, Step(p)
  PROVE  LocksInv'
<1>0. PICK t : t = tx[p]
  OBVIOUS
<1>1. OwnLocks(p, t)
  BY <1>0 DEF LocksInv
<1>2. ASSUME ReadReservation(p), ~ Rollback(p)
      PROVE  LocksInv'
  <2>1. PICK row : row = ResAs(p, Finishes(Head(t.calls)))
    OBVIOUS
  <2>2. /\ t \in Transaction /\ t.calls # <<>> /\ row \in Reservation
        /\ \/ Private(p, Start(t, t.calls, FinishChange(Head(t.calls).op, row)))
           \/ Private(p, Enter(t, Tail(t.calls)))
    BY <1>0, <1>2, <2>1, ReadReservationStep
  <2>3. t.calls \in Seq(Calls) /\ Tail(t.calls) \in Seq(Calls)
    BY <2>2, CallFields DEF Transaction
  <2>4. OwnLocks(p, Enter(t, Tail(t.calls)))
    BY <1>1, <2>2, <2>3, EnterLocks DEF OwnLocks
  <2>5. PICK change \in [Key -> ChangeRecord] : change = FinishChange(Head(t.calls).op, row)
    BY <2>2, FinishChangeType
  <2>6. PICK u : u = Start(t, t.calls, change)
    OBVIOUS
  <2>7. u.pc = "lock" /\ u.want = Rows(u.left) /\ u.newLevel = t.newLevel
    BY <2>2, <2>3, <2>5, <2>6, StartFields
  <2>8. OwnLocks(p, u)
    BY <1>1, <2>7 DEF OwnLocks
  <2> QED
    BY <2>2, <2>4, <2>5, <2>6, <2>8, PrivateLocks
<1>3. ASSUME ReadLevel(p), ~ Rollback(p)
      PROVE  LocksInv'
  <2>1. t.pc = "level" /\ t \in Transaction
    BY <1>0, <1>3, ReadLevelStep
  <2>2. PICK k \in Rows(t.left) : Private(p, Checked(t, k, LevelAs(p, k)))
    BY <1>0, <1>3, ReadLevelStep
  <2>3. PICK u, row : u = Checked(t, k, row) /\ row = LevelAs(p, k)
    OBVIOUS
  <2>4. k \in Key /\ row = Seen(t, k)
    BY <1>0, <2>3, SeenAs DEF Rows
  <2>5. /\ u.pc = "update" /\ u.key = k /\ u.version = row.version
        /\ u.left = t.left /\ u.newLevel = t.newLevel
    BY <2>1, <2>3 DEF Checked, Transaction
  <2>6. OwnLocks(p, u)
    BY <1>1, <2>1, <2>4, <2>5 DEF OwnLocks, Seen
  <2> QED
    BY <2>2, <2>3, <2>6, PrivateLocks
<1>4. ASSUME UpdateLevel(p), ~ Rollback(p)
      PROVE  LocksInv'
  <2>1. PICK row : row = LevelAs(p, t.key)
    OBVIOUS
  <2>2. /\ t.pc = "update" /\ t \in Transaction /\ t.calls # <<>> /\ t.key \in Key /\ row \in LevelRow
    BY <1>0, <1>4, <2>1, UpdateLevelStep
  <2>3. PICK new \in [Res -> Reservation] : Private(p, AfterRow(Updated(t, row, new)))
    BY <1>0, <1>4, <2>1, UpdateLevelStep
  <2>4. PICK u, v : u = Updated(t, row, new) /\ v = AfterRow(u)
    OBVIOUS
  <2>5. /\ u \in Transaction /\ u.calls = t.calls
        /\ Rows(u.left) = Rows(t.left) \ {t.key}
        /\ \A k \in Key : u.newLevel[k] = IF k = t.key THEN Changed(row, t.left[t.key]) ELSE t.newLevel[k]
    <3>1. new \in [Res -> Reservation]
      OBVIOUS
    <3>2. t \in Transaction /\ row \in LevelRow /\ u = Updated(t, row, new)
      BY <2>2, <2>4
    <3> QED
      BY ONLY <3>1, <3>2, UpdatedFields
  <2>6. /\ t.key \in Rows(t.left) /\ Holds(p, t.key) /\ \A k \in Rows(t.left) : Holds(p, k)
    BY <1>1, <2>2 DEF OwnLocks, Rows
  <2>7. \A k \in Key : u.newLevel[k].there => Holds(p, k)
    BY <1>1, <2>5, <2>6 DEF OwnLocks
  <2>8. OwnLocks(p, v)
    <3>1. CASE Rows(u.left) # {}
      <4>1. v = [u EXCEPT !.pc = "level"]
        BY <2>4, <3>1 DEF AfterRow
      <4>2. v.pc = "level" /\ v.left = u.left /\ v.newLevel = u.newLevel
        BY <2>5, <4>1 DEF Transaction
      <4> QED
        BY <2>5, <2>6, <2>7, <4>2 DEF OwnLocks
    <3>2. CASE Rows(u.left) = {} /\ Head(u.calls).r # {}
      <4>1. v = [u EXCEPT !.pc = "flip"]
        BY <2>4, <3>2 DEF AfterRow
      <4>2. v.pc = "flip" /\ v.left = u.left /\ v.newLevel = u.newLevel
        BY <2>5, <4>1 DEF Transaction
      <4> QED
        BY <2>7, <4>2 DEF OwnLocks
    <3>3. CASE Rows(u.left) = {} /\ Head(u.calls).r = {}
      <4>1. v = Enter(u, Tail(u.calls))
        BY <2>4, <3>3 DEF AfterRow
      <4>2. Tail(u.calls) \in Seq(Calls)
        BY <2>2, <2>5, CallFields
      <4> QED
        BY <2>5, <2>7, <4>1, <4>2, EnterLocks
    <3> QED
      BY <3>1, <3>2, <3>3
  <2> QED
    BY <2>3, <2>4, <2>8, PrivateLocks
<1>5. ASSUME FlipReservation(p), ~ Rollback(p)
      PROVE  LocksInv'
  <2>1. PICK r, row, to : r = Finishes(Head(t.calls)) /\ row = ResAs(p, r) /\ to = Head(t.calls).to
    OBVIOUS
  <2>2. PICK u : u = Flipped(t, r, row, to)
    OBVIOUS
  <2>3. /\ t \in Transaction /\ t.calls # <<>>
        /\ u \in Transaction /\ Private(p, Enter(u, Tail(t.calls)))
    BY <1>0, <1>5, <2>1, <2>2, FlipReservationStep
  <2>4. Tail(t.calls) \in Seq(Calls) /\ u.newLevel = t.newLevel
    BY <2>2, <2>3, CallFields DEF Flipped, Transaction
  <2>5. OwnLocks(p, Enter(u, Tail(t.calls)))
    BY <1>1, <2>3, <2>4, EnterLocks DEF OwnLocks
  <2> QED
    BY <2>3, <2>5, PrivateLocks
<1> QED
  BY <1>2, <1>3, <1>4, <1>5, RollbackLocks, TakeLockLocks, CommitLocks DEF Step

LEMMA NextLocks ==
  ASSUME TypeInv, LocksInv, [TxNext]_txVars
  PROVE  LocksInv'
<1>1. CASE UNCHANGED txVars
  BY <1>1 DEF txVars, LocksInv, Exclusive, OwnLocks, Holds, Seen, Rows
<1>2. ASSUME NEW p \in Proc, NEW cs \in Transactions, Begin(p, cs)
      PROVE  LocksInv'
  <2>1. cs \in Seq(Calls) /\ \A k \in Key : ~ Idle.newLevel[k].there
    BY TransactionCalls, IdleFields DEF NoRow
  <2>2. OwnLocks(p, Enter(Idle, cs))
    BY <2>1, IdleFields, EnterLocks
  <2> QED
    BY <1>2, <2>2, BeginStep, PrivateLocks
<1> QED
  BY <1>1, <1>2, CreateSkuLocks, StepLocks, RollbackLocks DEF TxNext, Abort

LEMMA InitLocks == TxInit => LocksInv
<1> SUFFICES ASSUME TxInit PROVE LocksInv
  OBVIOUS
<1>1. \A p \in Proc : OwnLocks(p, Idle)
  BY IdleFields DEF OwnLocks, NoRow
<1> QED
  BY <1>1 DEF TxInit, LocksInv, Exclusive

(* The invariants of every transaction, however many calls it makes. *)
TxInv == TypeInv /\ LocksInv

LEMMA TxInvariant == TxSpec => []TxInv
<1>1. TxInit => TxInv
  BY InitType, InitLocks DEF TxInv
<1>2. TxInv /\ [TxNext]_txVars => TxInv'
  BY NextType, NextLocks DEF TxInv
<1> QED
  BY <1>1, <1>2, PTL DEF TxSpec

(* Whatever the sessions run and wherever they stop, a transaction is in one *)
(* of its states and the tables, its own writes and the locks keep their    *)
(* types: no step of inventory.service.ts leaves a malformed row.           *)
THEOREM SessionsTypeCorrect == TxSpec => []TxTypeOK
<1>1. TxInv => TxTypeOK
  BY DEF TxInv, TypeInv
<1> QED
  BY <1>1, TxInvariant, PTL

(* Between the findUnique and the updateMany of a stock row no other session *)
(* has written the row, and its `version` is the one that was read: the     *)
(* branch of reserveMany and its siblings for a race lost "despite holding  *)
(* the advisory lock" is never taken, whatever keys hash to one lock.       *)
THEOREM CompareAndSetHolds == TxSpec => []CasNeverLoses
<1>1. ASSUME TxInv, NEW p \in Proc, tx[p].pc = "update"
      PROVE  LevelFree(p, tx[p].key) /\ LevelAs(p, tx[p].key).version = tx[p].version
  <2>1. OwnLocks(p, tx[p]) /\ tx[p].key \in Key
    BY <1>1 DEF TxInv, LocksInv, TypeInv, TxTypeOK, Transaction
  <2>2. Holds(p, tx[p].key) /\ LevelAs(p, tx[p].key).version = tx[p].version
    BY <1>1, <2>1, SeenAs DEF OwnLocks
  <2>3. ASSUME NEW q \in Proc \ {p}, tx[p].key \in Wrote(q)
        PROVE  FALSE
    <3>1. Holds(q, tx[p].key)
      BY <1>1, <2>1, <2>3 DEF TxInv, LocksInv, OwnLocks, Wrote
    <3> QED
      BY <1>1, <2>1, <2>2, <3>1, HoldsAlone DEF TxInv, LocksInv
  <2> QED
    BY <2>2, <2>3 DEF LevelFree
<1>2. TxInv => CasNeverLoses
  BY <1>1 DEF CasNeverLoses
<1> QED
  BY <1>2, TxInvariant, PTL

-----------------------------------------------------------------------------
(* A transaction of one call.                                              *)

(* What a call changes, once its reservation is known. *)
Plan(c) == IF c.r = {} THEN c.change ELSE FinishChange(c.op, reservation[Finishes(c)])

WroteBy(t) == {k \in Key : t.newLevel[k].there}

WroteResBy(t) == {r \in Res : t.newRes[r].status # "NONE"}

RowWritten(t, c, k) ==
    /\ t.newLevel[k] = Changed(level[k], Plan(c)[k])
    /\ Fits(c.op, level[k], Plan(c)[k])
    /\ level[k].there \/ c.op = "receive"

(* Each reserved line has inserted one reservation of its row. *)
Lines(t, c) ==
    /\ \A r \in WroteResBy(t) :
        /\ reservation[r].status = "NONE"
        /\ t.newRes[r].key \in WroteBy(t)
        /\ t.newRes[r] = [status |-> "ACTIVE", key |-> t.newRes[r].key,
                          qty |-> Plan(c)[t.newRes[r].key].reserved]
    /\ \A r, x \in WroteResBy(t) : t.newRes[r].key = t.newRes[x].key => r = x
    /\ \A k \in WroteBy(t) : \E r \in WroteResBy(t) : t.newRes[r].key = k

Working(t, c) ==
    /\ Tail(t.calls) = <<>>
    /\ c.r # {} => reservation[Finishes(c)].status # "NONE"
    /\ WroteBy(t) \cap Rows(t.left) = {}
    /\ WroteBy(t) \cup Rows(t.left) = Rows(Plan(c))
    /\ \A k \in Rows(t.left) : t.left[k] = Plan(c)[k]
    /\ \A k \in WroteBy(t) : RowWritten(t, c, k)
    /\ c.op = "reserve" => Lines(t, c)
    /\ c.op # "reserve" => WroteResBy(t) = {}
    /\ t.pc = "update" => t.key \in Rows(t.left) /\ (level[t.key].there \/ c.op = "receive")
    /\ t.pc = "flip" => Rows(t.left) = {}

Done(t, c) ==
    /\ WroteBy(t) = Rows(Plan(c))
    /\ \A k \in WroteBy(t) : RowWritten(t, c, k)
    /\ c.op = "reserve" => Lines(t, c)
    /\ c.op # "reserve" /\ c.r = {} => WroteResBy(t) = {}
    /\ c.r # {} =>
        /\ reservation[Finishes(c)].status = "ACTIVE"
        /\ WroteResBy(t) = {Finishes(c)}
        /\ t.newRes[Finishes(c)] = [reservation[Finishes(c)] EXCEPT !.status = c.to]

Nothing(t) == WroteBy(t) = {} /\ WroteResBy(t) = {}

Single(t) ==
    /\ t.pc \in {"idle", "read"} => Nothing(t)
    /\ t.pc = "read" => Tail(t.calls) = <<>>
    /\ t.pc \in {"lock", "level", "update", "flip"} => Working(t, Head(t.calls))
    /\ t.pc = "end" => Nothing(t) \/ \E c \in Calls : Done(t, c)

(* Two transactions never write the same reservation. *)
ResApart == \A p, q \in Proc : p # q => WroteResBy(tx[p]) \cap WroteResBy(tx[q]) = {}

Positive == \A r \in Res : reservation[r].status # "NONE" => reservation[r].qty >= 1

SingleInv ==
    /\ \A p \in Proc : Single(tx[p])
    /\ ResApart
    /\ Positive

LEMMA FinishCall ==
  ASSUME NEW c \in Calls, c.r # {}
  PROVE  /\ Finishes(c) \in Res /\ c.r = {Finishes(c)} /\ c.change = NoChange
         /\ \/ c.op = "release" /\ c.to \in {"RELEASED", "EXPIRED"}
            \/ c.op = "commit" /\ c.to = "CONSUMED"
<1>1. c \in FinishCalls
  BY DEF Calls, ReserveCalls, OneRowCalls, TransferCalls, Call
<1> QED
  BY <1>1 DEF FinishCalls, Finish, Finishes

(* What the commits and the new SKUs of others leave of the tables. *)
Keeps(t) ==
    /\ \A k \in WroteBy(t) : /\ level'[k].onHand = level[k].onHand
                             /\ level'[k].reserved = level[k].reserved
                             /\ level'[k].version = level[k].version
                             /\ level'[k].ledger = level[k].ledger
    /\ \A k \in Key : level[k].there => level'[k].there
    /\ \A r \in Res : reservation[r].status # "NONE" =>
        /\ reservation'[r].status # "NONE"
        /\ reservation'[r].key = reservation[r].key
        /\ reservation'[r].qty = reservation[r].qty
    /\ \A r \in WroteResBy(t) : reservation'[r] = reservation[r]

LEMMA PlanStays ==
  ASSUME NEW t, Keeps(t), NEW c \in Calls, c.r # {} => reservation[Finishes(c)].status # "NONE"
  PROVE  Plan(c)' = Plan(c)
<1>1. CASE c.r = {}
  BY <1>1 DEF Plan
<1>2. CASE c.r # {}
  <2>1. /\ reservation'[Finishes(c)].key = reservation[Finishes(c)].key
        /\ reservation'[Finishes(c)].qty = reservation[Finishes(c)].qty
    BY <1>2, FinishCall DEF Keeps
  <2>2. FinishChange(c.op, reservation'[Finishes(c)]) = FinishChange(c.op, reservation[Finishes(c)])
    BY <2>1 DEF FinishChange
  <2> QED
    BY <1>2, <2>2 DEF Plan
<1> QED
  BY <1>1, <1>2

LEMMA RowStays ==
  ASSUME NEW t, Keeps(t), NEW c, Plan(c)' = Plan(c), NEW k \in WroteBy(t), RowWritten(t, c, k)
  PROVE  RowWritten(t, c, k)'
<1>1. Changed(level'[k], Plan(c)[k]) = Changed(level[k], Plan(c)[k])
  BY DEF Keeps, Changed
<1>2. Fits(c.op, level'[k], Plan(c)[k]) <=> Fits(c.op, level[k], Plan(c)[k])
  BY DEF Keeps, Fits
<1>3. level[k].there => level'[k].there
  BY DEF Keeps, WroteBy
<1> QED
  BY <1>1, <1>2, <1>3 DEF RowWritten

LEMMA LinesStay ==
  ASSUME NEW t, Keeps(t), NEW c, Plan(c)' = Plan(c), Lines(t, c)
  PROVE  Lines(t, c)'
BY DEF Keeps, Lines, WroteBy, WroteResBy

LEMMA SingleStays ==
  ASSUME NEW t \in Transaction, Prepared(t), Keeps(t), Single(t)
  PROVE  Single(t)'
<1>1. Nothing(t)' <=> Nothing(t)
  BY DEF Nothing, WroteBy, WroteResBy
<1>2. WroteBy(t)' = WroteBy(t) /\ WroteResBy(t)' = WroteResBy(t) /\ Rows(t.left)' = Rows(t.left)
  BY DEF WroteBy, WroteResBy, Rows
<1>3. ASSUME t.pc \in {"lock", "level", "update", "flip"}
      PROVE  Working(t, Head(t.calls))'
  <2>1. PICK c : c = Head(t.calls)
    OBVIOUS
  <2>2. c \in Calls /\ Working(t, c)
    BY <1>3, <2>1, CallFields DEF Prepared, Busy, Single
  <2>3. Plan(c)' = Plan(c)
    BY <2>2, PlanStays DEF Working
  <2>4. \A k \in WroteBy(t) : RowWritten(t, c, k)'
    BY <2>2, <2>3, RowStays DEF Working
  <2>5. c.op = "reserve" => Lines(t, c)'
    BY <2>2, <2>3, LinesStay DEF Working
  <2>6. c.r # {} => reservation'[Finishes(c)].status # "NONE"
    BY <2>2, FinishCall DEF Keeps, Working
  <2>7. t.pc = "update" => t.key \in Rows(t.left) /\ (level'[t.key].there \/ c.op = "receive")
    BY <2>2 DEF Keeps, Working, Transaction
  <2>8. Working(t, c)'
    BY <1>2, <2>2, <2>3, <2>4, <2>5, <2>6, <2>7 DEF Working
  <2> QED
    BY <2>1, <2>8
<1>4. ASSUME NEW c \in Calls, Done(t, c)
      PROVE  Done(t, c)'
  <2>3. Plan(c)' = Plan(c)
    BY <1>4, PlanStays DEF Done
  <2>4. \A k \in WroteBy(t) : RowWritten(t, c, k)'
    BY <1>4, <2>3, RowStays DEF Done
  <2>5. c.op = "reserve" => Lines(t, c)'
    BY <1>4, <2>3, LinesStay DEF Done
  <2>6. c.r # {} => reservation'[Finishes(c)] = reservation[Finishes(c)]
    BY <1>4 DEF Keeps, Done
  <2> QED
    BY <1>2, <1>4, <2>3, <2>4, <2>5, <2>6 DEF Done
<1> QED
  BY <1>1, <1>3, <1>4 DEF Single

LEMMA SameTables ==
  ASSUME UNCHANGED <<level, reservation>>, NEW t
  PROVE  Keeps(t)
BY DEF Keeps

(* p goes on to t, perhaps with other locks, and the tables stay. *)
Goes(p, t) ==
    /\ t \in Transaction /\ Prepared(t)
    /\ tx' = [tx EXCEPT ![p] = t]
    /\ UNCHANGED <<level, reservation>>

LEMMA GoesSingle ==
  ASSUME TypeInv, SingleInv, NEW p \in Proc, NEW t, Goes(p, t), Single(t),
         \A q \in Proc : q # p => WroteResBy(t) \cap WroteResBy(tx[q]) = {}
  PROVE  SingleInv'
<1>1. \A q \in Proc : tx'[q] = IF q = p THEN t ELSE tx[q]
  BY DEF Goes, TypeInv, TxTypeOK
<1>2. ASSUME NEW q \in Proc
      PROVE  Single(tx[q])'
  <2>1. PICK u : u = tx'[q]
    OBVIOUS
  <2>2. u \in Transaction /\ Prepared(u) /\ Single(u)
    BY <1>1, <2>1 DEF Goes, TypeInv, TxTypeOK, SingleInv
  <2>3. Single(u)'
    BY <2>2, SameTables, SingleStays DEF Goes
  <2> QED
    BY <2>1, <2>3
<1>3. ResApart'
  BY <1>1 DEF ResApart, SingleInv, WroteResBy
<1>4. Positive'
  BY DEF Goes, Positive, SingleInv
<1> QED
  BY <1>2, <1>3, <1>4 DEF SingleInv

LEMMA IdleSingle == Single(Idle) /\ Nothing(Idle)
<1>0. NoRow.there = FALSE /\ NoReservation.status = "NONE"
  BY DEF NoRow, NoReservation
<1>1. \A k \in Key : Idle.newLevel[k].there = FALSE
  BY <1>0, IdleFields
<1>2a. \A r \in Res : Idle.newRes[r].status = "NONE"
  BY <1>0, IdleFields
<1>2. Nothing(Idle)
  BY <1>1, <1>2a DEF Nothing, WroteBy, WroteResBy
<1> QED
  BY <1>2, IdleFields DEF Single

LEMMA RollbackSingle ==
  ASSUME TypeInv, SingleInv, NEW p \in Proc, Rollback(p)
  PROVE  SingleInv'
<1>1. Goes(p, Idle)
  BY IdleFields DEF Goes, Rollback, Become, Prepared, Busy
<1>2. WroteResBy(Idle) = {}
  BY IdleSingle DEF Nothing
<1> QED
  BY <1>1, <1>2, IdleSingle, GoesSingle

LEMMA CreateSkuSingle ==
  ASSUME TypeInv, SingleInv, NEW s \in Sku, NEW W \in SUBSET Warehouse, CreateSku(s, W)
  PROVE  SingleInv'
<1>1. UNCHANGED <<reservation, tx>>
  BY DEF CreateSku
<1>2. \A k \in Key : /\ level'[k].onHand = level[k].onHand
                     /\ level'[k].reserved = level[k].reserved
                     /\ level'[k].version = level[k].version
                     /\ level'[k].ledger = level[k].ledger
                     /\ level[k].there => level'[k].there
  BY DEF CreateSku, TypeInv, TxTypeOK, LevelRow
<1>3. ASSUME NEW q \in Proc
      PROVE  Single(tx[q])'
  <2>1. PICK u : u = tx[q]
    OBVIOUS
  <2>2. u \in Transaction /\ Prepared(u) /\ Single(u)
    BY <2>1 DEF TypeInv, TxTypeOK, SingleInv
  <2>3. Keeps(u)
    BY <1>1, <1>2 DEF Keeps, WroteBy
  <2>4. Single(u)'
    BY <2>2, <2>3, SingleStays
  <2> QED
    BY <1>1, <2>1, <2>4
<1>4. ResApart' /\ Positive'
  BY <1>1 DEF ResApart, Positive, SingleInv, WroteResBy
<1> QED
  BY <1>3, <1>4 DEF SingleInv

(* What a reservation becomes when the session with record t commits. *)
LEMMA CommittedReservation ==
  ASSUME TypeInv, SingleInv, NEW t \in Transaction, NEW c \in Calls, Done(t, c), NEW r \in WroteResBy(t)
  PROVE  /\ t.newRes[r].status # "NONE" /\ t.newRes[r].qty >= 1
         /\ reservation[r].status # "NONE" =>
              t.newRes[r].key = reservation[r].key /\ t.newRes[r].qty = reservation[r].qty
<1>1. r \in Res /\ t.newRes[r] \in Reservation /\ t.newRes[r].status # "NONE"
  BY DEF WroteResBy, Transaction
<1>2. CASE c.op = "reserve"
  <2>1. PICK k, n : k = t.newRes[r].key /\ n = Plan(c)[k].reserved
    OBVIOUS
  <2>2a. /\ reservation[r].status = "NONE" /\ k \in WroteBy(t)
         /\ t.newRes[r] = [status |-> "ACTIVE", key |-> k, qty |-> n]
    BY <1>2, <2>1 DEF Done, Lines
  <2>2. /\ reservation[r].status = "NONE" /\ k \in WroteBy(t)
        /\ t.newRes[r].qty = Plan(c)[k].reserved
    BY <2>1, <2>2a
  <2>3. k \in Rows(Plan(c)) /\ Plan(c) = c.change
    BY <1>2, <2>2, ReserveCall DEF Done, Plan
  <2>4. Plan(c)[k] # Change(0, 0) /\ Plan(c)[k] \in ChangeRecord /\ k \in Key
    BY <2>3, CallsType DEF Rows, CallRecord
  <2>5. Plan(c)[k].onHand = 0 /\ Plan(c)[k].reserved \in Nat
    BY <1>2, <2>3, <2>4, ReserveCall
  <2>6. Plan(c)[k].reserved # 0
    BY <2>4, <2>5 DEF Change, ChangeRecord
  <2> QED
    BY <1>1, <2>2, <2>5, <2>6
<1>3. CASE c.op # "reserve"
  <2>1. c.r # {}
    BY <1>3 DEF Done
  <2>2. /\ r = Finishes(c) /\ reservation[r].status = "ACTIVE"
        /\ t.newRes[r] = [reservation[r] EXCEPT !.status = c.to]
    BY <2>1 DEF Done
  <2>3. reservation[r] \in Reservation /\ reservation[r].qty >= 1
    BY <1>1, <2>2 DEF TypeInv, TxTypeOK, SingleInv, Positive
  <2>4. t.newRes[r].key = reservation[r].key /\ t.newRes[r].qty = reservation[r].qty
    BY <2>2, <2>3 DEF Reservation
  <2> QED
    BY <1>1, <2>3, <2>4
<1> QED
  BY <1>2, <1>3

LEMMA CommitSingle ==
  ASSUME TypeInv, LocksInv, SingleInv, NEW p \in Proc, Commit(p)
  PROVE  SingleInv'
<1>0. PICK t : t = tx[p]
  OBVIOUS
<1>1. \A q \in Proc : tx'[q] = IF q = p THEN Idle ELSE tx[q]
  BY DEF Commit, Become, TypeInv, TxTypeOK
<1>2. /\ t \in Transaction /\ Single(t) /\ t.pc = "end"
      /\ \A k \in Key : level'[k] = IF k \in WroteBy(t) THEN t.newLevel[k] ELSE level[k]
      /\ \A r \in Res : reservation'[r] = IF r \in WroteResBy(t) THEN t.newRes[r] ELSE reservation[r]
  BY <1>0 DEF Commit, TypeInv, TxTypeOK, SingleInv, LevelAs, ResAs, Wrote, WroteRes, WroteBy, WroteResBy
<1>3. \A r \in WroteResBy(t) :
         /\ t.newRes[r].status # "NONE" /\ t.newRes[r].qty >= 1
         /\ reservation[r].status # "NONE" =>
              t.newRes[r].key = reservation[r].key /\ t.newRes[r].qty = reservation[r].qty
  <2>1. CASE Nothing(t)
    BY <2>1 DEF Nothing
  <2>2. CASE \E c \in Calls : Done(t, c)
    BY <1>2, <2>2, CommittedReservation
  <2> QED
    BY <1>2, <2>1, <2>2 DEF Single
<1>4. ASSUME NEW q \in Proc, q # p
      PROVE  Keeps(tx[q])
  <2>1. WroteResBy(tx[q]) \cap WroteResBy(t) = {}
    BY <1>0, <1>4 DEF SingleInv, ResApart
  <2>2. WroteBy(tx[q]) \cap WroteBy(t) = {}
    <3>1. \A k \in WroteBy(tx[q]) \cap WroteBy(t) : k \in Key /\ Holds(q, k) /\ Holds(p, k)
      BY <1>0 DEF LocksInv, OwnLocks, WroteBy
    <3> QED
      BY <1>4, <3>1, HoldsAlone DEF LocksInv
  <2>3. \A k \in WroteBy(tx[q]) : level'[k] = level[k]
    BY <1>2, <2>2 DEF WroteBy
  <2>4. \A k \in Key : level[k].there => level'[k].there
    BY <1>2 DEF WroteBy
  <2>5. \A r \in WroteResBy(tx[q]) : reservation'[r] = reservation[r]
    BY <1>2, <2>1 DEF WroteResBy
  <2>6. \A r \in Res : reservation[r].status # "NONE" =>
           /\ reservation'[r].status # "NONE"
           /\ reservation'[r].key = reservation[r].key
           /\ reservation'[r].qty = reservation[r].qty
    BY <1>2, <1>3
  <2> QED
    BY <2>3, <2>4, <2>5, <2>6 DEF Keeps
<1>5. ASSUME NEW q \in Proc
      PROVE  Single(tx[q])'
  <2>1. PICK u : u = tx'[q]
    OBVIOUS
  <2>2. CASE q = p
    <3>1. u = Idle /\ Nothing(u) /\ u.pc = "idle"
      BY <1>1, <2>1, <2>2, IdleSingle, IdleFields
    <3>2. Single(u)'
      BY <3>1 DEF Single, Nothing, WroteBy, WroteResBy
    <3> QED
      BY <2>1, <3>2
  <2>3. CASE q # p
    <3>1. u \in Transaction /\ Prepared(u) /\ Single(u) /\ Keeps(u)
      BY <1>1, <1>4, <2>1, <2>3 DEF TypeInv, TxTypeOK, SingleInv
    <3>2. Single(u)'
      BY <3>1, SingleStays
    <3> QED
      BY <2>1, <3>2
  <2> QED
    BY <2>2, <2>3
<1>6. ResApart'
  BY <1>1, IdleSingle DEF ResApart, SingleInv, Nothing, WroteResBy
<1>7. Positive'
  BY <1>2, <1>3 DEF Positive, SingleInv
<1> QED
  BY <1>5, <1>6, <1>7 DEF SingleInv

(* A step that writes no reservation. *)
LEMMA GoesQuietly ==
  ASSUME TypeInv, SingleInv, NEW p \in Proc, NEW t, Goes(p, t), Single(t),
         WroteResBy(t) = WroteResBy(tx[p]) \/ WroteResBy(t) = {}
  PROVE  SingleInv'
<1>1. \A q \in Proc : q # p => WroteResBy(t) \cap WroteResBy(tx[q]) = {}
  BY DEF SingleInv, ResApart
<1> QED
  BY <1>1, GoesSingle

LEMMA StartsSingle ==
  ASSUME NEW u, NEW c, c = Head(u.calls), Nothing(u), u.pc = "lock", Tail(u.calls) = <<>>,
         u.left = Plan(c), c.r # {} => reservation[Finishes(c)].status # "NONE"
  PROVE  Single(u)
<1>1. Working(u, c)
  BY DEF Working, Lines, Nothing
<1> QED
  BY <1>1 DEF Single

LEMMA SameWrites ==
  ASSUME NEW t, NEW u, u.newLevel = t.newLevel, u.newRes = t.newRes
  PROVE  /\ WroteBy(u) = WroteBy(t) /\ WroteResBy(u) = WroteResBy(t)
         /\ Nothing(u) <=> Nothing(t)
         /\ \A c, k : RowWritten(u, c, k) <=> RowWritten(t, c, k)
         /\ \A c : Lines(u, c) <=> Lines(t, c)
         /\ \A c : Done(u, c) <=> Done(t, c)
<1>1. WroteBy(u) = WroteBy(t) /\ WroteResBy(u) = WroteResBy(t)
  BY DEF WroteBy, WroteResBy
<1>2. Nothing(u) <=> Nothing(t)
  BY <1>1 DEF Nothing
<1>3. \A c, k : RowWritten(u, c, k) <=> RowWritten(t, c, k)
  BY DEF RowWritten
<1>4. \A c : Lines(u, c) <=> Lines(t, c)
  BY <1>1 DEF Lines
<1>5. \A c : Done(u, c) <=> Done(t, c)
  BY <1>1, <1>3, <1>4 DEF Done
<1> QED
  BY <1>1, <1>2, <1>3, <1>4, <1>5

LEMMA BeginSingle ==
  ASSUME MaxCalls = 1, TypeInv, SingleInv, NEW p \in Proc, NEW cs \in Transactions, Begin(p, cs)
  PROVE  SingleInv'
<1>1. cs \in Seq(Calls) /\ cs # <<>> /\ Tail(cs) = <<>>
  BY TransactionCalls
<1>2. PICK u, c : u = Enter(Idle, cs) /\ c = Head(cs)
  OBVIOUS
<1>3. /\ u.newLevel = Idle.newLevel /\ u.newRes = Idle.newRes /\ u.calls = cs
      /\ \/ u.pc = "read"
         \/ u.pc = "lock" /\ u.left = c.change /\ c.r = {}
  <2>1. Idle \in Transaction
    BY IdleFields
  <2> QED
    BY <1>1, <1>2, <2>1, EnterFields
<1>4. Goes(p, u) /\ Nothing(u)
  BY <1>2, <1>3, BeginStep, SameWrites, IdleSingle DEF Private, Goes
<1>5. Single(u)
  <2>1. CASE u.pc = "read"
    BY <1>1, <1>3, <1>4, <2>1 DEF Single
  <2>2. CASE u.pc = "lock" /\ u.left = c.change /\ c.r = {}
    BY <1>1, <1>2, <1>3, <1>4, <2>2, StartsSingle DEF Plan
  <2> QED
    BY <1>3, <2>1, <2>2
<1> QED
  BY <1>4, <1>5, GoesQuietly DEF Nothing

LEMMA ReadReservationSingle ==
  ASSUME TypeInv, SingleInv, NEW p \in Proc, ReadReservation(p), ~ Rollback(p)
  PROVE  SingleInv'
<1>1. PICK t, c, row : t = tx[p] /\ c = Head(t.calls) /\ row = ResAs(p, Finishes(c))
  OBVIOUS
<1>2. /\ t.pc = "read" /\ t \in Transaction /\ t.calls # <<>> /\ c.r # {} /\ Finishes(c) \in Res
      /\ row \in Reservation /\ row.status # "NONE"
      /\ \/ Private(p, Start(t, t.calls, FinishChange(c.op, row)))
         \/ Private(p, Enter(t, Tail(t.calls)))
  BY <1>1, ReadReservationStep
<1>3. Nothing(t) /\ Tail(t.calls) = <<>> /\ t.calls \in Seq(Calls)
  BY <1>1, <1>2 DEF SingleInv, Single, Transaction
<1>4. row = reservation[Finishes(c)]
  BY <1>1, <1>2, <1>3 DEF Nothing, WroteResBy, WroteRes, ResAs
<1>5. CASE Private(p, Start(t, t.calls, FinishChange(c.op, row)))
  <2>1. PICK change \in [Key -> ChangeRecord] : change = FinishChange(c.op, row)
    BY <1>2, FinishChangeType
  <2>2. PICK u : u = Start(t, t.calls, change)
    OBVIOUS
  <2>3. /\ u.pc = "lock" /\ u.calls = t.calls /\ u.left = change
        /\ u.newLevel = t.newLevel /\ u.newRes = t.newRes
    BY <1>2, <1>3, <2>2, StartFields
  <2>4. Nothing(u) /\ Goes(p, u)
    BY <1>3, <1>5, <2>1, <2>2, <2>3, SameWrites DEF Private, Goes
  <2>5. u.left = Plan(c)
    BY <1>2, <1>4, <2>1, <2>3 DEF Plan
  <2>6. Single(u)
    BY <1>1, <1>2, <1>3, <1>4, <2>3, <2>4, <2>5, StartsSingle
  <2> QED
    BY <2>4, <2>6, GoesQuietly DEF Nothing
<1>6. CASE Private(p, Enter(t, Tail(t.calls)))
  <2>1. PICK u : u = Enter(t, Tail(t.calls))
    OBVIOUS
  <2>2. u.pc = "end" /\ u.newLevel = t.newLevel /\ u.newRes = t.newRes
    BY <1>2, <1>3, <2>1, CallFields, EnterFields
  <2>3. Nothing(u) /\ Goes(p, u)
    BY <1>3, <1>6, <2>1, <2>2, SameWrites DEF Private, Goes
  <2>4. Single(u)
    BY <2>2, <2>3 DEF Single
  <2> QED
    BY <2>3, <2>4, GoesQuietly DEF Nothing
<1> QED
  BY <1>2, <1>5, <1>6

LEMMA TakeLockSingle ==
  ASSUME TypeInv, SingleInv, NEW p \in Proc, TakeLock(p)
  PROVE  SingleInv'
<1>1. PICK t, u, c : t = tx[p] /\ u = Locked(t, First(t.want)) /\ c = Head(t.calls)
  OBVIOUS
<1>2. t.pc = "lock" /\ t \in Transaction /\ Goes(p, u)
  BY <1>1, TakeLockStep DEF Goes
<1>3. /\ u.newLevel = t.newLevel /\ u.newRes = t.newRes /\ u.left = t.left /\ u.calls = t.calls
      /\ u.pc \in {"lock", "level"}
  BY <1>1, <1>2 DEF Locked, Transaction
<1>4. Working(t, c)
  BY <1>1, <1>2 DEF SingleInv, Single
<1>5. Working(u, c)
  BY <1>3, <1>4, SameWrites DEF Working
<1>6. Single(u)
  BY <1>1, <1>3, <1>5 DEF Single
<1> QED
  BY <1>1, <1>2, <1>3, <1>6, SameWrites, GoesQuietly

LEMMA ReadLevelSingle ==
  ASSUME TypeInv, SingleInv, NEW p \in Proc, ReadLevel(p), ~ Rollback(p)
  PROVE  SingleInv'
<1>1. PICK t, c : t = tx[p] /\ c = Head(t.calls)
  OBVIOUS
<1>2. t.pc = "level" /\ t \in Transaction
  BY <1>1, ReadLevelStep
<1>3. PICK k \in Rows(t.left) :
        /\ LevelAs(p, k).there \/ c.op = "receive"
        /\ Private(p, Checked(t, k, LevelAs(p, k)))
  BY <1>1, ReadLevelStep
<1>4. PICK u, row : row = LevelAs(p, k) /\ u = Checked(t, k, row)
  OBVIOUS
<1>5. /\ u.newLevel = t.newLevel /\ u.newRes = t.newRes /\ u.left = t.left /\ u.calls = t.calls
      /\ u.pc = "update" /\ u.key = k
  BY <1>2, <1>4 DEF Checked, Transaction
<1>6. Working(t, c)
  BY <1>1, <1>2 DEF SingleInv, Single
<1>7. row = level[k]
  <2>1. k \notin WroteBy(t) /\ k \in Key
    BY <1>6 DEF Working, Rows
  <2> QED
    BY <1>1, <1>4, <2>1 DEF LevelAs, Wrote, WroteBy
<1>8. Working(u, c)
  BY <1>3, <1>4, <1>5, <1>6, <1>7, SameWrites DEF Working
<1>9. Single(u) /\ Goes(p, u)
  BY <1>1, <1>3, <1>4, <1>5, <1>8 DEF Single, Private, Goes
<1> QED
  BY <1>1, <1>5, <1>9, SameWrites, GoesQuietly

(* The row that UpdateLevel writes, and the reservation it inserts. *)
LEMMA UpdateLines ==
  ASSUME NEW p \in Proc, NEW t \in Transaction, t = tx[p],
         NEW u, NEW c \in Calls, NEW new \in Inserted(t), c = Head(t.calls), c.op = "reserve", Lines(t, c),
         t.key \in Key \ WroteBy(t), t.left[t.key] = Plan(c)[t.key],
         u.newRes = new, WroteBy(u) = WroteBy(t) \cup {t.key}
  PROVE  /\ Lines(u, c)
         /\ \A q \in Proc : WroteResBy(t) \cap WroteResBy(tx[q]) = {} => WroteResBy(u) \cap WroteResBy(tx[q]) = {}
<1>1. PICK r \in NewId :
        new = [t.newRes EXCEPT ![r] = [status |-> "ACTIVE", key |-> t.key, qty |-> t.left[t.key].reserved]]
  BY DEF Inserted
<1>2. r \in Res /\ reservation[r].status = "NONE" /\ \A q \in Proc : r \notin WroteResBy(tx[q])
  BY DEF NewId, WroteRes, WroteResBy
<1>3. /\ new[r] = [status |-> "ACTIVE", key |-> t.key, qty |-> Plan(c)[t.key].reserved]
      /\ \A x \in Res \ {r} : new[x] = t.newRes[x]
  BY <1>1, <1>2 DEF Transaction
<1>4. new[r].status = "ACTIVE" /\ new[r].key = t.key
  BY <1>3
<1>5. WroteResBy(u) = WroteResBy(t) \cup {r}
  BY <1>2, <1>3, <1>4 DEF WroteResBy
<1>6. \A x \in WroteResBy(t) : x # r => u.newRes[x] = t.newRes[x] /\ t.newRes[x].key \in WroteBy(t)
  BY <1>3 DEF WroteResBy, Lines
<1>7. \A x \in WroteResBy(t) : t.newRes[x].key # t.key
  BY DEF Lines
<1>8. \A x \in WroteResBy(u) :
         /\ reservation[x].status = "NONE"
         /\ u.newRes[x].key \in WroteBy(u)
         /\ u.newRes[x] = [status |-> "ACTIVE", key |-> u.newRes[x].key,
                           qty |-> Plan(c)[u.newRes[x].key].reserved]
  BY <1>2, <1>3, <1>4, <1>5, <1>6 DEF Lines
<1>9. \A x, y \in WroteResBy(u) : u.newRes[x].key = u.newRes[y].key => x = y
  BY <1>4, <1>5, <1>6, <1>7 DEF Lines
<1>10. \A k \in WroteBy(u) : \E x \in WroteResBy(u) : u.newRes[x].key = k
  <2>1. \A k \in WroteBy(t) : \E x \in WroteResBy(u) : u.newRes[x].key = k
    <3> SUFFICES ASSUME NEW k \in WroteBy(t) PROVE \E x \in WroteResBy(u) : u.newRes[x].key = k
      OBVIOUS
    <3>1. PICK x \in WroteResBy(t) : t.newRes[x].key = k
      BY DEF Lines
    <3>2. x # r
      BY <1>2
    <3> QED
      BY <1>5, <1>6, <3>1, <3>2
  <2> QED
    BY <1>4, <1>5, <2>1
<1> QED
  BY <1>2, <1>5, <1>8, <1>9, <1>10 DEF Lines

LEMMA UpdateLevelSingle ==
  ASSUME TypeInv, SingleInv, NEW p \in Proc, UpdateLevel(p), ~ Rollback(p)
  PROVE  SingleInv'
<1>1. PICK t, c, row : t = tx[p] /\ c = Head(t.calls) /\ row = LevelAs(p, t.key)
  OBVIOUS
<1>2. /\ t.pc = "update" /\ t \in Transaction /\ t.calls # <<>> /\ t.key \in Key
      /\ row \in LevelRow
      /\ Fits(c.op, row, t.left[t.key])
  BY <1>1, UpdateLevelStep
<1>3. PICK new \in Inserted(t) : new \in [Res -> Reservation] /\ Private(p, AfterRow(Updated(t, row, new)))
  BY <1>1, UpdateLevelStep
<1>4. PICK u, v : u = Updated(t, row, new) /\ v = AfterRow(u)
  OBVIOUS
<1>5. /\ u \in Transaction /\ u.calls = t.calls /\ u.newRes = new
      /\ \A k \in Key : u.left[k] = IF k = t.key THEN Change(0, 0) ELSE t.left[k]
      /\ \A k \in Key : u.newLevel[k] = IF k = t.key THEN Changed(row, t.left[t.key]) ELSE t.newLevel[k]
      /\ Rows(u.left) = Rows(t.left) \ {t.key}
  <2>1. new \in [Res -> Reservation] /\ t \in Transaction /\ row \in LevelRow /\ u = Updated(t, row, new)
    BY <1>2, <1>3, <1>4
  <2> QED
    BY ONLY <2>1, UpdatedFields
<1>6. c \in Calls /\ Working(t, c)
  BY <1>1, <1>2, CallFields DEF SingleInv, Single
<1>7. /\ t.key \in Rows(t.left) /\ t.key \notin WroteBy(t)
      /\ t.left[t.key] = Plan(c)[t.key] /\ row = level[t.key]
      /\ level[t.key].there \/ c.op = "receive"
  <2>1. t.key \in Rows(t.left) /\ t.key \notin WroteBy(t)
    BY <1>2, <1>6 DEF Working
  <2>2. row = level[t.key]
    BY <1>1, <1>2, <2>1 DEF LevelAs, Wrote, WroteBy
  <2> QED
    BY <1>2, <1>6, <2>1, <2>2 DEF Working
<1>8. WroteBy(u) = WroteBy(t) \cup {t.key}
  BY <1>2, <1>5 DEF WroteBy, Changed
<1>9. /\ WroteBy(u) \cap Rows(u.left) = {}
      /\ WroteBy(u) \cup Rows(u.left) = Rows(Plan(c))
      /\ \A k \in Rows(u.left) : u.left[k] = Plan(c)[k]
  <2>1. \A k \in Rows(u.left) : u.left[k] = t.left[k]
    BY <1>5 DEF Rows
  <2> QED
    BY <1>5, <1>6, <1>7, <1>8, <2>1 DEF Working
<1>10. \A k \in WroteBy(u) : RowWritten(u, c, k)
  <2>1. RowWritten(u, c, t.key)
    BY <1>2, <1>5, <1>7 DEF RowWritten
  <2>2. ASSUME NEW k \in WroteBy(t)
        PROVE  RowWritten(u, c, k)
    <3>1. k \in Key /\ k # t.key /\ RowWritten(t, c, k)
      BY <1>6, <1>7 DEF WroteBy, Working
    <3>2. u.newLevel[k] = t.newLevel[k]
      BY <1>5, <3>1
    <3> QED
      BY <3>1, <3>2 DEF RowWritten
  <2> QED
    BY <1>8, <2>1, <2>2
<1>11. /\ c.op = "reserve" => Lines(u, c)
       /\ c.op # "reserve" => WroteResBy(u) = {}
       /\ \A q \in Proc : q # p => WroteResBy(u) \cap WroteResBy(tx[q]) = {}
  <2>1. \A q \in Proc : q # p => WroteResBy(t) \cap WroteResBy(tx[q]) = {}
    BY <1>1 DEF SingleInv, ResApart
  <2>2. CASE c.op = "reserve"
    <3>1. Lines(t, c)
      BY <1>6, <2>2 DEF Working
    <3>2. /\ Lines(u, c)
          /\ \A q \in Proc : WroteResBy(t) \cap WroteResBy(tx[q]) = {} => WroteResBy(u) \cap WroteResBy(tx[q]) = {}
      BY <1>1, <1>2, <1>3, <1>5, <1>6, <1>7, <1>8, <2>2, <3>1, UpdateLines
    <3> QED
      BY <2>1, <2>2, <3>2
  <2>3. CASE c.op # "reserve"
    <3>1. new = t.newRes
      BY <1>1, <1>3, <2>3 DEF Inserted
    <3>2. WroteResBy(u) = WroteResBy(t)
      BY <1>5, <3>1 DEF WroteResBy
    <3> QED
      BY <1>6, <2>1, <2>3, <3>2 DEF Working
  <2> QED
    BY <2>2, <2>3
<1>12. /\ Tail(t.calls) = <<>>
       /\ c.r # {} => reservation[Finishes(c)].status # "NONE"
  BY <1>6 DEF Working
<1>13. v.newLevel = u.newLevel /\ v.newRes = u.newRes /\ Single(v)
  <2>1. CASE Rows(u.left) # {}
    <3>1. v = [u EXCEPT !.pc = "level"]
      BY <1>4, <2>1 DEF AfterRow
    <3>2. v.pc = "level" /\ v.left = u.left /\ v.newLevel = u.newLevel /\ v.newRes = u.newRes /\ v.calls = u.calls
      BY <1>5, <3>1 DEF Transaction
    <3>3. Working(v, c)
      BY <1>5, <1>9, <1>10, <1>11, <1>12, <3>2, SameWrites DEF Working
    <3> QED
      BY <1>1, <1>5, <3>2, <3>3 DEF Single
  <2>2. CASE Rows(u.left) = {} /\ Head(u.calls).r # {}
    <3>1. v = [u EXCEPT !.pc = "flip"]
      BY <1>4, <2>2 DEF AfterRow
    <3>2. v.pc = "flip" /\ v.left = u.left /\ v.newLevel = u.newLevel /\ v.newRes = u.newRes /\ v.calls = u.calls
      BY <1>5, <3>1 DEF Transaction
    <3>3. Working(v, c)
      BY <1>5, <1>9, <1>10, <1>11, <1>12, <2>2, <3>2, SameWrites DEF Working
    <3> QED
      BY <1>1, <1>5, <3>2, <3>3 DEF Single
  <2>3. CASE Rows(u.left) = {} /\ Head(u.calls).r = {}
    <3>1. v = Enter(u, Tail(u.calls))
      BY <1>4, <2>3 DEF AfterRow
    <3>2. v = Enter(u, <<>>)
      BY <1>5, <1>12, <3>1
    <3>3. v.pc = "end" /\ v.newLevel = u.newLevel /\ v.newRes = u.newRes
      <4>1. <<>> \in Seq(Calls)
        OBVIOUS
      <4> QED
        BY <1>5, <3>2, <4>1, EnterFields
    <3>4. Done(u, c)
      BY <1>1, <1>5, <1>9, <1>10, <1>11, <2>3 DEF Done
    <3>5. Done(v, c)
      BY <3>3, <3>4, SameWrites
    <3> QED
      BY <1>6, <3>3, <3>5 DEF Single
  <2> QED
    BY <2>1, <2>2, <2>3
<1>14. Goes(p, v) /\ WroteResBy(v) = WroteResBy(u)
  BY <1>3, <1>4, <1>13, SameWrites DEF Private, Goes
<1> QED
  BY <1>11, <1>13, <1>14, GoesSingle

LEMMA FlipReservationSingle ==
  ASSUME TypeInv, SingleInv, NEW p \in Proc, FlipReservation(p), ~ Rollback(p)
  PROVE  SingleInv'
<1>1. PICK t, c, r, row : t = tx[p] /\ c = Head(t.calls) /\ r = Finishes(c) /\ row = ResAs(p, r)
  OBVIOUS
<1>2. PICK u, v : u = Flipped(t, r, row, c.to) /\ v = Enter(u, Tail(t.calls))
  OBVIOUS
<1>3. /\ t.pc = "flip" /\ t \in Transaction /\ t.calls # <<>> /\ c.r # {}
      /\ ResFree(p, r) /\ row.status = "ACTIVE"
      /\ u \in Transaction /\ Private(p, v)
  BY <1>1, <1>2, FlipReservationStep
<1>4. c \in Calls /\ Working(t, c)
  BY <1>1, <1>3, CallFields DEF SingleInv, Single
<1>5. /\ r \in Res /\ c.to \in Terminal /\ c.op # "reserve"
  BY <1>1, <1>3, <1>4, FinishCall DEF Terminal
<1>6. WroteResBy(t) = {} /\ row = reservation[r]
  <2>1. WroteResBy(t) = {}
    BY <1>4, <1>5 DEF Working
  <2> QED
    BY <1>1, <1>5, <2>1 DEF ResAs, WroteRes, WroteResBy
<1>7. row \in Reservation
  BY <1>5, <1>6 DEF TypeInv, TxTypeOK
<1>8. /\ u.newLevel = t.newLevel
      /\ \A x \in Res : u.newRes[x] = IF x = r THEN [row EXCEPT !.status = c.to] ELSE t.newRes[x]
  <2>1. c.to \in {"NONE"} \cup Terminal
    BY <1>5
  <2> QED
    BY ONLY <1>2, <1>3, <1>5, <1>7, <2>1, FlippedFields
<1>9. WroteResBy(u) = {r}
  <2>1. [row EXCEPT !.status = c.to].status = c.to /\ c.to # "NONE"
    BY <1>5, <1>7 DEF Reservation, Terminal
  <2> QED
    BY <1>5, <1>6, <1>8, <2>1 DEF WroteResBy
<1>10. Done(u, c)
  <2>1. WroteBy(u) = Rows(Plan(c))
    BY <1>3, <1>4, <1>8 DEF Working, WroteBy
  <2>2. \A k \in WroteBy(u) : RowWritten(u, c, k)
    BY <1>4, <1>8 DEF Working, WroteBy, RowWritten
  <2>3. u.newRes[r] = [reservation[r] EXCEPT !.status = c.to]
    BY <1>5, <1>6, <1>8
  <2> QED
    BY <1>1, <1>3, <1>5, <1>6, <1>9, <2>1, <2>2, <2>3 DEF Done
<1>11. v.pc = "end" /\ v.newLevel = u.newLevel /\ v.newRes = u.newRes
  <2>1. Tail(t.calls) = <<>> /\ <<>> \in Seq(Calls)
    BY <1>4 DEF Working
  <2>2. u \in Transaction /\ v = Enter(u, <<>>)
    BY <1>2, <1>3, <2>1
  <2> QED
    BY ONLY <2>1, <2>2, EnterFields
<1>12. Single(v) /\ Goes(p, v) /\ WroteResBy(v) = {r}
  BY <1>3, <1>4, <1>9, <1>10, <1>11, SameWrites DEF Single, Private, Goes
<1>13. \A q \in Proc : q # p => WroteResBy(v) \cap WroteResBy(tx[q]) = {}
  BY <1>3, <1>12 DEF ResFree, WroteRes, WroteResBy
<1> QED
  BY <1>12, <1>13, GoesSingle

LEMMA NextSingle ==
  ASSUME MaxCalls = 1, TypeInv, LocksInv, SingleInv, [TxNext]_txVars
  PROVE  SingleInv'
<1>1. CASE UNCHANGED txVars
  <2>1. ASSUME NEW q \in Proc
        PROVE  Single(tx[q])'
    <3>1. PICK u : u = tx[q]
      OBVIOUS
    <3>2. u \in Transaction /\ Prepared(u) /\ Single(u)
      BY <3>1 DEF TypeInv, TxTypeOK, SingleInv
    <3>3. Single(u)'
      BY <1>1, <3>2, SameTables, SingleStays DEF txVars
    <3> QED
      BY <1>1, <3>1, <3>3 DEF txVars
  <2>2. ResApart' /\ Positive'
    BY <1>1 DEF txVars, SingleInv, ResApart, Positive, WroteResBy
  <2> QED
    BY <2>1, <2>2 DEF SingleInv
<1>2. ASSUME NEW p \in Proc, Step(p)
      PROVE  SingleInv'
  BY <1>2, RollbackSingle, ReadReservationSingle, TakeLockSingle, ReadLevelSingle,
     UpdateLevelSingle, FlipReservationSingle, CommitSingle DEF Step
<1> QED
  BY <1>1, <1>2, CreateSkuSingle, BeginSingle, RollbackSingle DEF TxNext, Abort

LEMMA InitSingle == TxInit => SingleInv
<1> SUFFICES ASSUME TxInit PROVE SingleInv
  OBVIOUS
<1>1. \A p \in Proc : tx[p] = Idle
  BY DEF TxInit
<1>2. ResApart
  BY <1>1, IdleSingle DEF ResApart, Nothing
<1>3. Positive
  BY DEF TxInit, Positive, NoReservation
<1> QED
  BY <1>1, <1>2, <1>3, IdleSingle DEF SingleInv

-----------------------------------------------------------------------------
(* The refinement: what is committed is one step of Inventory.             *)

(* The rows of a plan are changed by it, and the others stay. *)
Applied(plan) ==
    /\ \A k \in Key \ Rows(plan) : level'[k] = level[k]
    /\ \A k \in Rows(plan) :
        /\ level'[k].there
        /\ level'[k].onHand = level[k].onHand + plan[k].onHand
        /\ level'[k].reserved = level[k].reserved + plan[k].reserved
        /\ level'[k].ledger = WriteMovement(level[k].ledger, plan[k].onHand, plan[k].reserved,
                                            level[k].onHand + plan[k].onHand)

LEMMA CommitApplies ==
  ASSUME TypeInv, SingleInv, NEW p \in Proc, Commit(p)
  PROVE  \/ UNCHANGED <<level, reservation>>
         \/ \E c \in Calls :
              /\ Done(tx[p], c)
              /\ Applied(Plan(c))
              /\ \A r \in Res : reservation'[r] =
                   IF r \in WroteResBy(tx[p]) THEN tx[p].newRes[r] ELSE reservation[r]
<1>0. PICK t : t = tx[p]
  OBVIOUS
<1>1. /\ t \in Transaction /\ Single(t) /\ t.pc = "end"
      /\ \A k \in Key : level'[k] = IF k \in WroteBy(t) THEN t.newLevel[k] ELSE level[k]
      /\ \A r \in Res : reservation'[r] = IF r \in WroteResBy(t) THEN t.newRes[r] ELSE reservation[r]
  BY <1>0 DEF Commit, TypeInv, TxTypeOK, SingleInv, LevelAs, ResAs, Wrote, WroteRes, WroteBy, WroteResBy
<1>2. CASE Nothing(t)
  <2>1. (\A k \in Key : level'[k] = level[k]) /\ (\A r \in Res : reservation'[r] = reservation[r])
    BY <1>1, <1>2 DEF Nothing
  <2>2. level' = level
    BY <2>1 DEF Commit, TypeInv, TxTypeOK
  <2>3. reservation' = reservation
    BY <2>1 DEF Commit, TypeInv, TxTypeOK
  <2> QED
    BY <2>2, <2>3
<1>3. ASSUME NEW c \in Calls, Done(t, c)
      PROVE  Applied(Plan(c))
  <2>1. WroteBy(t) = Rows(Plan(c)) /\ \A k \in WroteBy(t) : RowWritten(t, c, k)
    BY <1>3 DEF Done
  <2>2. \A k \in Key \ Rows(Plan(c)) : level'[k] = level[k]
    BY <1>1, <2>1
  <2>3. ASSUME NEW k \in Rows(Plan(c))
        PROVE  /\ level'[k].there
               /\ level'[k].onHand = level[k].onHand + Plan(c)[k].onHand
               /\ level'[k].reserved = level[k].reserved + Plan(c)[k].reserved
               /\ level'[k].ledger = WriteMovement(level[k].ledger, Plan(c)[k].onHand, Plan(c)[k].reserved,
                                                   level[k].onHand + Plan(c)[k].onHand)
    <3>1. level'[k] = Changed(level[k], Plan(c)[k])
      BY <1>1, <2>1 DEF RowWritten, Rows
    <3> QED
      BY <3>1 DEF Changed
  <2> QED
    BY <2>2, <2>3 DEF Applied
<1> QED
  BY <1>0, <1>1, <1>2, <1>3 DEF Single

(* A change to one row, where a and b are what it adds to the counters. *)
LEMMA OneRow ==
  ASSUME NEW plan, Applied(plan), NEW j \in Key, Rows(plan) = {j},
         NEW a, NEW b, NEW x, NEW y, plan[j].onHand = a, plan[j].reserved = b,
         level[j].onHand + a = x, level[j].reserved + b = y
  PROVE  /\ \A k \in Key : k # j => level'[k] = level[k]
         /\ level'[j].there /\ level'[j].onHand = x /\ level'[j].reserved = y
         /\ level'[j].ledger = WriteMovement(level[j].ledger, a, b, x)
BY DEF Applied

LEMMA FinishMaps ==
  ASSUME TypeInv, SingleInv, NEW t \in Transaction, NEW c \in Calls, c.r # {},
         Done(t, c), Applied(Plan(c)),
         \A r \in Res : reservation'[r] = IF r \in WroteResBy(t) THEN t.newRes[r] ELSE reservation[r],
         reservation' \in [Res -> Reservation]
  PROVE  \/ \E r \in Res, to \in {"RELEASED", "EXPIRED"} : Tables!ReleaseReservation(r, to)
         \/ \E r \in Res : Tables!CommitReservation(r)
<1>1. PICK r \in Res : r = Finishes(c)
  BY FinishCall
<1>2. PICK row : row = reservation[r]
  OBVIOUS
<1>3. /\ row \in Reservation /\ row.status = "ACTIVE" /\ row.qty >= 1
      /\ reservation \in [Res -> Reservation]
      /\ WroteResBy(t) = {r} /\ t.newRes[r] = [row EXCEPT !.status = c.to]
  BY <1>1, <1>2 DEF TypeInv, TxTypeOK, SingleInv, Positive, Done
<1>4. PICK j, n : j = row.key /\ n = row.qty
  OBVIOUS
<1>5. j \in Key /\ n \in Nat \ {0}
  BY <1>3, <1>4 DEF Reservation
<1>6. PICK plan : plan = Plan(c)
  OBVIOUS
<1>7. /\ plan[j] = Change(IF c.op = "commit" THEN -n ELSE 0, -n)
      /\ \A k \in Key : k # j => plan[k] = Change(0, 0)
  BY <1>1, <1>2, <1>3, <1>4, <1>5, <1>6, FinishChangeType DEF Plan
<1>8. Rows(plan) = {j}
  BY <1>5, <1>7 DEF Rows, Change
<1>9. RowWritten(t, c, j)
  BY <1>6, <1>8 DEF Done
<1>10. reservation' = [reservation EXCEPT ![r].status = c.to]
  BY <1>2, <1>3
<1>11. /\ level[j] \in LevelRow /\ level[j].there
       /\ Fits(c.op, level[j], plan[j])
  BY <1>5, <1>6, <1>9, FinishCall DEF RowWritten, TypeInv, TxTypeOK
<1>12. {k \in Key : level'[k].there} = {k \in Key : level[k].there}
  BY <1>5, <1>6, <1>8, <1>11 DEF Applied
<1>13. CASE c.op = "release" /\ c.to \in {"RELEASED", "EXPIRED"}
  <2>1. plan[j].onHand = 0 /\ plan[j].reserved = -n
    BY <1>7, <1>13 DEF Change
  <2>2. /\ [k \in Key |-> level'[k].onHand] = [k \in Key |-> level[k].onHand]
        /\ [k \in Key |-> level'[k].reserved]
             = [[k \in Key |-> level[k].reserved] EXCEPT ![j] = level[j].reserved - n]
        /\ [k \in Key |-> level'[k].ledger]
             = [[k \in Key |-> level[k].ledger]
                 EXCEPT ![j] = WriteMovement(level[j].ledger, 0, -n, level[j].onHand)]
    <3>1. level[j].onHand + 0 = level[j].onHand /\ level[j].reserved + (-n) = level[j].reserved - n
      BY <1>5, <1>11 DEF LevelRow
    <3>2. PICK m : m = -n
      OBVIOUS
    <3>3. /\ \A k \in Key : k # j => level'[k] = level[k]
          /\ level'[j].onHand = level[j].onHand /\ level'[j].reserved = level[j].reserved - n
          /\ level'[j].ledger = WriteMovement(level[j].ledger, 0, m, level[j].onHand)
      BY <1>5, <1>6, <1>8, <2>1, <3>1, <3>2, OneRow
    <3> QED
      BY <1>5, <3>2, <3>3
  <2>3. level[j].reserved >= n
    BY <1>5, <1>11, <2>1 DEF Fits, LevelRow
  <2>4. Tables!ReleaseReservation(r, c.to)
    BY <1>1, <1>2, <1>3, <1>4, <1>5, <1>10, <1>12, <2>2, <2>3
    DEF Tables!ReleaseReservation, Tables!WriteMovement, WriteMovement
  <2> QED
    BY <1>13, <2>4
<1>14. CASE c.op = "commit" /\ c.to = "CONSUMED"
  <2>1. plan[j].onHand = -n /\ plan[j].reserved = -n
    BY <1>7, <1>14 DEF Change
  <2>2. /\ [k \in Key |-> level'[k].onHand]
             = [[k \in Key |-> level[k].onHand] EXCEPT ![j] = level[j].onHand - n]
        /\ [k \in Key |-> level'[k].reserved]
             = [[k \in Key |-> level[k].reserved] EXCEPT ![j] = level[j].reserved - n]
        /\ [k \in Key |-> level'[k].ledger]
             = [[k \in Key |-> level[k].ledger]
                 EXCEPT ![j] = WriteMovement(level[j].ledger, -n, -n, level[j].onHand - n)]
    <3>1. level[j].onHand + (-n) = level[j].onHand - n /\ level[j].reserved + (-n) = level[j].reserved - n
      BY <1>5, <1>11 DEF LevelRow
    <3>2. PICK m : m = -n
      OBVIOUS
    <3>3. /\ \A k \in Key : k # j => level'[k] = level[k]
          /\ level'[j].onHand = level[j].onHand - n /\ level'[j].reserved = level[j].reserved - n
          /\ level'[j].ledger = WriteMovement(level[j].ledger, m, m, level[j].onHand - n)
      BY <1>5, <1>6, <1>8, <2>1, <3>1, <3>2, OneRow
    <3> QED
      BY <1>5, <3>2, <3>3
  <2>3. level[j].reserved >= n /\ level[j].onHand >= n
    BY <1>5, <1>11, <2>1 DEF Fits, LevelRow
  <2>4. Tables!CommitReservation(r)
    BY <1>1, <1>2, <1>3, <1>4, <1>5, <1>10, <1>12, <1>14, <2>2, <2>3
    DEF Tables!CommitReservation, Tables!WriteMovement, WriteMovement
  <2> QED
    BY <2>4
<1> QED
  BY <1>13, <1>14, FinishCall

LEMMA OneRowMaps ==
  ASSUME TypeInv, NEW t \in Transaction, NEW c \in OneRowCalls,
         Done(t, c), Applied(Plan(c)), reservation' = reservation
  PROVE  \/ \E k \in Key, q \in Qty : Tables!Restock(k, q)
         \/ \E k \in Key, q \in Qty : Tables!ReceiveStock(k, q)
         \/ \E k \in Key, delta \in -MaxQty .. MaxQty : Tables!Adjust(k, delta)
<1>1. PICK j \in Key, a \in Int :
        /\ c = Call(c.op, [NoChange EXCEPT ![j] = Change(a, 0)])
        /\ \/ c.op \in {"restock", "receive"} /\ a \in Qty
           \/ c.op = "adjust" /\ a \in (-MaxQty .. MaxQty) \ {0}
  BY QtyType DEF OneRowCalls, Call
<1>2. a # 0
  BY <1>1, QtyType
<1>3. PICK plan : plan = Plan(c)
  OBVIOUS
<1>4. plan[j] = Change(a, 0) /\ \A k \in Key : k # j => plan[k] = Change(0, 0)
  BY <1>1, <1>3, NoChangeType DEF Plan, Call
<1>5. Rows(plan) = {j} /\ plan[j].onHand = a /\ plan[j].reserved = 0
  BY <1>2, <1>4 DEF Rows, Change
<1>6. /\ level[j] \in LevelRow
      /\ Fits(c.op, level[j], plan[j])
      /\ level[j].there \/ c.op = "receive"
  BY <1>3, <1>5 DEF Done, RowWritten, TypeInv, TxTypeOK
<1>7. PICK x : x = level[j].onHand + a
  OBVIOUS
<1>8. level[j].reserved + 0 = level[j].reserved
  BY <1>6 DEF LevelRow
<1>9. /\ \A k \in Key : k # j => level'[k] = level[k]
      /\ level'[j].there /\ level'[j].onHand = x /\ level'[j].reserved = level[j].reserved
      /\ level'[j].ledger = WriteMovement(level[j].ledger, a, 0, x)
  BY <1>3, <1>5, <1>7, <1>8, OneRow
<1>10. /\ [k \in Key |-> level'[k].onHand] = [[k \in Key |-> level[k].onHand] EXCEPT ![j] = x]
       /\ [k \in Key |-> level'[k].reserved] = [k \in Key |-> level[k].reserved]
       /\ [k \in Key |-> level'[k].ledger]
            = [[k \in Key |-> level[k].ledger] EXCEPT ![j] = WriteMovement(level[j].ledger, a, 0, x)]
       /\ {k \in Key : level'[k].there} = {k \in Key : level[k].there} \cup {j}
  BY <1>9
<1>11. x \in 0 .. MaxOnHand /\ (c.op = "adjust" => x >= level[j].reserved)
  BY <1>5, <1>6, <1>7, <1>8 DEF Fits
<1>12. x >= 0 /\ x <= MaxOnHand
  BY <1>11, InventoryAssumption
<1>13. CASE c.op = "restock"
  <2>1. {k \in Key : level[k].there} \cup {j} = {k \in Key : level[k].there}
    BY <1>6, <1>13
  <2>2. Tables!Restock(j, a)
    BY <1>6, <1>7, <1>10, <1>12, <1>13, <2>1 DEF Tables!Restock, Tables!WriteMovement, WriteMovement
  <2> QED
    BY <1>1, <1>13, <2>2
<1>14. CASE c.op = "receive"
  <2>1. Tables!ReceiveStock(j, a)
    BY <1>7, <1>10, <1>12 DEF Tables!ReceiveStock, Tables!WriteMovement, WriteMovement
  <2> QED
    BY <1>1, <1>14, <2>1
<1>15. CASE c.op = "adjust"
  <2>1. {k \in Key : level[k].there} \cup {j} = {k \in Key : level[k].there}
    BY <1>6, <1>15
  <2>2. Tables!Adjust(j, a)
    BY <1>2, <1>6, <1>7, <1>10, <1>11, <1>12, <1>15, <2>1 DEF Tables!Adjust, Tables!WriteMovement, WriteMovement
  <2> QED
    BY <1>1, <1>15, <2>2
<1> QED
  BY <1>1, <1>13, <1>14, <1>15

LEMMA TransferMaps ==
  ASSUME TypeInv, NEW t \in Transaction, NEW c \in TransferCalls,
         Done(t, c), Applied(Plan(c)), reservation' = reservation
  PROVE  \E s \in Sku, from, to \in Warehouse, q \in Qty : Tables!Transfer(s, from, to, q)
<1>1. PICK from \in Warehouse : c \in {Call("transfer", Moved(s, from, to, q)) :
                                         s \in Sku, to \in Warehouse \ {from}, q \in Qty}
  BY DEF TransferCalls
<1>2. PICK s \in Sku, to \in Warehouse \ {from}, q \in Qty : c = Call("transfer", Moved(s, from, to, q))
  BY <1>1
<1>3. PICK i, j, m : i = <<s, from>> /\ j = <<s, to>> /\ m = -q
  OBVIOUS
<1>4. i \in Key /\ j \in Key /\ i # j /\ q \in Nat \ {0} /\ m \in Int /\ m # 0
  BY <1>3, QtyType DEF Key
<1>5. PICK plan : plan = Plan(c)
  OBVIOUS
<1>6. /\ plan[i] = Change(m, 0) /\ plan[j] = Change(q, 0)
      /\ \A k \in Key : k # i /\ k # j => plan[k] = Change(0, 0)
  <2>1. plan = [NoChange EXCEPT ![i] = Change(m, 0), ![j] = Change(q, 0)]
    BY <1>2, <1>3, <1>5 DEF Plan, Call, Moved
  <2> QED
    BY <1>4, <2>1, NoChangeType
<1>7. /\ Rows(plan) = {i, j}
      /\ plan[i].onHand = m /\ plan[i].reserved = 0 /\ plan[j].onHand = q /\ plan[j].reserved = 0
  BY <1>4, <1>6 DEF Rows, Change
<1>8. /\ level[i] \in LevelRow /\ level[j] \in LevelRow
      /\ Fits("transfer", level[i], plan[i]) /\ Fits("transfer", level[j], plan[j])
      /\ level[i].there /\ level[j].there
  <2>1. c.op = "transfer"
    BY <1>2 DEF Call
  <2>2. RowWritten(t, c, i) /\ RowWritten(t, c, j)
    BY <1>5, <1>7 DEF Done
  <2> QED
    BY <1>4, <1>5, <2>1, <2>2 DEF RowWritten, TypeInv, TxTypeOK
<1>9. PICK x, y : x = level[i].onHand - q /\ y = level[j].onHand + q
  OBVIOUS
<1>10. /\ level[i].onHand + m = x /\ level[j].onHand + q = y
       /\ level[i].reserved + 0 = level[i].reserved /\ level[j].reserved + 0 = level[j].reserved
  BY <1>3, <1>4, <1>8, <1>9 DEF LevelRow
<1>11. /\ \A k \in Key : k # i /\ k # j => level'[k] = level[k]
       /\ level'[i].there /\ level'[i].onHand = x /\ level'[i].reserved = level[i].reserved
       /\ level'[i].ledger = WriteMovement(level[i].ledger, m, 0, x)
       /\ level'[j].there /\ level'[j].onHand = y /\ level'[j].reserved = level[j].reserved
       /\ level'[j].ledger = WriteMovement(level[j].ledger, q, 0, y)
  <2>1. Applied(plan)
    BY <1>5
  <2>2. \A k \in Key : k # i /\ k # j => level'[k] = level[k]
    BY <1>7, <2>1 DEF Applied
  <2>3. /\ level'[i].there /\ level'[i].onHand = x /\ level'[i].reserved = level[i].reserved
        /\ level'[i].ledger = WriteMovement(level[i].ledger, m, 0, x)
    BY <1>7, <1>10, <2>1 DEF Applied
  <2>4. /\ level'[j].there /\ level'[j].onHand = y /\ level'[j].reserved = level[j].reserved
        /\ level'[j].ledger = WriteMovement(level[j].ledger, q, 0, y)
    BY <1>7, <1>10, <2>1 DEF Applied
  <2> QED
    BY <2>2, <2>3, <2>4
<1>12. /\ [k \in Key |-> level'[k].onHand]
            = [[k \in Key |-> level[k].onHand] EXCEPT ![i] = x, ![j] = y]
       /\ [k \in Key |-> level'[k].reserved] = [k \in Key |-> level[k].reserved]
       /\ [k \in Key |-> level'[k].ledger]
            = [[k \in Key |-> level[k].ledger] EXCEPT ![i] = WriteMovement(level[i].ledger, m, 0, x),
                                                      ![j] = WriteMovement(level[j].ledger, q, 0, y)]
       /\ {k \in Key : level'[k].there} = {k \in Key : level[k].there}
  BY <1>4, <1>8, <1>11
<1>13. level[i].onHand - level[i].reserved >= q /\ y <= MaxOnHand
  <2>1. x >= level[i].reserved /\ y \in 0 .. MaxOnHand
    BY <1>7, <1>8, <1>10 DEF Fits
  <2> QED
    BY <1>4, <1>8, <1>9, <2>1, InventoryAssumption DEF LevelRow
<1>14. Tables!Transfer(s, from, to, q)
  BY <1>2, <1>3, <1>4, <1>8, <1>9, <1>12, <1>13
  DEF Tables!Transfer, Tables!Available, Tables!WriteMovement, WriteMovement
<1> QED
  BY <1>14

LEMMA ReserveCallRows ==
  ASSUME NEW c \in ReserveCalls
  PROVE  /\ c.op = "reserve" /\ c.r = {}
         /\ \E d \in Demands :
              /\ Rows(c.change) = DOMAIN d
              /\ \A k \in DOMAIN d : c.change[k].onHand = 0 /\ c.change[k].reserved = d[k]
<1>1. PICK d \in Demands : c = Call("reserve", [k \in Key |-> Change(0, IF k \in DOMAIN d THEN d[k] ELSE 0)])
  BY DEF ReserveCalls
<1>2. PICK K \in (SUBSET Key) \ {{}} : d \in [K -> Qty]
  BY DEF Demands
<1>3. \A k \in K : k \in Key /\ c.change[k] = Change(0, d[k])
  BY <1>1, <1>2 DEF Call
<1>4. \A k \in Key \ K : c.change[k] = Change(0, 0)
  BY <1>1, <1>2 DEF Call
<1>5. \A k \in K : d[k] # 0
  BY <1>2, QtyType
<1>6. \A k \in K : Change(0, d[k]) # Change(0, 0)
  BY <1>5 DEF Change
<1>7. Rows(c.change) = K
  BY <1>3, <1>4, <1>6 DEF Rows
<1>8. \A k \in K : c.change[k].onHand = 0 /\ c.change[k].reserved = d[k]
  <2>1. \A k \in K : Change(0, d[k]).onHand = 0 /\ Change(0, d[k]).reserved = d[k]
    BY DEF Change
  <2> QED
    BY <1>3, <2>1
<1>9. DOMAIN d = K /\ c.op = "reserve" /\ c.r = {}
  BY <1>1, <1>2 DEF Call
<1> QED
  BY <1>7, <1>8, <1>9

LEMMA ReserveMaps ==
  ASSUME TypeInv, NEW t \in Transaction, NEW c \in ReserveCalls, Done(t, c), Applied(Plan(c)),
         \A r \in Res : reservation'[r] = IF r \in WroteResBy(t) THEN t.newRes[r] ELSE reservation[r],
         reservation' \in [Res -> Reservation]
  PROVE  \E demand \in Tables!Demands : \E ids \in [DOMAIN demand -> Res] : Tables!ReserveMany(demand, ids)
<1>1. c.op = "reserve" /\ c.r = {}
  BY ReserveCallRows
<1>2. PICK plan : plan = Plan(c)
  OBVIOUS
<1>3. plan = c.change
  BY <1>1, <1>2 DEF Plan
<1>4. PICK d \in Demands :
        /\ Rows(plan) = DOMAIN d
        /\ \A k \in DOMAIN d : plan[k].onHand = 0 /\ plan[k].reserved = d[k]
  BY <1>3, ReserveCallRows
<1> DEFINE K == DOMAIN d
<1>5. /\ K \subseteq Key
      /\ \A k \in K : d[k] \in Nat
      /\ Rows(plan) = K
      /\ \A k \in K : plan[k].onHand = 0 /\ plan[k].reserved = d[k]
  BY <1>4, QtyType DEF Demands
<1>6. d \in Tables!Demands
  BY DEF Tables!Demands, Demands, Tables!Key, Key, Tables!Qty, Qty
<1>7. /\ WroteBy(t) = K /\ Lines(t, c)
      /\ \A k \in K : RowWritten(t, c, k)
  BY <1>1, <1>2, <1>5 DEF Done
<1>8. PICK ids : ids = [k \in K |-> CHOOSE r \in WroteResBy(t) : t.newRes[r].key = k]
  OBVIOUS
<1>9. \A k \in K : /\ ids[k] \in WroteResBy(t) /\ ids[k] \in Res
                   /\ t.newRes[ids[k]].key = k
                   /\ reservation[ids[k]].status = "NONE"
  <2> SUFFICES ASSUME NEW k \in K
               PROVE  /\ ids[k] \in WroteResBy(t) /\ ids[k] \in Res
                      /\ t.newRes[ids[k]].key = k
                      /\ reservation[ids[k]].status = "NONE"
    OBVIOUS
  <2>1. \E r \in WroteResBy(t) : t.newRes[r].key = k
    BY <1>7 DEF Lines
  <2>2. ids[k] = CHOOSE r \in WroteResBy(t) : t.newRes[r].key = k
    BY <1>8
  <2>3. ids[k] \in WroteResBy(t) /\ t.newRes[ids[k]].key = k
    BY <2>1, <2>2
  <2> QED
    BY <1>7, <2>3 DEF Lines, WroteResBy
<1>10. ids \in [K -> Res]
  BY <1>8, <1>9
<1>11. \A k, j \in K : ids[k] = ids[j] => k = j
  BY <1>9
<1>12. \A r \in WroteResBy(t) : \E k \in K : ids[k] = r
  <2> SUFFICES ASSUME NEW r \in WroteResBy(t) PROVE \E k \in K : ids[k] = r
    OBVIOUS
  <2>1. t.newRes[r].key \in K
    BY <1>7 DEF Lines
  <2>2. t.newRes[ids[t.newRes[r].key]].key = t.newRes[r].key
    BY <1>9, <2>1
  <2> QED
    BY <1>7, <1>9, <2>1, <2>2 DEF Lines
<1>13. \A k \in K : t.newRes[ids[k]] = [status |-> "ACTIVE", key |-> k, qty |-> d[k]]
  <2> SUFFICES ASSUME NEW k \in K
               PROVE  t.newRes[ids[k]] = [status |-> "ACTIVE", key |-> k, qty |-> d[k]]
    OBVIOUS
  <2>1. t.newRes[ids[k]] = [status |-> "ACTIVE", key |-> k, qty |-> plan[k].reserved]
    BY <1>2, <1>7, <1>9 DEF Lines
  <2> QED
    BY <1>5, <2>1
<1>14. \A k \in K : /\ level[k] \in LevelRow /\ level[k].there
                    /\ level[k].onHand - level[k].reserved >= d[k]
                    /\ level[k].onHand + 0 = level[k].onHand /\ d[k] \in Nat
  <2> SUFFICES ASSUME NEW k \in K
               PROVE  /\ level[k] \in LevelRow /\ level[k].there
                      /\ level[k].onHand - level[k].reserved >= d[k]
                      /\ level[k].onHand + 0 = level[k].onHand /\ d[k] \in Nat
    OBVIOUS
  <2>1. /\ level[k] \in LevelRow /\ level[k].there
        /\ Fits("reserve", level[k], plan[k])
    BY <1>1, <1>2, <1>5, <1>7 DEF RowWritten, TypeInv, TxTypeOK
  <2>2. level[k].onHand + 0 >= level[k].reserved + d[k]
    BY <1>5, <2>1 DEF Fits
  <2> QED
    BY <1>5, <2>1, <2>2 DEF LevelRow
<1>15. /\ \A k \in Key \ K : level'[k] = level[k]
       /\ \A k \in K : /\ level'[k].there /\ level'[k].onHand = level[k].onHand
                       /\ level'[k].reserved = level[k].reserved + d[k]
                       /\ level'[k].ledger = WriteMovement(level[k].ledger, 0, d[k], level[k].onHand)
  <2>1. Applied(plan)
    BY <1>2
  <2> QED
    BY <1>5, <1>14, <2>1 DEF Applied
<1>16. {k \in Key : level'[k].there} = {k \in Key : level[k].there}
       /\ [k \in Key |-> level'[k].onHand] = [k \in Key |-> level[k].onHand]
  BY <1>14, <1>15
<1>17. [k \in Key |-> level'[k].reserved]
         = [k \in Key |-> IF k \in DOMAIN d THEN [j \in Key |-> level[j].reserved][k] + d[k]
                          ELSE [j \in Key |-> level[j].reserved][k]]
  BY <1>15
<1>18. [k \in Key |-> level'[k].ledger]
         = [k \in Key |-> IF k \in DOMAIN d
                          THEN WriteMovement([j \in Key |-> level[j].ledger][k], 0, d[k],
                                             [j \in Key |-> level[j].onHand][k])
                          ELSE [j \in Key |-> level[j].ledger][k]]
  BY <1>15
<1>19. \A r \in Res : reservation'[r] =
         IF \E k \in K : ids[k] = r
         THEN LET k == CHOOSE k \in K : ids[k] = r IN [status |-> "ACTIVE", key |-> k, qty |-> d[k]]
         ELSE reservation[r]
  <2> SUFFICES ASSUME NEW r \in Res
               PROVE  reservation'[r] =
                        IF \E k \in K : ids[k] = r
                        THEN LET k == CHOOSE k \in K : ids[k] = r
                             IN [status |-> "ACTIVE", key |-> k, qty |-> d[k]]
                        ELSE reservation[r]
    OBVIOUS
  <2>1. CASE r \notin WroteResBy(t)
    <3>1. ~ \E k \in K : ids[k] = r
      BY <1>9, <2>1
    <3> QED
      BY <2>1, <3>1
  <2>2. CASE r \in WroteResBy(t)
    <3>1. PICK k \in K : ids[k] = r
      BY <1>12, <2>2
    <3>2. (CHOOSE j \in K : ids[j] = r) = k
      BY <1>11, <3>1
    <3>3. reservation'[r] = [status |-> "ACTIVE", key |-> k, qty |-> d[k]]
      BY <1>13, <2>2, <3>1
    <3> QED
      BY <3>1, <3>2, <3>3
  <2> QED
    BY <2>1, <2>2
<1>20. reservation' = [r \in Res |->
         IF \E k \in K : ids[k] = r
         THEN LET k == CHOOSE k \in K : ids[k] = r IN [status |-> "ACTIVE", key |-> k, qty |-> d[k]]
         ELSE reservation[r]]
  BY <1>19
<1>21. Tables!ReserveMany(d, ids)
  <2>1. \A k \in DOMAIN d : /\ k \in {j \in Key : level[j].there}
                            /\ Tables!Available(k) >= d[k]
                            /\ reservation[ids[k]].status = "NONE"
    BY <1>5, <1>9, <1>14 DEF Tables!Available
  <2> QED
    BY <1>11, <1>16, <1>17, <1>18, <1>20, <2>1
    DEF Tables!ReserveMany, Tables!Key, Key, Tables!WriteMovement, WriteMovement
<1> QED
  BY <1>6, <1>10, <1>21

LEMMA CommitMaps ==
  ASSUME TypeInv, SingleInv, NEW p \in Proc, Commit(p)
  PROVE  Tables!Next \/ UNCHANGED <<level, reservation>>
<1>1. CASE UNCHANGED <<level, reservation>>
  BY <1>1
<1>2. ASSUME NEW c \in Calls, Done(tx[p], c), Applied(Plan(c)),
             \A r \in Res : reservation'[r] =
               IF r \in WroteResBy(tx[p]) THEN tx[p].newRes[r] ELSE reservation[r]
      PROVE  Tables!Next
  <2>0. PICK t : t = tx[p]
    OBVIOUS
  <2>1. /\ t \in Transaction /\ Done(t, c)
        /\ \A r \in Res : reservation'[r] = IF r \in WroteResBy(t) THEN t.newRes[r] ELSE reservation[r]
    BY <1>2, <2>0 DEF TypeInv, TxTypeOK
  <2>2. reservation' \in [Res -> Reservation]
    BY CommitType DEF TypeInv, TxTypeOK
  <2>3. c.op # "reserve" /\ c.r = {} => reservation' = reservation
    BY <2>1, <2>2 DEF Done, TypeInv, TxTypeOK
  <2>4. Tables!Key = Key /\ Tables!Qty = Qty
    BY DEF Tables!Key, Key, Tables!Qty, Qty
  <2>5. CASE c \in ReserveCalls
    BY <1>2, <2>1, <2>2, <2>5, ReserveMaps DEF Tables!Next
  <2>6. CASE c \in FinishCalls
    <3>1. c.r # {}
      BY <2>6 DEF FinishCalls, Finish
    <3> QED
      BY <1>2, <2>1, <2>2, <3>1, FinishMaps DEF Tables!Next
  <2>7. CASE c \in OneRowCalls
    <3>1. c.op # "reserve" /\ c.r = {}
      BY <2>7 DEF OneRowCalls, Call
    <3>2. \/ \E k \in Key, q \in Qty : Tables!Restock(k, q)
          \/ \E k \in Key, q \in Qty : Tables!ReceiveStock(k, q)
          \/ \E k \in Key, delta \in -MaxQty .. MaxQty : Tables!Adjust(k, delta)
      BY <1>2, <2>1, <2>3, <2>7, <3>1, OneRowMaps
    <3> QED
      BY <2>4, <3>2 DEF Tables!Next
  <2>8. CASE c \in TransferCalls
    <3>1. c.op # "reserve" /\ c.r = {}
      BY <2>8 DEF TransferCalls, Call
    <3>2. \E s \in Sku, from, to \in Warehouse, q \in Qty : Tables!Transfer(s, from, to, q)
      BY <1>2, <2>1, <2>3, <2>8, <3>1, TransferMaps
    <3> QED
      BY <2>4, <3>2 DEF Tables!Next
  <2> QED
    BY <2>5, <2>6, <2>7, <2>8 DEF Calls
<1> QED
  BY <1>1, <1>2, CommitApplies

LEMMA CreateSkuMaps ==
  ASSUME TypeInv, NEW s \in Sku, NEW W \in SUBSET Warehouse, CreateSku(s, W)
  PROVE  Tables!Next
<1>1. \A k \in Key : /\ level'[k].there <=> level[k].there \/ k \in {s} \X W
                     /\ level'[k].onHand = level[k].onHand
                     /\ level'[k].reserved = level[k].reserved
                     /\ level'[k].ledger = level[k].ledger
  BY DEF CreateSku, TypeInv, TxTypeOK, LevelRow
<1>2. {s} \X W \subseteq Key
  BY DEF Key
<1>3. {k \in Key : level'[k].there} = {k \in Key : level[k].there} \cup ({s} \X W)
  BY <1>1, <1>2
<1>4. /\ [k \in Key |-> level'[k].onHand] = [k \in Key |-> level[k].onHand]
      /\ [k \in Key |-> level'[k].reserved] = [k \in Key |-> level[k].reserved]
      /\ [k \in Key |-> level'[k].ledger] = [k \in Key |-> level[k].ledger]
  BY <1>1
<1>5. reservation' = reservation
  BY DEF CreateSku
<1>6. \A w \in Warehouse : <<s, w>> \notin {k \in Key : level[k].there}
  BY DEF CreateSku
<1>7. Tables!SeedLevels(s, W)
  BY <1>3, <1>4, <1>5, <1>6 DEF Tables!SeedLevels
<1> QED
  BY <1>7 DEF Tables!Next

LEMMA NextMaps ==
  ASSUME TypeInv, SingleInv, [TxNext]_txVars
  PROVE  [Tables!Next]_Tables!vars
<1>1. Tables!Next \/ UNCHANGED <<level, reservation>>
  <2>1. CASE UNCHANGED txVars
    BY <2>1 DEF txVars
  <2>2. ASSUME NEW p \in Proc, NEW cs \in Transactions, Begin(p, cs)
        PROVE  UNCHANGED <<level, reservation>>
    BY <2>2 DEF Begin
  <2>3. ASSUME NEW p \in Proc, Step(p)
        PROVE  Tables!Next \/ UNCHANGED <<level, reservation>>
    <3>1. CASE Rollback(p)
      BY <3>1 DEF Rollback
    <3>2. CASE TakeLock(p)
      BY <3>2 DEF TakeLock, Lock
    <3>3. CASE \E t : Private(p, t)
      BY <3>3 DEF Private
    <3>4. CASE Commit(p)
      BY <3>4, CommitMaps
    <3> QED
      BY <2>3, <3>1, <3>2, <3>3, <3>4, StepKinds
  <2>4. ASSUME NEW p \in Proc, Abort(p)
        PROVE  UNCHANGED <<level, reservation>>
    BY <2>4 DEF Abort, Rollback
  <2>5. ASSUME NEW s \in Sku, NEW W \in SUBSET Warehouse, CreateSku(s, W)
        PROVE  Tables!Next
    BY <2>5, CreateSkuMaps
  <2> QED
    BY <2>1, <2>2, <2>3, <2>4, <2>5 DEF TxNext
<1>2. UNCHANGED <<level, reservation>> => UNCHANGED Tables!vars
  BY DEF Tables!vars
<1> QED
  BY <1>1, <1>2

LEMMA InitMaps ==
  ASSUME TxInit
  PROVE  Tables!Init
<1>1. level = [k \in Key |-> NoRow] /\ reservation = [r \in Res |-> NoReservation]
  BY DEF TxInit
<1>2. /\ {k \in Key : level[k].there} = {}
      /\ [k \in Key |-> level[k].onHand] = [k \in Key |-> 0]
      /\ [k \in Key |-> level[k].reserved] = [k \in Key |-> 0]
      /\ [k \in Key |-> level[k].ledger] = [k \in Key |-> NoMovement]
  BY <1>1 DEF NoRow
<1>3. Tables!NoMovement = NoMovement /\ Tables!NoReservation = NoReservation
  BY DEF Tables!NoMovement, NoMovement, Tables!NoReservation, NoReservation, Tables!Key, Key
<1>4. Tables!Key = Key
  BY DEF Tables!Key, Key
<1> QED
  BY <1>1, <1>2, <1>3, <1>4 DEF Tables!Init

(* A call of one of the service's primitives in a transaction of its own is  *)
(* all or nothing: although reservations are read before any lock and other *)
(* sessions commit between any two statements, its commit is one atomic     *)
(* step of Inventory and nothing else that it does is visible.              *)
THEOREM OneCallIsAtomic ==
  ASSUME MaxCalls = 1
  PROVE  TxSpec => ImplementsInventory
<1>1. TxInit => SingleInv /\ Tables!Init
  BY InitSingle, InitMaps
<1>2. TxInv /\ SingleInv /\ [TxNext]_txVars => SingleInv'
  BY NextSingle DEF TxInv
<1>3. TxInv /\ SingleInv /\ [TxNext]_txVars => [Tables!Next]_Tables!vars
  BY NextMaps DEF TxInv
<1> QED
  BY <1>1, <1>2, <1>3, TxInvariant, PTL DEF TxSpec, ImplementsInventory, Tables!Spec

-----------------------------------------------------------------------------
(* The order of the locks.                                                 *)

LEMMA LeastNatural ==
  ASSUME NEW S \in SUBSET Nat, S # {}
  PROVE  \E n \in S : \A m \in S : n <= m
<1> DEFINE R == OpToRel(<, Nat)
<1>1. IsWellFoundedOn(R, Nat)
  BY NatLessThanWellFounded
<1>2. \A x, y \in Nat : <<x, y>> \in R <=> x < y
  BY DEF OpToRel
<1> HIDE DEF R
<1>3. PICK n \in S : \A m \in S : ~ (<<m, n>> \in R)
  BY <1>1, WFMin
<1>4. \A m \in S : ~ (m < n)
  BY <1>2, <1>3
<1>5. \A m \in S : m \in Nat /\ n \in Nat
  OBVIOUS
<1> QED
  BY <1>4, <1>5

LEMMA KeyParts ==
  ASSUME NEW k \in Key
  PROVE  k = <<k[1], k[2]>> /\ k[1] \in Nat /\ k[2] \in Nat
<1>1. PICK s \in Sku, w \in Warehouse : k = <<s, w>>
  BY DEF Key
<1>2. s \in Nat /\ w \in Nat
  BY InventoryTxAssumption
<1> QED
  BY <1>1, <1>2

LEMMA BeforeOrder ==
  /\ \A k \in Key : ~ Before(k, k)
  /\ \A i, j, k \in Key : Before(i, j) /\ Before(j, k) => Before(i, k)
  /\ \A j, k \in Key : j # k => Before(j, k) \/ Before(k, j)
<1>1. \A k \in Key : k = <<k[1], k[2]>> /\ k[1] \in Nat /\ k[2] \in Nat
  BY KeyParts
<1>2. \A k \in Key : ~ Before(k, k)
  BY <1>1 DEF Before
<1>3. \A i, j, k \in Key : Before(i, j) /\ Before(j, k) => Before(i, k)
  BY <1>1 DEF Before
<1>4. \A j, k \in Key : j # k => Before(j, k) \/ Before(k, j)
  BY <1>1 DEF Before
<1> QED
  BY <1>2, <1>3, <1>4

LEMMA FirstIsFirst ==
  ASSUME NEW K \in SUBSET Key, K # {}
  PROVE  First(K) \in K /\ \A j \in K \ {First(K)} : Before(First(K), j)
<1>1. \A k \in K : k = <<k[1], k[2]>> /\ k[1] \in Nat /\ k[2] \in Nat
  BY KeyParts
<1> DEFINE S == {k[1] : k \in K}
<1>2. PICK s \in S : \A x \in S : s <= x
  <2>1. S \in SUBSET Nat /\ S # {}
    BY <1>1
  <2> HIDE DEF S
  <2> QED
    BY <2>1, LeastNatural
<1> DEFINE W == {k[2] : k \in {j \in K : j[1] = s}}
<1>3. PICK w \in W : \A x \in W : w <= x
  <2>1. W \in SUBSET Nat /\ W # {}
    BY <1>1
  <2> HIDE DEF W
  <2> QED
    BY <2>1, LeastNatural
<1>4. PICK k \in K : k[1] = s /\ k[2] = w
  BY <1>3
<1>5. \A j \in K \ {k} : Before(k, j)
  <2> SUFFICES ASSUME NEW j \in K, j # k PROVE Before(k, j)
    OBVIOUS
  <2>1. s \in Nat /\ w \in Nat /\ j[1] \in Nat /\ j[2] \in Nat
    BY <1>1, <1>4
  <2>2. s <= j[1]
    BY <1>2
  <2>3. j[1] = s => w <= j[2] /\ j[2] # w
    BY <1>1, <1>3, <1>4
  <2> QED
    BY <1>4, <2>1, <2>2, <2>3 DEF Before
<1>6. \E i \in K : \A j \in K \ {i} : Before(i, j)
  BY <1>5
<1> QED
  BY <1>6 DEF First

(* Different rows have different locks. *)
Unhashed == \A k, j \in Key : HashText[k] = HashText[j] => k = j

(* A session waits only for locks after those it holds. *)
Ascends(p, t) ==
    /\ t.pc = "lock" =>
        /\ t.want # {} /\ t.want \subseteq Rows(t.left)
        /\ \A k \in Key : Holds(p, k) => k \in Rows(t.left) \ t.want
        /\ \A k \in Rows(t.left) \ t.want, j \in t.want : Before(k, j)
    /\ t.pc \in {"idle", "read"} => \A k \in Key : ~ Holds(p, k)

AscendingInv == \A p \in Proc : Ascends(p, tx[p])

LEMMA CallRows ==
  ASSUME NEW c \in Calls, c.r = {}
  PROVE  Rows(c.change) # {}
<1>1. CASE c \in ReserveCalls
  <2>1. PICK d \in Demands : Rows(c.change) = DOMAIN d
    BY <1>1, ReserveCallRows
  <2> QED
    BY <2>1 DEF Demands
<1>2. CASE c \in FinishCalls
  BY <1>2 DEF FinishCalls, Finish
<1>3. CASE c \in OneRowCalls
  <2>1. PICK j \in Key, a \in Int : c.change = [NoChange EXCEPT ![j] = Change(a, 0)] /\ a # 0
    BY <1>3, QtyType DEF OneRowCalls, Call
  <2>2. c.change[j] = Change(a, 0)
    BY <2>1, NoChangeType
  <2> QED
    BY <2>1, <2>2 DEF Rows, Change
<1>4. CASE c \in TransferCalls
  <2>1. PICK from \in Warehouse : c \in {Call("transfer", Moved(s, from, to, q)) :
                                           s \in Sku, to \in Warehouse \ {from}, q \in Qty}
    BY <1>4 DEF TransferCalls
  <2>2. PICK s \in Sku, to \in Warehouse \ {from}, q \in Qty : c = Call("transfer", Moved(s, from, to, q))
    BY <2>1
  <2>3. c.change[<<s, to>>] = Change(q, 0) /\ <<s, to>> \in Key /\ q # 0
    BY <2>2, NoChangeType, QtyType DEF Call, Moved, Key
  <2> QED
    BY <2>3 DEF Rows, Change
<1> QED
  BY <1>1, <1>2, <1>3, <1>4 DEF Calls

LEMMA FinishRows ==
  ASSUME TypeInv, Positive, NEW c \in Calls, c.r # {}, reservation[Finishes(c)].status # "NONE"
  PROVE  Rows(Plan(c)) = {reservation[Finishes(c)].key}
<1>1. PICK row : row = reservation[Finishes(c)]
  OBVIOUS
<1>2. row \in Reservation /\ row.qty >= 1
  BY <1>1, FinishCall DEF TypeInv, TxTypeOK, Positive
<1>3. PICK j, n : j = row.key /\ n = row.qty
  OBVIOUS
<1>4. j \in Key /\ n \in Nat \ {0}
  BY <1>2, <1>3 DEF Reservation
<1>5. PICK plan : plan = Plan(c)
  OBVIOUS
<1>6. /\ plan[j] = Change(IF c.op = "commit" THEN -n ELSE 0, -n)
      /\ \A k \in Key : k # j => plan[k] = Change(0, 0)
  BY <1>1, <1>2, <1>3, <1>4, <1>5, FinishChangeType DEF Plan
<1>7. Rows(plan) = {j}
  BY <1>4, <1>6 DEF Rows, Change
<1> QED
  BY <1>1, <1>3, <1>5, <1>7

(* A step that leaves the locks alone. *)
LEMMA PrivateAscends ==
  ASSUME TypeInv, AscendingInv, NEW p \in Proc, NEW t, Private(p, t), Ascends(p, t)
  PROVE  AscendingInv'
<1>1. \A q \in Proc : Ascends(q, tx'[q])
  BY DEF Private, AscendingInv, TypeInv, TxTypeOK
<1> QED
  BY <1>1 DEF Private, AscendingInv, Ascends, Holds

(* The end of a transaction. *)
LEMMA EndAscends ==
  ASSUME TypeInv, AscendingInv, NEW p \in Proc, tx' = [tx EXCEPT ![p] = Idle],
         lock' = [h \in LockId |-> lock[h] \ {p}]
  PROVE  AscendingInv'
<1>1. \A q \in Proc : tx'[q] = IF q = p THEN Idle ELSE tx[q]
  BY DEF TypeInv, TxTypeOK
<1>2. \A k \in Key : ~ Holds(p, k)'
  BY DEF Holds, LockId
<1>3. \A q \in Proc, k \in Key : q # p => (Holds(q, k)' <=> Holds(q, k))
  BY DEF Holds, LockId
<1>4. ASSUME NEW q \in Proc
      PROVE  Ascends(q, tx[q])'
  <2>1. PICK u : u = tx'[q]
    OBVIOUS
  <2>2. CASE q = p
    BY <1>1, <1>2, <2>1, <2>2, IdleFields DEF Ascends
  <2>3. CASE q # p
    BY <1>1, <1>3, <2>1, <2>3 DEF Ascends, AscendingInv, Rows
  <2> QED
    BY <2>2, <2>3
<1> QED
  BY <1>4 DEF AscendingInv

LEMMA TakeLockAscends ==
  ASSUME Unhashed, TypeInv, AscendingInv, NEW p \in Proc, TakeLock(p)
  PROVE  AscendingInv'
<1>0. PICK k, t, u : k = First(tx[p].want) /\ t = tx[p] /\ u = Locked(t, k)
  OBVIOUS
<1>1. /\ t.pc = "lock" /\ t \in Transaction
      /\ lock[HashText[k]] \subseteq {p}
      /\ lock' = [lock EXCEPT ![HashText[k]] = {p}]
      /\ tx' = [tx EXCEPT ![p] = u]
  BY <1>0, TakeLockStep
<1>2. Ascends(p, t)
  BY <1>0 DEF AscendingInv
<1>3. /\ t.want # {} /\ t.want \subseteq Rows(t.left) /\ t.want \subseteq Key
  BY <1>1, <1>2 DEF Ascends, Transaction
<1>4. k \in t.want /\ k \in Key /\ \A j \in t.want \ {k} : Before(k, j)
  BY <1>0, <1>3, FirstIsFirst
<1>5. /\ u.left = t.left /\ u.want = t.want \ {k}
      /\ u.pc = IF t.want \ {k} = {} THEN "level" ELSE "lock"
  BY <1>0, <1>1 DEF Locked, Transaction
<1>6. \A j \in Key : Holds(p, j)' => j = k \/ Holds(p, j)
  BY <1>1, <1>4 DEF Holds, LockId, TypeInv, TxTypeOK, Unhashed
<1>7. \A q \in Proc, j \in Key : q # p /\ Holds(q, j)' => Holds(q, j)
  BY <1>1, <1>4 DEF Holds, LockId, TypeInv, TxTypeOK
<1>8. Rows(u.left) \ u.want = (Rows(t.left) \ t.want) \cup {k}
  BY <1>3, <1>4, <1>5
<1>9. Ascends(p, u)'
  <2>1. \A j \in Key : Holds(p, j)' => j \in Rows(u.left) \ u.want
    BY <1>1, <1>2, <1>6, <1>8 DEF Ascends
  <2>2. \A i \in Rows(u.left) \ u.want, j \in u.want : Before(i, j)
    BY <1>1, <1>2, <1>4, <1>5, <1>8 DEF Ascends
  <2>3. u.want \subseteq Rows(u.left)
    BY <1>3, <1>5
  <2> QED
    BY <1>5, <2>1, <2>2, <2>3 DEF Ascends
<1>10. ASSUME NEW q \in Proc, q # p
       PROVE  Ascends(q, tx[q])'
  <2>1. tx'[q] = tx[q] /\ Ascends(q, tx[q])
    BY <1>1, <1>10 DEF TypeInv, TxTypeOK, AscendingInv
  <2> QED
    BY <1>7, <1>10, <2>1 DEF Ascends, Rows
<1>11. tx'[p] = u
  BY <1>1 DEF TypeInv, TxTypeOK
<1> QED
  BY <1>9, <1>10, <1>11 DEF AscendingInv

(* A session that starts to take its locks holds none. *)
LEMMA StartAscends ==
  ASSUME NEW p \in Proc, NEW u, u.want = Rows(u.left), Rows(u.left) # {},
         \A k \in Key : ~ Holds(p, k)
  PROVE  Ascends(p, u)
BY DEF Ascends

LEMMA BeginAscends ==
  ASSUME MaxCalls = 1, TypeInv, AscendingInv, NEW p \in Proc, NEW cs \in Transactions, Begin(p, cs)
  PROVE  AscendingInv'
<1>1. cs \in Seq(Calls) /\ cs # <<>> /\ Head(cs) \in Calls
  BY TransactionCalls
<1>2. PICK u, c : u = Enter(Idle, cs) /\ c = Head(cs)
  OBVIOUS
<1>3. \/ u.pc = "read"
      \/ u.left = c.change /\ u.want = Rows(c.change) /\ c.r = {}
  <2>1. Idle \in Transaction
    BY IdleFields
  <2> QED
    BY <1>1, <1>2, <2>1, EnterFields
<1>4. Private(p, u) /\ \A k \in Key : ~ Holds(p, k)
  BY <1>2, BeginStep DEF AscendingInv, Ascends
<1>5. CASE u.pc = "read"
  BY <1>4, <1>5, PrivateAscends DEF Ascends
<1>6. CASE u.left = c.change /\ u.want = Rows(c.change) /\ c.r = {}
  <2>1. Rows(c.change) # {}
    BY <1>1, <1>2, <1>6, CallRows
  <2>2. Ascends(p, u)
    BY <1>4, <1>6, <2>1, StartAscends
  <2> QED
    BY <1>4, <2>2, PrivateAscends
<1> QED
  BY <1>3, <1>5, <1>6

LEMMA ReadReservationAscends ==
  ASSUME TypeInv, SingleInv, AscendingInv, NEW p \in Proc, ReadReservation(p), ~ Rollback(p)
  PROVE  AscendingInv'
<1>1. PICK t, c, row : t = tx[p] /\ c = Head(t.calls) /\ row = ResAs(p, Finishes(c))
  OBVIOUS
<1>2. /\ t.pc = "read" /\ t \in Transaction /\ t.calls # <<>> /\ c.r # {} /\ Finishes(c) \in Res
      /\ row \in Reservation /\ row.status # "NONE"
      /\ \/ Private(p, Start(t, t.calls, FinishChange(c.op, row)))
         \/ Private(p, Enter(t, Tail(t.calls)))
  BY <1>1, ReadReservationStep
<1>3. Nothing(t) /\ Tail(t.calls) = <<>> /\ t.calls \in Seq(Calls)
  BY <1>1, <1>2 DEF SingleInv, Single, Transaction
<1>4. row = reservation[Finishes(c)] /\ c \in Calls
  BY <1>1, <1>2, <1>3, CallFields DEF Nothing, WroteResBy, WroteRes, ResAs
<1>5. \A k \in Key : ~ Holds(p, k)
  BY <1>1, <1>2 DEF AscendingInv, Ascends
<1>6. CASE Private(p, Start(t, t.calls, FinishChange(c.op, row)))
  <2>1. PICK change \in [Key -> ChangeRecord] : change = FinishChange(c.op, row)
    BY <1>2, FinishChangeType
  <2>2. PICK u : u = Start(t, t.calls, change)
    OBVIOUS
  <2>3. u.want = Rows(change) /\ u.left = change
    BY <1>2, <1>3, <2>2, StartFields
  <2>4. Plan(c) = change
    BY <1>2, <1>4, <2>1 DEF Plan
  <2>5. Rows(Plan(c)) # {}
    BY <1>2, <1>4, FinishRows DEF SingleInv
  <2>6. Ascends(p, u)
    BY <1>5, <2>3, <2>4, <2>5, StartAscends
  <2> QED
    BY <1>6, <2>1, <2>2, <2>6, PrivateAscends
<1>7. CASE Private(p, Enter(t, Tail(t.calls)))
  <2>1. PICK u : u = Enter(t, Tail(t.calls))
    OBVIOUS
  <2>2. u.pc = "end"
    BY <1>2, <1>3, <2>1, CallFields, EnterFields
  <2> QED
    BY <1>7, <2>1, <2>2, PrivateAscends DEF Ascends
<1> QED
  BY <1>2, <1>6, <1>7

LEMMA ReadLevelAscends ==
  ASSUME TypeInv, AscendingInv, NEW p \in Proc, ReadLevel(p), ~ Rollback(p)
  PROVE  AscendingInv'
<1>1. PICK t, k : t = tx[p] /\ t \in Transaction /\ Private(p, Checked(t, k, LevelAs(p, k)))
  BY ReadLevelStep
<1>2. PICK u : u = Checked(t, k, LevelAs(p, k))
  OBVIOUS
<1>3. u.pc = "update"
  BY <1>1, <1>2 DEF Checked, Transaction
<1> QED
  BY <1>1, <1>2, <1>3, PrivateAscends DEF Ascends

LEMMA UpdateLevelAscends ==
  ASSUME TypeInv, SingleInv, AscendingInv, NEW p \in Proc, UpdateLevel(p), ~ Rollback(p)
  PROVE  AscendingInv'
<1>1. PICK t, row : t = tx[p] /\ row = LevelAs(p, t.key)
  OBVIOUS
<1>2. t.pc = "update" /\ t \in Transaction /\ t.calls # <<>> /\ row \in LevelRow /\ Prepared(t)
  BY <1>1, UpdateLevelStep DEF TypeInv
<1>3. PICK new \in [Res -> Reservation] : Private(p, AfterRow(Updated(t, row, new)))
  BY <1>1, UpdateLevelStep
<1>4. PICK v, u : v = Updated(t, row, new) /\ u = AfterRow(v)
  OBVIOUS
<1>5. /\ v \in Transaction /\ v.calls = t.calls
      /\ \A k \in Key : v.left[k] = IF k = t.key THEN Change(0, 0) ELSE t.left[k]
  BY ONLY <1>2, <1>3, <1>4, UpdatedFields
<1>6. LinesPositive(v)
  <2>1. Change(0, 0).reserved = 0
    BY DEF Change
  <2> QED
    BY <1>2, <1>5, <2>1 DEF Prepared, LinesPositive
<1>7. Tail(v.calls) = <<>> /\ <<>> \in Seq(Calls) /\ v.calls # <<>>
  BY <1>1, <1>2, <1>5 DEF SingleInv, Single, Working
<1>8. u.pc \in {"level", "flip"} \/ u = Enter(v, <<>>)
  BY <1>4, <1>5, <1>6, <1>7, AfterRowFields
<1>9. u.pc \in {"level", "flip", "end"}
  <2>1. CASE u = Enter(v, <<>>)
    <3>1. v \in Transaction /\ <<>> \in Seq(Calls)
      BY <1>5, <1>7
    <3>2. u.pc = "end"
      BY ONLY <2>1, <3>1, EnterFields
    <3> QED
      BY <3>2
  <2> QED
    BY <1>8, <2>1
<1> QED
  BY <1>3, <1>4, <1>9, PrivateAscends DEF Ascends

LEMMA FlipReservationAscends ==
  ASSUME TypeInv, SingleInv, AscendingInv, NEW p \in Proc, FlipReservation(p), ~ Rollback(p)
  PROVE  AscendingInv'
<1>1. PICK t, v : t = tx[p] /\ v = Flipped(t, Finishes(Head(t.calls)), ResAs(p, Finishes(Head(t.calls))), Head(t.calls).to)
  OBVIOUS
<1>2. t.pc = "flip" /\ v \in Transaction /\ Private(p, Enter(v, Tail(t.calls)))
  BY <1>1, FlipReservationStep
<1>3. Tail(t.calls) = <<>> /\ <<>> \in Seq(Calls)
  BY <1>1, <1>2 DEF SingleInv, Single, Working
<1>4. PICK u : u = Enter(v, <<>>)
  OBVIOUS
<1>5. u.pc = "end"
  BY <1>2, <1>3, <1>4, EnterFields
<1> QED
  BY <1>2, <1>3, <1>4, <1>5, PrivateAscends DEF Ascends

LEMMA NextAscends ==
  ASSUME MaxCalls = 1, Unhashed, TypeInv, SingleInv, AscendingInv, [TxNext]_txVars
  PROVE  AscendingInv'
<1>1. CASE UNCHANGED txVars
  BY <1>1 DEF txVars, AscendingInv, Ascends, Holds, Rows
<1>2. ASSUME NEW s \in Sku, NEW W \in SUBSET Warehouse, CreateSku(s, W)
      PROVE  AscendingInv'
  BY <1>2 DEF CreateSku, AscendingInv, Ascends, Holds, Rows
<1>3. ASSUME NEW p \in Proc, Rollback(p)
      PROVE  AscendingInv'
  BY <1>3, EndAscends DEF Rollback, Become
<1>4. ASSUME NEW p \in Proc, Commit(p)
      PROVE  AscendingInv'
  BY <1>4, EndAscends DEF Commit, Become
<1>5. ASSUME NEW p \in Proc, Step(p)
      PROVE  AscendingInv'
  BY <1>3, <1>4, <1>5, ReadReservationAscends, TakeLockAscends, ReadLevelAscends,
     UpdateLevelAscends, FlipReservationAscends DEF Step
<1> QED
  BY <1>1, <1>2, <1>3, <1>5, BeginAscends DEF TxNext, Abort

LEMMA InitAscends == TxInit => AscendingInv
<1> SUFFICES ASSUME TxInit PROVE AscendingInv
  OBVIOUS
<1>1. \A p \in Proc : tx[p] = Idle
  BY DEF TxInit
<1>2. \A p \in Proc, k \in Key : ~ Holds(p, k)
  BY DEF TxInit, Holds, LockId
<1> QED
  BY <1>1, <1>2, IdleFields DEF AscendingInv, Ascends

(* The status of a reservation is never waited for: only the session that   *)
(* holds the lock of its stock row writes it.                               *)
LEMMA FlipFree ==
  ASSUME TypeInv, LocksInv, SingleInv, NEW p \in Proc, NEW q \in Proc, p # q, tx[p].pc = "flip",
         Finishes(Head(tx[p].calls)) \in WroteRes(q)
  PROVE  FALSE
<1>1. PICK t, c, r, u : t = tx[p] /\ c = Head(t.calls) /\ r = Finishes(c) /\ u = tx[q]
  OBVIOUS
<1>2. t \in Transaction /\ u \in Transaction /\ Prepared(t) /\ Prepared(u) /\ Single(t) /\ Single(u)
  BY <1>1 DEF TypeInv, TxTypeOK, SingleInv
<1>3. t.pc = "flip" /\ t.calls # <<>> /\ c.r # {} /\ Working(t, c) /\ c \in Calls
  BY <1>1, <1>2, CallFields DEF Prepared, Busy, Single
<1>4. r \in WroteResBy(u) /\ reservation[r].status # "NONE"
  BY <1>1, <1>3 DEF WroteRes, WroteResBy, Working
<1>5. ~ \E d : d.op = "reserve" /\ Lines(u, d)
  BY <1>4 DEF Lines
<1>6. PICK d \in Calls : Done(u, d)
  <2>1. ~ Nothing(u)
    BY <1>4 DEF Nothing
  <2>2. ~ Working(u, Head(u.calls))
    BY <1>4, <1>5 DEF Working
  <2>3. u.pc = "end"
    BY <1>2, <2>1, <2>2 DEF Single, Transaction
  <2> QED
    BY <1>2, <2>1, <2>3 DEF Single
<1>7. d.r # {} /\ Finishes(d) = r /\ WroteBy(u) = Rows(Plan(d))
  BY <1>4, <1>5, <1>6 DEF Done
<1>8. WroteBy(t) = Rows(Plan(c))
  BY <1>3 DEF Working
<1>9. PICK k : k = reservation[r].key
  OBVIOUS
<1>10. Rows(Plan(c)) = {k} /\ Rows(Plan(d)) = {k}
  BY <1>1, <1>3, <1>4, <1>7, <1>9, FinishRows DEF SingleInv
<1>11. k \in WroteBy(t) /\ k \in WroteBy(u)
  BY <1>7, <1>8, <1>10
<1>12. Holds(p, k) /\ Holds(q, k) /\ k \in Key
  BY <1>1, <1>11 DEF WroteBy, LocksInv, OwnLocks
<1> QED
  BY <1>12, HoldsAlone DEF LocksInv

(* A session that waits for one that waits is before it in the order of the  *)
(* locks.                                                                   *)
Forward ==
    \A p, q, x \in Proc : WaitsFor(p, q) /\ WaitsFor(q, x) =>
        /\ First(tx[p].want) \in Key /\ First(tx[q].want) \in Key
        /\ Before(First(tx[p].want), First(tx[q].want))

LEMMA WaitsForward ==
  ASSUME TypeInv, LocksInv, SingleInv, AscendingInv, CasNeverLoses
  PROVE  Forward
<1> SUFFICES ASSUME NEW p \in Proc, NEW q \in Proc, NEW x \in Proc, WaitsFor(p, q), WaitsFor(q, x)
             PROVE  /\ First(tx[p].want) \in Key /\ First(tx[q].want) \in Key
                    /\ Before(First(tx[p].want), First(tx[q].want))
  BY DEF Forward
<1>1. ASSUME NEW y \in Proc, NEW z \in Proc, WaitsFor(y, z)
      PROVE  tx[y].pc = "lock" /\ Holds(z, First(tx[y].want)) /\ First(tx[y].want) \in tx[y].want
             /\ First(tx[y].want) \in Key
  <2>1. ~ (tx[y].pc = "update" /\ tx[y].key \in Wrote(z))
    BY <1>1 DEF CasNeverLoses, LevelFree, WaitsFor
  <2>2. ~ (tx[y].pc = "flip" /\ Finishes(Head(tx[y].calls)) \in WroteRes(z))
    BY <1>1, FlipFree DEF WaitsFor
  <2>3. tx[y].pc = "lock" /\ Holds(z, First(tx[y].want))
    BY <1>1, <2>1, <2>2 DEF WaitsFor, Holds
  <2>4. tx[y].want # {} /\ tx[y].want \in SUBSET Key
    BY <2>3 DEF AscendingInv, Ascends, Rows
  <2> QED
    BY <2>3, <2>4, FirstIsFirst
<1>2. /\ Holds(q, First(tx[p].want)) /\ First(tx[p].want) \in Key
      /\ tx[q].pc = "lock" /\ First(tx[q].want) \in tx[q].want /\ First(tx[q].want) \in Key
  BY <1>1
<1>3. Ascends(q, tx[q])
  BY DEF AscendingInv
<1> QED
  BY <1>2, <1>3 DEF Ascends

LEMMA MinimalSubset ==
  ASSUME NEW S, IsFiniteSet(S), NEW B \in SUBSET (SUBSET S), B # {}
  PROVE  \E T \in B : \A U \in B : U \subseteq T => U = T
<1>1. IsWellFoundedOn(StrictSubsetOrdering(S), FiniteSubsetsOf(S))
  BY FS_StrictSubsetOrderingWellFounded
<1>2. FiniteSubsetsOf(S) = SUBSET S
  BY FS_FiniteSubsetsOfFinite
<1>3. IsWellFoundedOn(StrictSubsetOrdering(S), SUBSET S)
  BY <1>1, <1>2
<1>4. PICK T \in B : \A U \in B : <<U, T>> \notin StrictSubsetOrdering(S)
  BY <1>3, WFMin
<1>5. \A U \in B : U \subseteq T => U = T
  <2> SUFFICES ASSUME NEW U \in B, U \subseteq T, U # T
               PROVE  FALSE
    OBVIOUS
  <2>1. <<U, T>> \in (SUBSET S) \X (SUBSET S)
    OBVIOUS
  <2>2. <<U, T>> \in StrictSubsetOrdering(S)
    BY <2>1 DEF StrictSubsetOrdering
  <2> QED
    BY <1>4, <2>2
<1> QED
  BY <1>5

(* Among finitely many sessions one waits for none of them. *)
LEMMA SomeoneGoesOn ==
  ASSUME Forward, NEW P \in SUBSET Proc, IsFiniteSet(P), P # {}
  PROVE  \E p \in P : \A q \in P : ~ WaitsFor(p, q)
<1> SUFFICES ASSUME \A p \in P : \E q \in P : WaitsFor(p, q)
             PROVE  FALSE
  OBVIOUS
<1> DEFINE Key1(p) == First(tx[p].want)
           After(p) == {q \in P : Before(Key1(p), Key1(q))}
           B == {After(p) : p \in P}
<1>1. \A p \in P : Key1(p) \in Key
  BY DEF Forward
<1>2. \A p, q \in P : WaitsFor(p, q) => Before(Key1(p), Key1(q))
  BY DEF Forward
<1> HIDE DEF Key1
<1>3. B \in SUBSET (SUBSET P) /\ B # {}
  OBVIOUS
<1>4. PICK T \in B : \A U \in B : U \subseteq T => U = T
  <2> HIDE DEF B
  <2> QED
    BY <1>3, MinimalSubset
<1>5. PICK p \in P : T = After(p)
  BY <1>4
<1>6. PICK q \in P : WaitsFor(p, q)
  OBVIOUS
<1>7. After(q) \subseteq After(p)
  BY <1>1, <1>2, <1>6, BeforeOrder
<1>8. q \in After(p) /\ q \notin After(q)
  BY <1>1, <1>2, <1>6, BeforeOrder
<1> QED
  BY <1>4, <1>5, <1>7, <1>8

(* "This single up-front, globally-ordered acquisition" of lockKeys does     *)
(* prevent the A-then-B / B-then-A deadlock: of any sessions that run one    *)
(* call each, one waits for none of the others.  Two rows that hash to one  *)
(* lock would break it, for the order is that of the rows.                  *)
THEOREM NoCircleOfWaits ==
  ASSUME MaxCalls = 1, IsFiniteSet(Proc), Unhashed
  PROVE  TxSpec => []NoDeadlock
<1>1. TxInit => SingleInv /\ AscendingInv
  BY InitSingle, InitAscends
<1>2. TxInv /\ SingleInv /\ AscendingInv /\ [TxNext]_txVars => SingleInv' /\ AscendingInv'
  BY NextSingle, NextAscends DEF TxInv
<1>3. TxInv /\ SingleInv /\ AscendingInv /\ CasNeverLoses => NoDeadlock
  <2>1. \A P \in SUBSET Proc : IsFiniteSet(P)
    BY FS_Subset
  <2> QED
    BY <2>1, WaitsForward, SomeoneGoesOn DEF TxInv, NoDeadlock
<1> QED
  BY <1>1, <1>2, <1>3, TxInvariant, CompareAndSetHolds, PTL DEF TxSpec

-----------------------------------------------------------------------------
(* Part 3.  The lines of a purchase receipt, each a call of one transaction. *)

(* No call finishes a reservation. *)
NoFinish == Ops \cap {"release", "commit"} = {}

(* The rows of a call are before those of the calls after it. *)
InOrder(cs) ==
    \A i, j \in DOMAIN cs : i < j =>
        \A k \in Rows(cs[i].change), l \in Rows(cs[j].change) : Before(k, l)

(* The rows that are locked are before those of the calls to come. *)
Below(p, t) ==
    \A k \in Key : Holds(p, k) =>
        \A j \in DOMAIN t.calls : 1 < j => \A l \in Rows(t.calls[j].change) : Before(k, l)

(* A session waits only for locks after those it holds, also those of the    *)
(* calls before.                                                            *)
Climbs(p, t) ==
    /\ t.pc = "idle" => \A k \in Key : ~ Holds(p, k)
    /\ t.pc \in {"lock", "level", "update"} => InOrder(t.calls) /\ Below(p, t)
    /\ t.pc = "lock" =>
        /\ t.want # {} /\ t.want \subseteq Rows(Head(t.calls).change)
        /\ \A k \in Key, j \in t.want : Holds(p, k) => Before(k, j)

ClimbingInv == \A p \in Proc : Climbs(p, tx[p])

LEMMA NothingFinishes ==
  ASSUME NoFinish, NEW c \in Calls
  PROVE  c.r = {} /\ Rows(c.change) # {}
<1>1. c.op \notin {"release", "commit"}
  BY DEF NoFinish, Calls
<1>2. c \notin FinishCalls
  BY <1>1 DEF FinishCalls, Finish
<1>3. c.r = {}
  BY <1>2 DEF Calls, ReserveCalls, OneRowCalls, TransferCalls, Call
<1> QED
  BY <1>3, CallRows

LEMMA ReceivedRow ==
  ASSUME NEW c \in Calls, c.op = "receive", NEW j \in Rows(c.change), NEW k \in Rows(c.change)
  PROVE  j = k
<1>1. c \in OneRowCalls
  <2>1. c \notin ReserveCalls /\ c \notin FinishCalls
    BY DEF ReserveCalls, FinishCalls, Call, Finish
  <2>2. c \notin TransferCalls
    BY DEF TransferCalls, Call
  <2> QED
    BY <2>1, <2>2 DEF Calls
<1>2. PICK i \in Key, a \in Int : c.change = [NoChange EXCEPT ![i] = Change(a, 0)]
  BY <1>1, QtyType DEF OneRowCalls, Call
<1>3. \A l \in Key : l # i => c.change[l] = Change(0, 0)
  BY <1>2, NoChangeType
<1> QED
  BY <1>3 DEF Rows

(* The transactions that finish no reservation are sorted. *)
LEMMA TransactionsInOrder ==
  ASSUME NoFinish, NEW cs \in Transactions
  PROVE  InOrder(cs)
<1>1. CASE cs \in {<<c>> : c \in Calls}
  <2>1. PICK c \in Calls : cs = <<c>>
    BY <1>1
  <2>2. DOMAIN <<c>> = {1}
    OBVIOUS
  <2> QED
    BY <2>1, <2>2 DEF InOrder
<1>2. CASE cs \notin {<<c>> : c \in Calls}
  <2>1. PICK n \in 2 .. MaxCalls : cs \in [1 .. n -> Calls]
    BY <1>2 DEF Transactions
  <2>2. 1 \in DOMAIN cs /\ cs[1] \in Calls
    BY <2>1, InventoryTxAssumption
  <2>3. cs[1].op \notin {"release", "commit"}
    BY <2>2 DEF NoFinish, Calls
  <2>4. (\A i \in DOMAIN cs : cs[i].op = "receive") /\ Sorted(cs)
    BY <1>2, <2>2, <2>3 DEF Transactions
  <2> SUFFICES ASSUME NEW i \in DOMAIN cs, NEW j \in DOMAIN cs, i < j,
                      NEW k \in Rows(cs[i].change), NEW l \in Rows(cs[j].change)
               PROVE  Before(k, l)
    BY DEF InOrder
  <2>5. PICK x \in Rows(cs[i].change), y \in Rows(cs[j].change) : Before(x, y)
    BY <2>4 DEF Sorted
  <2>6. x = k /\ y = l
    BY <2>1, <2>4, ReceivedRow
  <2> QED
    BY <2>5, <2>6
<1> QED
  BY <1>1, <1>2

(* A step that leaves the locks alone. *)
LEMMA PrivateClimbs ==
  ASSUME TypeInv, ClimbingInv, NEW p \in Proc, NEW t, Private(p, t), Climbs(p, t)
  PROVE  ClimbingInv'
<1>1. \A q \in Proc : Climbs(q, tx'[q])
  BY DEF Private, ClimbingInv, TypeInv, TxTypeOK
<1> QED
  BY <1>1 DEF Private, ClimbingInv, Climbs, InOrder, Below, Holds, Rows

(* The end of a transaction. *)
LEMMA EndClimbs ==
  ASSUME TypeInv, ClimbingInv, NEW p \in Proc, tx' = [tx EXCEPT ![p] = Idle],
         lock' = [h \in LockId |-> lock[h] \ {p}]
  PROVE  ClimbingInv'
<1>1. \A q \in Proc : tx'[q] = IF q = p THEN Idle ELSE tx[q]
  BY DEF TypeInv, TxTypeOK
<1>2. \A k \in Key : ~ Holds(p, k)'
  BY DEF Holds, LockId
<1>3. \A q \in Proc, k \in Key : q # p => (Holds(q, k)' <=> Holds(q, k))
  BY DEF Holds, LockId
<1>4. ASSUME NEW q \in Proc
      PROVE  Climbs(q, tx[q])'
  <2>1. PICK u : u = tx'[q]
    OBVIOUS
  <2>2. CASE q = p
    BY <1>1, <1>2, <2>1, <2>2, IdleFields DEF Climbs
  <2>3. CASE q # p
    BY <1>1, <1>3, <2>1, <2>3 DEF Climbs, ClimbingInv, InOrder, Below, Rows
  <2> QED
    BY <2>2, <2>3
<1> QED
  BY <1>4 DEF ClimbingInv

(* A session that goes on to its next call. *)
LEMMA EnterClimbs ==
  ASSUME NoFinish, NEW p \in Proc, NEW t \in Transaction, NEW cs \in Seq(Calls), InOrder(cs),
         \A k \in Key : Holds(p, k) =>
            \A j \in DOMAIN cs : \A l \in Rows(cs[j].change) : Before(k, l)
  PROVE  Climbs(p, Enter(t, cs))
<1>1. PICK u : u = Enter(t, cs)
  OBVIOUS
<1>2. CASE cs = <<>>
  <2>1. u.pc = "end"
    BY <1>1, <1>2, EnterFields
  <2> QED
    BY <1>1, <2>1 DEF Climbs
<1>3. CASE cs # <<>>
  <2>1. Head(cs) \in Calls /\ Head(cs) = cs[1] /\ 1 \in DOMAIN cs
    BY <1>3
  <2>2. Head(cs).r = {} /\ Rows(Head(cs).change) # {}
    BY <2>1, NothingFinishes
  <2>3. u.pc = "lock" /\ u.calls = cs /\ u.want = Rows(Head(cs).change)
    BY <1>1, <1>3, <2>2, EnterFields
  <2>4. \A k \in Key, j \in u.want : Holds(p, k) => Before(k, j)
    BY <2>1, <2>3
  <2>5. Below(p, u)
    BY <2>3 DEF Below
  <2> QED
    BY <1>1, <2>2, <2>3, <2>4, <2>5 DEF Climbs
<1> QED
  BY <1>2, <1>3

LEMMA BeginClimbs ==
  ASSUME NoFinish, TypeInv, ClimbingInv, NEW p \in Proc, NEW cs \in Transactions, Begin(p, cs)
  PROVE  ClimbingInv'
<1>1. cs \in Seq(Calls) /\ InOrder(cs)
  BY TransactionCalls, TransactionsInOrder
<1>2. Private(p, Enter(Idle, cs)) /\ \A k \in Key : ~ Holds(p, k)
  BY BeginStep DEF ClimbingInv, Climbs
<1>3. Climbs(p, Enter(Idle, cs))
  BY <1>1, <1>2, IdleFields, EnterClimbs
<1> QED
  BY <1>2, <1>3, PrivateClimbs

LEMMA TakeLockClimbs ==
  ASSUME Unhashed, TypeInv, ClimbingInv, NEW p \in Proc, TakeLock(p)
  PROVE  ClimbingInv'
<1>0. PICK k, t, u : k = First(tx[p].want) /\ t = tx[p] /\ u = Locked(t, k)
  OBVIOUS
<1>1. /\ t.pc = "lock" /\ t \in Transaction /\ t.calls # <<>>
      /\ lock' = [lock EXCEPT ![HashText[k]] = {p}]
      /\ lock[HashText[k]] \subseteq {p}
      /\ tx' = [tx EXCEPT ![p] = u]
  BY <1>0, TakeLockStep
<1>2. Climbs(p, t)
  BY <1>0 DEF ClimbingInv
<1>3. /\ t.want # {} /\ t.want \subseteq Rows(Head(t.calls).change) /\ t.want \subseteq Key
      /\ InOrder(t.calls) /\ Below(p, t)
  BY <1>1, <1>2 DEF Climbs, Transaction
<1>4. k \in t.want /\ k \in Key /\ \A j \in t.want \ {k} : Before(k, j)
  BY <1>0, <1>3, FirstIsFirst
<1>5. /\ u.calls = t.calls /\ u.want = t.want \ {k}
      /\ u.pc = IF t.want \ {k} = {} THEN "level" ELSE "lock"
  BY <1>0, <1>1 DEF Locked, Transaction
<1>6. \A j \in Key : Holds(p, j)' => j = k \/ Holds(p, j)
  BY <1>1, <1>4 DEF Holds, LockId, TypeInv, TxTypeOK, Unhashed
<1>7. \A q \in Proc, j \in Key : q # p /\ Holds(q, j)' => Holds(q, j)
  BY <1>1, <1>4 DEF Holds, LockId, TypeInv, TxTypeOK
<1>8. \A j \in DOMAIN t.calls : 1 < j => \A l \in Rows(t.calls[j].change) : Before(k, l)
  <2>1. Head(t.calls) = t.calls[1] /\ 1 \in DOMAIN t.calls
    BY <1>1 DEF Transaction
  <2>2. k \in Rows(t.calls[1].change)
    BY <1>3, <1>4, <2>1
  <2> QED
    BY <1>3, <2>1, <2>2 DEF InOrder
<1>9. Climbs(p, u)'
  <2>1. Below(p, u)'
    BY <1>3, <1>5, <1>6, <1>8 DEF Below, Rows
  <2>2. \A i \in Key, j \in u.want : Holds(p, i)' => Before(i, j)
    BY <1>1, <1>2, <1>4, <1>5, <1>6 DEF Climbs
  <2>3. u.want \subseteq Rows(Head(u.calls).change) /\ InOrder(u.calls)
    BY <1>3, <1>5
  <2> QED
    BY <1>5, <2>1, <2>2, <2>3 DEF Climbs, InOrder, Rows
<1>10. ASSUME NEW q \in Proc, q # p
       PROVE  Climbs(q, tx[q])'
  <2>1. tx'[q] = tx[q] /\ Climbs(q, tx[q])
    BY <1>1, <1>10 DEF TypeInv, TxTypeOK, ClimbingInv
  <2> QED
    BY <1>7, <1>10, <2>1 DEF Climbs, InOrder, Below, Rows
<1>11. tx'[p] = u
  BY <1>1 DEF TypeInv, TxTypeOK
<1> QED
  BY <1>9, <1>10, <1>11 DEF ClimbingInv

LEMMA ReadLevelClimbs ==
  ASSUME TypeInv, ClimbingInv, NEW p \in Proc, ReadLevel(p), ~ Rollback(p)
  PROVE  ClimbingInv'
<1>1. PICK t, k : /\ t = tx[p] /\ t \in Transaction /\ t.pc = "level"
                  /\ Private(p, Checked(t, k, LevelAs(p, k)))
  BY ReadLevelStep
<1>2. PICK u : u = Checked(t, k, LevelAs(p, k))
  OBVIOUS
<1>3. u.pc = "update" /\ u.calls = t.calls
  BY <1>1, <1>2 DEF Checked, Transaction
<1>4. Climbs(p, t)
  BY <1>1 DEF ClimbingInv
<1>5. Climbs(p, u)
  BY <1>1, <1>3, <1>4 DEF Climbs, Below
<1> QED
  BY <1>1, <1>2, <1>5, PrivateClimbs

LEMMA UpdateLevelClimbs ==
  ASSUME NoFinish, TypeInv, ClimbingInv, NEW p \in Proc, UpdateLevel(p), ~ Rollback(p)
  PROVE  ClimbingInv'
<1>1. PICK t, row : t = tx[p] /\ row = LevelAs(p, t.key)
  OBVIOUS
<1>2. t.pc = "update" /\ t \in Transaction /\ t.calls # <<>> /\ row \in LevelRow /\ Prepared(t)
  BY <1>1, UpdateLevelStep DEF TypeInv
<1>3. PICK new \in [Res -> Reservation] : Private(p, AfterRow(Updated(t, row, new)))
  BY <1>1, UpdateLevelStep
<1>4. PICK v, u : v = Updated(t, row, new) /\ u = AfterRow(v)
  OBVIOUS
<1>5. /\ v \in Transaction /\ v.calls = t.calls
      /\ \A k \in Key : v.left[k] = IF k = t.key THEN Change(0, 0) ELSE t.left[k]
  BY ONLY <1>2, <1>3, <1>4, UpdatedFields
<1>6. LinesPositive(v)
  <2>1. Change(0, 0).reserved = 0
    BY DEF Change
  <2> QED
    BY <1>2, <1>5, <2>1 DEF Prepared, LinesPositive
<1>7. /\ v.calls # <<>> /\ Head(v.calls) \in Calls /\ v.calls \in Seq(Calls)
      /\ Tail(v.calls) \in Seq(Calls)
  BY <1>2, <1>5, CallFields DEF Transaction
<1>8. Head(v.calls).r = {}
  BY <1>7, NothingFinishes
<1>9. InOrder(v.calls) /\ Below(p, v)
  BY <1>1, <1>2, <1>5 DEF ClimbingInv, Climbs, Below
<1>10. \/ u.pc = "level" /\ u.calls = v.calls
       \/ u = Enter(v, Tail(v.calls))
  BY <1>4, <1>5, <1>6, <1>7, <1>8, AfterRowFields
<1>11. CASE u.pc = "level" /\ u.calls = v.calls
  <2>1. Climbs(p, u)
    BY <1>9, <1>11 DEF Climbs, Below
  <2> QED
    BY <1>3, <1>4, <2>1, PrivateClimbs
<1>12. CASE u = Enter(v, Tail(v.calls))
  <2>1. PICK cs \in Seq(Calls) : cs = Tail(v.calls)
    BY <1>7
  <2>2. \A j \in DOMAIN cs : j + 1 \in DOMAIN v.calls /\ cs[j] = v.calls[j + 1] /\ j \in Nat \ {0}
    BY <1>7, <2>1
  <2>3. InOrder(cs)
    <3> SUFFICES ASSUME NEW i \in DOMAIN cs, NEW j \in DOMAIN cs, i < j
                 PROVE  \A k \in Rows(cs[i].change), l \in Rows(cs[j].change) : Before(k, l)
      BY DEF InOrder
    <3>1. i + 1 < j + 1
      BY <2>2
    <3> QED
      BY <1>9, <2>2, <3>1 DEF InOrder
  <2>4. \A k \in Key : Holds(p, k) =>
           \A j \in DOMAIN cs : \A l \in Rows(cs[j].change) : Before(k, l)
    <3> SUFFICES ASSUME NEW k \in Key, Holds(p, k), NEW j \in DOMAIN cs
                 PROVE  \A l \in Rows(cs[j].change) : Before(k, l)
      OBVIOUS
    <3>1. 1 < j + 1
      BY <2>2
    <3> QED
      BY <1>9, <2>2, <3>1 DEF Below
  <2>5. Climbs(p, Enter(v, cs))
    BY <1>5, <2>3, <2>4, EnterClimbs
  <2> QED
    BY <1>3, <1>4, <1>12, <2>1, <2>5, PrivateClimbs
<1> QED
  BY <1>10, <1>11, <1>12

LEMMA NextClimbs ==
  ASSUME NoFinish, Unhashed, TypeInv, ClimbingInv, [TxNext]_txVars
  PROVE  ClimbingInv'
<1>1. CASE UNCHANGED txVars
  BY <1>1 DEF txVars, ClimbingInv, Climbs, InOrder, Below, Holds, Rows
<1>2. ASSUME NEW s \in Sku, NEW W \in SUBSET Warehouse, CreateSku(s, W)
      PROVE  ClimbingInv'
  BY <1>2 DEF CreateSku, ClimbingInv, Climbs, InOrder, Below, Holds, Rows
<1>3. ASSUME NEW p \in Proc, Rollback(p)
      PROVE  ClimbingInv'
  BY <1>3, EndClimbs DEF Rollback, Become
<1>4. ASSUME NEW p \in Proc, Commit(p)
      PROVE  ClimbingInv'
  BY <1>4, EndClimbs DEF Commit, Become
<1>5. ASSUME NEW p \in Proc
      PROVE  tx[p].pc \notin {"read", "flip"}
  <2>1. tx[p] \in Transaction /\ Prepared(tx[p])
    BY DEF TypeInv, TxTypeOK
  <2> QED
    BY <2>1, CallFields, NothingFinishes DEF Prepared, Busy
<1>6. ASSUME NEW p \in Proc, Step(p)
      PROVE  ClimbingInv'
  <2>1. ~ ReadReservation(p) /\ ~ FlipReservation(p)
    BY <1>5 DEF ReadReservation, FlipReservation
  <2> QED
    BY <1>3, <1>4, <1>6, <2>1, TakeLockClimbs, ReadLevelClimbs, UpdateLevelClimbs DEF Step
<1> QED
  BY <1>1, <1>2, <1>3, <1>6, BeginClimbs DEF TxNext, Abort

LEMMA InitClimbs == TxInit => ClimbingInv
<1> SUFFICES ASSUME TxInit PROVE ClimbingInv
  OBVIOUS
<1>1. \A p \in Proc : tx[p] = Idle
  BY DEF TxInit
<1>2. \A p \in Proc, k \in Key : ~ Holds(p, k)
  BY DEF TxInit, Holds, LockId
<1> QED
  BY <1>1, <1>2, IdleFields DEF ClimbingInv, Climbs

LEMMA ClimbForward ==
  ASSUME NoFinish, TypeInv, ClimbingInv, CasNeverLoses
  PROVE  Forward
<1>1. ASSUME NEW y \in Proc, NEW z \in Proc, WaitsFor(y, z)
      PROVE  tx[y].pc = "lock" /\ Holds(z, First(tx[y].want)) /\ First(tx[y].want) \in tx[y].want
             /\ First(tx[y].want) \in Key
  <2>1. ~ (tx[y].pc = "update" /\ tx[y].key \in Wrote(z))
    BY <1>1 DEF CasNeverLoses, LevelFree, WaitsFor
  <2>2. tx[y].pc # "flip"
    <3>1. tx[y] \in Transaction /\ Prepared(tx[y])
      BY DEF TypeInv, TxTypeOK
    <3> QED
      BY <3>1, CallFields, NothingFinishes DEF Prepared, Busy
  <2>3. tx[y].pc = "lock" /\ Holds(z, First(tx[y].want))
    BY <1>1, <2>1, <2>2 DEF WaitsFor, Holds
  <2>4. tx[y].want # {} /\ tx[y].want \in SUBSET Key
    BY <2>3 DEF ClimbingInv, Climbs, Rows
  <2> QED
    BY <2>3, <2>4, FirstIsFirst
<1> SUFFICES ASSUME NEW p \in Proc, NEW q \in Proc, NEW x \in Proc, WaitsFor(p, q), WaitsFor(q, x)
             PROVE  /\ First(tx[p].want) \in Key /\ First(tx[q].want) \in Key
                    /\ Before(First(tx[p].want), First(tx[q].want))
  BY DEF Forward
<1>2. /\ Holds(q, First(tx[p].want)) /\ First(tx[p].want) \in Key
      /\ tx[q].pc = "lock" /\ First(tx[q].want) \in tx[q].want /\ First(tx[q].want) \in Key
  BY <1>1
<1>3. Climbs(q, tx[q])
  BY DEF ClimbingInv
<1> QED
  BY <1>2, <1>3 DEF Climbs

(* receivePurchaseOrder sorts the lines of a receipt by (sku, warehouse)     *)
(* before it handles them, so that the locks of one transaction ascend from  *)
(* line to line: receipts of any length, beside reserves, restocks,          *)
(* adjustments and transfers, never wait in a circle.                       *)
THEOREM NoCircleOfReceipts ==
  ASSUME NoFinish, IsFiniteSet(Proc), Unhashed
  PROVE  TxSpec => []NoDeadlock
<1>1. TxInit => ClimbingInv
  BY InitClimbs
<1>2. TxInv /\ ClimbingInv /\ [TxNext]_txVars => ClimbingInv'
  BY NextClimbs DEF TxInv
<1>3. TxInv /\ ClimbingInv /\ CasNeverLoses => NoDeadlock
  <2>1. \A P \in SUBSET Proc : IsFiniteSet(P)
    BY FS_Subset
  <2> QED
    BY <2>1, ClimbForward, SomeoneGoesOn DEF TxInv, NoDeadlock
<1> QED
  BY <1>1, <1>2, <1>3, TxInvariant, CompareAndSetHolds, PTL DEF TxSpec
=============================================================================
