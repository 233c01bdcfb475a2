---------------------------- MODULE TotalsProofs ----------------------------
(***************************************************************************)
(* ReturnRefund and CapTable, whose invariants are about sums: proved for   *)
(* every set of returns, sessions, components and founders, every price,    *)
(* quantity and stake, and every number of failures.                        *)
(*                                                                          *)
(* The lemmas of the first part are about Total, the sum of a function over *)
(* a finite set.                                                            *)
(*                                                                          *)
(* ReturnRefund: types, that the money that went out is covered by          *)
(* refundedTotal, that units are put back once and never claimed beyond     *)
(* what was ordered, that rounding stays within half a paisa per component, *)
(* and that what is REFUNDED was paid and restocked.  IInv adds to the      *)
(* run's invariants what a request knows about its return between two       *)
(* transactions: it has been received, and what has been paid or restocked  *)
(* stays so, whoever else settles it.                                       *)
(*                                                                          *)
(* CapTable: that the stakes add up, that the aggregates and the audit rows *)
(* agree with them, and that a dilution is in proportion.  EquityInv adds   *)
(* what a session has computed under the lock of the company and not yet    *)
(* written: it is a whole table with its sums, and one session has one.     *)
(***************************************************************************)
EXTENDS ReturnRefund, CapTable, FiniteSetTheorems, WellFoundedInduction, TLAPS

-----------------------------------------------------------------------------
(* Sums over a finite set.                                                 *)

UnitsOf(x, n) == {x} \X (1 .. n)

LEMMA UnitsOfCardinality ==
  ASSUME NEW x, NEW n \in Nat
  PROVE  IsFiniteSet(UnitsOf(x, n)) /\ Cardinality(UnitsOf(x, n)) = n
<1>1. IsFiniteSet({x}) /\ Cardinality({x}) = 1
  BY FS_Singleton
<1>2. IsFiniteSet(1 .. n) /\ Cardinality(1 .. n) = n
  BY FS_Interval
<1>3. IsFiniteSet(UnitsOf(x, n)) /\ Cardinality(UnitsOf(x, n)) = Cardinality({x}) * Cardinality(1 .. n)
  BY <1>1, <1>2, FS_Product DEF UnitsOf
<1> QED
  BY <1>1, <1>2, <1>3

(* The units that Total counts. *)
AllUnits(S, f) == UNION {UnitsOf(x, f[x]) : x \in S}

LEMMA TotalCounts ==
  ASSUME NEW S, NEW f
  PROVE  Total(S, f) = Cardinality(AllUnits(S, f))
BY DEF Total, AllUnits, UnitsOf

LEMMA AllUnitsFinite ==
  ASSUME NEW S, IsFiniteSet(S), NEW f, \A x \in S : f[x] \in Nat
  PROVE  IsFiniteSet(AllUnits(S, f))
<1> DEFINE T == {UnitsOf(x, f[x]) : x \in S}
           g == [x \in S |-> UnitsOf(x, f[x])]
<1>1. g \in Surjection(S, T)
  BY DEF Surjection
<1>2. IsFiniteSet(T)
  BY <1>1, FS_Surjection
<1>3. \A u \in T : IsFiniteSet(u)
  BY UnitsOfCardinality
<1> QED
  BY <1>2, <1>3, FS_UNION DEF AllUnits

LEMMA TotalType ==
  ASSUME NEW S, IsFiniteSet(S), NEW f, \A x \in S : f[x] \in Nat
  PROVE  Total(S, f) \in Nat
BY AllUnitsFinite, TotalCounts, FS_CardinalityType

LEMMA TotalEmpty ==
  ASSUME NEW f
  PROVE  Total({}, f) = 0
<1>1. AllUnits({}, f) = {}
  BY DEF AllUnits
<1> QED
  BY <1>1, TotalCounts, FS_EmptySet

(* Two functions that agree on the set have one sum. *)
LEMMA TotalSame ==
  ASSUME NEW S, NEW f, NEW g, \A x \in S : f[x] = g[x]
  PROVE  Total(S, f) = Total(S, g)
<1>1. AllUnits(S, f) = AllUnits(S, g)
  BY DEF AllUnits
<1> QED
  BY <1>1, TotalCounts

LEMMA TotalAdd ==
  ASSUME NEW S, IsFiniteSet(S), NEW f, NEW x, x \notin S, \A y \in S \cup {x} : f[y] \in Nat
  PROVE  Total(S \cup {x}, f) = Total(S, f) + f[x]
<1>1. AllUnits(S \cup {x}, f) = AllUnits(S, f) \cup UnitsOf(x, f[x])
  BY DEF AllUnits
<1>2. AllUnits(S, f) \cap UnitsOf(x, f[x]) = {}
  BY DEF AllUnits, UnitsOf
<1>3. IsFiniteSet(AllUnits(S, f)) /\ Cardinality(AllUnits(S, f)) \in Nat
  BY AllUnitsFinite, FS_CardinalityType
<1>4. IsFiniteSet(UnitsOf(x, f[x])) /\ Cardinality(UnitsOf(x, f[x])) = f[x]
  BY UnitsOfCardinality
<1>5. Cardinality(AllUnits(S, f) \cup UnitsOf(x, f[x])) = Cardinality(AllUnits(S, f)) + f[x]
  BY <1>2, <1>3, <1>4, FS_Union, FS_EmptySet
<1> QED
  BY <1>1, <1>5, TotalCounts

(* One element apart from the others. *)
LEMMA TotalSplit ==
  ASSUME NEW S, IsFiniteSet(S), NEW f, NEW x \in S, \A y \in S : f[y] \in Nat
  PROVE  /\ Total(S, f) = Total(S \ {x}, f) + f[x]
         /\ Total(S \ {x}, f) \in Nat
<1>1. IsFiniteSet(S \ {x})
  BY FS_RemoveElement
<1>2. (S \ {x}) \cup {x} = S
  OBVIOUS
<1>3. Total((S \ {x}) \cup {x}, f) = Total(S \ {x}, f) + f[x]
  BY <1>1, <1>2, TotalAdd
<1> QED
  BY <1>1, <1>2, <1>3, TotalType

LEMMA TotalSubset ==
  ASSUME NEW S, IsFiniteSet(S), NEW f, \A x \in S : f[x] \in Nat, NEW T \in SUBSET S
  PROVE  Total(T, f) <= Total(S, f) /\ Total(T, f) \in Nat
<1>1. AllUnits(T, f) \subseteq AllUnits(S, f)
  BY DEF AllUnits
<1>2. IsFiniteSet(AllUnits(S, f)) /\ IsFiniteSet(T)
  BY AllUnitsFinite, FS_Subset
<1> QED
  BY <1>1, <1>2, FS_Subset, TotalCounts, TotalType

(* The sum when one element of the set gets another value. *)
LEMMA TotalChange ==
  ASSUME NEW S, IsFiniteSet(S), NEW f, NEW g, NEW x \in S,
         \A y \in S : f[y] \in Nat /\ g[y] \in Nat, \A y \in S \ {x} : f[y] = g[y]
  PROVE  Total(S, g) = Total(S, f) + g[x] - f[x]
<1>1. Total(S \ {x}, f) = Total(S \ {x}, g)
  BY TotalSame
<1>2. Total(S, f) = Total(S \ {x}, f) + f[x] /\ Total(S \ {x}, f) \in Nat
  BY TotalSplit
<1>3. Total(S, g) = Total(S \ {x}, g) + g[x]
  BY TotalSplit
<1> QED
  BY <1>1, <1>2, <1>3

(* A set of subsets of a finite set has one that contains no other of them. *)
LEMMA MinimalSubset ==
  ASSUME NEW S, IsFiniteSet(S), NEW B \in SUBSET (SUBSET S), B # {}
  PROVE  \E T \in B : \A U \in B : U \subseteq T => U = T
<1>1. IsWellFoundedOn(StrictSubsetOrdering(S), FiniteSubsetsOf(S))
  BY FS_StrictSubsetOrderingWellFounded
<1>2. FiniteSubsetsOf(S) = SUBSET S
  BY FS_FiniteSubsetsOfFinite
<1>3. IsWellFoundedOn(StrictSubsetOrdering(S), SUBSET S)
  BY <1>1, <1>2
<1>4. PICK T \in B : \A U \in B : <<U, T>> \notin StrictSubsetOrdering(S)
  BY <1>3, WFMin
<1>5. \A U \in B : U \subseteq T => U = T
  <2> SUFFICES ASSUME NEW U \in B, U \subseteq T, U # T
               PROVE  FALSE
    OBVIOUS
  <2>1. <<U, T>> \in (SUBSET S) \X (SUBSET S)
    OBVIOUS
  <2>2. <<U, T>> \in StrictSubsetOrdering(S)
    BY <2>1 DEF StrictSubsetOrdering
  <2> QED
    BY <1>4, <2>2
<1> QED
  BY <1>5

LEMMA Distributes ==
  ASSUME NEW a \in Int, NEW u \in Int, NEW v \in Int
  PROVE  a * (u + v) = a * u + a * v /\ a * u \in Int
OBVIOUS

(* An inequality that every element satisfies, summed up. *)
LEMMA TotalCompare ==
  ASSUME NEW S, IsFiniteSet(S), NEW f, NEW g, \A x \in S : f[x] \in Nat /\ g[x] \in Nat,
         NEW a \in Int, NEW b \in Int, NEW c \in Int,
         \A x \in S : a * f[x] <= b * g[x] + c
  PROVE  a * Total(S, f) <= b * Total(S, g) + c * Cardinality(S)
<1> DEFINE Fits(T) == a * Total(T, f) <= b * Total(T, g) + c * Cardinality(T)
           B == {T \in SUBSET S : ~ Fits(T)}
<1>1. Fits({})
  <2>1. Total({}, f) = 0 /\ Total({}, g) = 0 /\ Cardinality({}) = 0
    BY TotalEmpty, FS_EmptySet
  <2> QED
    BY <2>1
<1>2. ASSUME NEW T \in SUBSET S, NEW x \in T, Fits(T \ {x})
      PROVE  Fits(T)
  <2>1. IsFiniteSet(T)
    BY FS_Subset
  <2>2. /\ Total(T, f) = Total(T \ {x}, f) + f[x] /\ Total(T \ {x}, f) \in Nat
        /\ Total(T, g) = Total(T \ {x}, g) + g[x] /\ Total(T \ {x}, g) \in Nat
    BY <2>1, TotalSplit
  <2>3. Cardinality(T) = Cardinality(T \ {x}) + 1 /\ Cardinality(T \ {x}) \in Nat
    <3>1. IsFiniteSet(T \ {x}) /\ Cardinality(T \ {x}) = Cardinality(T) - 1
      BY <2>1, FS_RemoveElement
    <3>2. Cardinality(T) \in Nat /\ Cardinality(T \ {x}) \in Nat
      BY <2>1, <3>1, FS_CardinalityType
    <3> QED
      BY <3>1, <3>2
  <2>4. a * Total(T, f) = a * Total(T \ {x}, f) + a * f[x]
        /\ a * Total(T \ {x}, f) \in Int /\ a * f[x] \in Int
    BY <2>2, Distributes
  <2>5. b * Total(T, g) = b * Total(T \ {x}, g) + b * g[x]
        /\ b * Total(T \ {x}, g) \in Int /\ b * g[x] \in Int
    BY <2>2, Distributes
  <2>6. c * Cardinality(T) = c * Cardinality(T \ {x}) + c /\ c * Cardinality(T \ {x}) \in Int
    <3>1. PICK n \in Nat : n = Cardinality(T \ {x})
      BY <2>3
    <3>2. Cardinality(T) = n + 1
      BY <2>3, <3>1
    <3>3. c * (n + 1) = c * n + c /\ c * n \in Int
      OBVIOUS
    <3> QED
      BY <3>1, <3>2, <3>3
  <2>7. a * f[x] <= b * g[x] + c
    OBVIOUS
  <2>8. a * Total(T \ {x}, f) <= b * Total(T \ {x}, g) + c * Cardinality(T \ {x})
    BY <1>2
  <2> QED
    BY <2>4, <2>5, <2>6, <2>7, <2>8
<1>3. B = {}
  <2> SUFFICES ASSUME B # {} PROVE FALSE
    OBVIOUS
  <2>1. B \in SUBSET (SUBSET S) /\ \A T \in SUBSET S : T \in B <=> ~ Fits(T)
    OBVIOUS
  <2> HIDE DEF Fits, B
  <2>2. PICK T \in B : \A U \in B : U \subseteq T => U = T
    BY <2>1, MinimalSubset
  <2>3. T # {}
    BY <1>1, <2>1, <2>2
  <2>4. PICK x \in T : TRUE
    BY <2>3
  <2>5. T \ {x} \notin B /\ T \ {x} \in SUBSET S
    BY <2>1, <2>2, <2>4
  <2> QED
    BY <1>2, <2>1, <2>2, <2>4, <2>5
<1>4. S \notin B
  BY <1>3
<1>5. Fits(S)
  BY <1>4
<1> QED
  BY <1>5

LEMMA DisjointUnion ==
  ASSUME NEW S, IsFiniteSet(S), NEW T, IsFiniteSet(T), S \cap T = {}
  PROVE  /\ IsFiniteSet(S \cup T) /\ Cardinality(S) \in Nat /\ Cardinality(T) \in Nat
         /\ Cardinality(S \cup T) = Cardinality(S) + Cardinality(T)
<1>1. Cardinality(S) \in Nat /\ Cardinality(T) \in Nat
  BY FS_CardinalityType
<1>2. Cardinality(S \cup T) = Cardinality(S) + Cardinality(T) - Cardinality(S \cap T)
  BY FS_Union
<1>3. Cardinality(S \cap T) = 0
  BY FS_EmptySet
<1> QED
  BY <1>1, <1>2, <1>3, FS_Union

(* Two sets apart from each other. *)
LEMMA TotalUnion ==
  ASSUME NEW S, IsFiniteSet(S), NEW T, IsFiniteSet(T), S \cap T = {},
         NEW f, \A x \in S \cup T : f[x] \in Nat
  PROVE  Total(S \cup T, f) = Total(S, f) + Total(T, f)
<1>1. AllUnits(S \cup T, f) = AllUnits(S, f) \cup AllUnits(T, f)
  BY DEF AllUnits
<1>2. AllUnits(S, f) \cap AllUnits(T, f) = {}
  BY DEF AllUnits, UnitsOf
<1>3. IsFiniteSet(AllUnits(S, f)) /\ IsFiniteSet(AllUnits(T, f))
  BY AllUnitsFinite
<1>4. Cardinality(AllUnits(S, f) \cup AllUnits(T, f))
        = Cardinality(AllUnits(S, f)) + Cardinality(AllUnits(T, f))
  BY <1>2, <1>3, DisjointUnion
<1> QED
  BY <1>1, <1>4, TotalCounts

(* A function that is constant on the set. *)
LEMMA TotalConstant ==
  ASSUME NEW S, IsFiniteSet(S), NEW f, NEW c \in Nat, \A x \in S : f[x] = c
  PROVE  Total(S, f) = c * Cardinality(S)
<1>1. Total(S, f) \in Nat /\ Cardinality(S) \in Nat
  BY TotalType, FS_CardinalityType
<1>2. 1 * Total(S, f) <= 0 * Total(S, f) + c * Cardinality(S)
  <2>1. \A x \in S : 1 * f[x] <= 0 * f[x] + c
    OBVIOUS
  <2>2. 1 \in Int /\ 0 \in Int /\ c \in Int /\ \A x \in S : f[x] \in Nat
    OBVIOUS
  <2> QED
    BY ONLY IsFiniteSet(S), <2>1, <2>2, TotalCompare
<1>3. (-1) * Total(S, f) <= 0 * Total(S, f) + (-c) * Cardinality(S)
  <2>1. \A x \in S : (-1) * f[x] <= 0 * f[x] + (-c)
    OBVIOUS
  <2>2. -c \in Int /\ -1 \in Int /\ 0 \in Int
    OBVIOUS
  <2> QED
    BY <2>1, <2>2, TotalCompare
<1>4. PICK t \in Nat, n \in Nat : t = Total(S, f) /\ n = Cardinality(S)
  BY <1>1
<1>5. c * n \in Nat /\ (-c) * n = -(c * n)
  OBVIOUS
<1> QED
  BY <1>2, <1>3, <1>4, <1>5

-----------------------------------------------------------------------------
(* What holds at every step.                                               *)

(* A price and a quantity of the return stay as requested, and are each other's. *)
AmountIsShare ==
    \A r \in Return : ret[r].status # "NONE" =>
        /\ ret[r].qty \in 1 .. Units
        /\ ret[r].amount = ProportionalLineRefund(ret[r].qty)

JobRecord ==
    [pc : {"idle", "create", "reserve", "call", "compensate", "finalizeOrder", "restock", "finalizeReturn"},
     ret : Return \cup {"none"}, qty : 0 .. Units, old : 0 .. GrandTotal, new : 0 .. GrandTotal]

Settling == {"reserve", "call", "compensate", "finalizeOrder", "restock", "finalizeReturn"}

(* What a request in the middle of its work may rely on. *)
Knows(j) ==
    /\ j.pc # "idle" => j.ret \in Return
    /\ j.pc = "create" => j.qty \in 1 .. Units
    /\ j.pc \in Settling => ret[j.ret].status \in {"RECEIVED", "REFUNDED"}
    /\ j.pc \in {"call", "compensate"} => j.new = j.old + ret[j.ret].amount
    /\ j.pc \in {"finalizeOrder", "restock", "finalizeReturn"} => paid[j.ret] >= ret[j.ret].amount
    /\ j.pc = "finalizeReturn" => ret[j.ret].restocked

JobsOK == job \in [Worker -> JobRecord] /\ \A w \in Worker : Knows(job[w])

CountersOK == failures \in Nat /\ lost \in Nat /\ crashes \in Nat

RetRecord ==
    [status : ReturnStatus, refundStatus : {"PENDING", "PROCESSING", "COMPLETED", "FAILED"},
     qty : 0 .. Units, amount : Nat, restocked : BOOLEAN]

OrderOK ==
    order \in [status : {"DELIVERED", "PARTIALLY_REFUNDED", "REFUNDED"}, refundedTotal : 0 .. GrandTotal]

RowsOK == ret \in [Return -> RetRecord] /\ paid \in [Return -> Nat]

(* What is claimed of the rows of the returns. *)
RowsInv == RowsOK /\ AmountIsShare /\ PutBackOnce /\ NeverOverReturned /\ RefundedIsSettled

IInv == OrderOK /\ CountersOK /\ JobsOK /\ RowsInv /\ CapCoversMoney

-----------------------------------------------------------------------------
(* Prices and shares.                                                      *)

LEMMA PriceType == LineTotal \in Nat /\ GrandTotal \in Nat
<1>1. LineTotal \in Nat
  BY ReturnRefundAssumption, TotalType DEF LineTotal
<1> QED
  BY <1>1, ReturnRefundAssumption DEF GrandTotal

(* Rounding half-up is within half a paisa. *)
LEMMA HalfUp ==
  ASSUME NEW a \in Nat, NEW u \in Nat \ {0}
  PROVE  /\ (2 * a + u) \div (2 * u) \in Nat
         /\ 2 * u * ((2 * a + u) \div (2 * u)) <= 2 * a + u
         /\ 2 * a <= 2 * u * ((2 * a + u) \div (2 * u)) + u
<1> DEFINE n == 2 * a + u
           d == 2 * u
           k == n \div d
<1>1. n \in Nat /\ d \in Nat /\ d > 0
  OBVIOUS
<1> HIDE DEF n, d
<1>2. k \in Nat /\ d * k <= n /\ n < d * k + d
  BY <1>1
<1>3. d * k \in Int
  BY <1>1, <1>2
<1> HIDE DEF k
<1>4. n < d * k + 2 * u /\ d * k <= n
  BY <1>2 DEF d
<1>5. 2 * a <= d * k + u
  BY <1>3, <1>4 DEF n
<1> QED
  BY <1>2, <1>4, <1>5 DEF n, d, k

LEMMA ShareRounds ==
  ASSUME NEW q \in 1 .. Units
  PROVE  /\ ProportionalLineRefund(q) \in Nat
         /\ 2 * Units * ProportionalLineRefund(q) <= 2 * q * LineTotal + Units * Cardinality(Part)
         /\ 2 * q * LineTotal <= 2 * Units * ProportionalLineRefund(q) + Units * Cardinality(Part)
<1> DEFINE share == [p \in Part |-> (2 * Parts[p] * q + Units) \div (2 * Units)]
           c == Cardinality(Part)
<1>0. /\ Units \in Nat \ {0} /\ q \in Nat /\ LineTotal \in Nat
      /\ IsFiniteSet(Part) /\ c \in Nat /\ \A p \in Part : Parts[p] \in Nat
  BY ReturnRefundAssumption, PriceType, FS_CardinalityType
<1>1. Units * c \in Nat
  BY <1>0
<1>2. CASE q >= Units
  <2>1. q = Units /\ ProportionalLineRefund(q) = LineTotal
    BY <1>0, <1>2 DEF ProportionalLineRefund
  <2>2. 2 * Units * LineTotal \in Int
    BY <1>0
  <2> QED
    BY <1>0, <1>1, <2>1, <2>2
<1>3. CASE ~(q >= Units)
  <2>1. ProportionalLineRefund(q) = Total(Part, share)
    BY <1>3 DEF ProportionalLineRefund
  <2>2. ASSUME NEW p \in Part
        PROVE  /\ share[p] \in Nat
               /\ 2 * Units * share[p] <= 2 * q * Parts[p] + Units
               /\ 2 * q * Parts[p] <= 2 * Units * share[p] + Units
    <3>1. Parts[p] * q \in Nat /\ Parts[p] \in Nat
      BY <1>0
    <3>2. PICK a \in Nat : a = Parts[p] * q
      BY <3>1
    <3>3. 2 * Parts[p] * q = 2 * a /\ 2 * q * Parts[p] = 2 * a
      BY <1>0, <3>1, <3>2
    <3>4. share[p] = (2 * a + Units) \div (2 * Units)
      BY <3>3
    <3> HIDE DEF share
    <3> QED
      BY <1>0, <3>3, <3>4, HalfUp
  <2> HIDE DEF share
  <2>3. PICK a \in Int, b \in Int : a = 2 * Units /\ b = 2 * q
    BY <1>0
  <2>4. a * Total(Part, share) <= b * Total(Part, Parts) + Units * c
    <3>1. \A p \in Part : share[p] \in Nat /\ Parts[p] \in Nat
      BY <1>0, <2>2
    <3>2. \A p \in Part : a * share[p] <= b * Parts[p] + Units
      BY <1>0, <2>2, <2>3
    <3>3. IsFiniteSet(Part) /\ Units \in Int
      BY <1>0
    <3> QED
      BY <3>1, <3>2, <3>3, TotalCompare
  <2>5. b * Total(Part, Parts) <= a * Total(Part, share) + Units * c
    <3>1. \A p \in Part : share[p] \in Nat /\ Parts[p] \in Nat
      BY <1>0, <2>2
    <3>2. \A p \in Part : b * Parts[p] <= a * share[p] + Units
      BY <1>0, <2>2, <2>3
    <3>3. IsFiniteSet(Part) /\ Units \in Int
      BY <1>0
    <3> QED
      BY <3>1, <3>2, <3>3, TotalCompare
  <2>6. Total(Part, share) \in Nat
    BY <1>0, <2>2, TotalType
  <2> QED
    BY <2>1, <2>3, <2>4, <2>5, <2>6 DEF LineTotal
<1> QED
  BY <1>2, <1>3

-----------------------------------------------------------------------------
(* The rows of the returns.                                                *)

(* No return loses what a request in the middle of its work relies on. *)
Grown ==
    \A r \in Return :
        /\ paid'[r] >= paid[r]
        /\ ret[r].status # "NONE" => ret'[r].qty = ret[r].qty /\ ret'[r].amount = ret[r].amount
        /\ ret[r].status \in {"RECEIVED", "REFUNDED"} => ret'[r].status \in {"RECEIVED", "REFUNDED"}
        /\ ret[r].restocked => ret'[r].restocked

LEMMA CountedFinite == IsFiniteSet(Counted) /\ Counted \subseteq Return
BY ReturnRefundAssumption, FS_Subset DEF Counted

LEMMA CountedFiniteAfter == IsFiniteSet(Counted') /\ Counted' \subseteq Return
BY ReturnRefundAssumption, FS_Subset DEF Counted

LEMMA QtyType ==
  ASSUME RowsOK
  PROVE  \A r \in Return : Qty[r] = ret[r].qty /\ Qty[r] \in Nat
BY ReturnRefundAssumption DEF RowsOK, RetRecord, Qty

LEMMA QtyTypeAfter ==
  ASSUME RowsOK'
  PROVE  \A r \in Return : Qty'[r] = ret'[r].qty /\ Qty'[r] \in Nat
BY ReturnRefundAssumption DEF RowsOK, RetRecord, Qty

LEMMA ClaimedIsTotal == Claimed = Total(Counted, Qty) /\ Claimed' = Total(Counted', Qty')
BY DEF Claimed, Counted

(* Claims do not grow when no return starts to count. *)
LEMMA ClaimsShrink ==
  ASSUME RowsOK, RowsOK', Grown, NeverOverReturned, Counted' \subseteq Counted
  PROVE  NeverOverReturned'
<1>1. \A r \in Counted' : Qty'[r] = Qty[r]
  BY QtyType, QtyTypeAfter DEF Grown, Counted
<1>2. Total(Counted', Qty') = Total(Counted', Qty)
  BY <1>1, TotalSame
<1>3. \A r \in Counted : Qty[r] \in Nat
  BY QtyType, CountedFinite
<1>4. Total(Counted', Qty) <= Total(Counted, Qty) /\ Total(Counted', Qty) \in Nat
  BY <1>3, CountedFinite, TotalSubset
<1>5. Total(Counted, Qty) \in Nat
  BY <1>3, CountedFinite, TotalType
<1> QED
  BY <1>2, <1>4, <1>5, ClaimedIsTotal, ReturnRefundAssumption DEF NeverOverReturned

LEMMA PutBackStays ==
  ASSUME RowsOK, RowsOK', Grown, PutBackOnce, putBack' = putBack,
         \A r \in Return : ret'[r].restocked = ret[r].restocked
  PROVE  PutBackOnce'
<1> DEFINE back == {r \in Return : ret[r].restocked}
<1>1. back' = back
  OBVIOUS
<1>2. \A r \in back : Qty'[r] = Qty[r] /\ ret'[r].status \in {"RECEIVED", "REFUNDED"}
  BY QtyType, QtyTypeAfter DEF Grown, PutBackOnce
<1>3. Total(back, Qty') = Total(back, Qty)
  BY <1>2, TotalSame
<1> QED
  BY <1>1, <1>2, <1>3 DEF PutBackOnce

(* A step that leaves the returns alone, and at most pays for one. *)
LEMMA RowsStay ==
  ASSUME RowsInv, ret' = ret, putBack' = putBack, paid' \in [Return -> Nat],
         \A r \in Return : paid'[r] >= paid[r]
  PROVE  RowsInv' /\ Grown
<1>1. RowsOK /\ RowsOK' /\ Grown
  BY DEF RowsInv, RowsOK, Grown
<1>2. AmountIsShare'
  BY DEF RowsInv, AmountIsShare, ProportionalLineRefund
<1>3. NeverOverReturned'
  BY <1>1, ClaimsShrink DEF RowsInv, Counted
<1>4. PutBackOnce'
  BY <1>1, PutBackStays DEF RowsInv
<1>5. RefundedIsSettled'
  BY <1>1 DEF RowsInv, RowsOK, RetRecord, RefundedIsSettled
<1> QED
  BY <1>1, <1>2, <1>3, <1>4, <1>5 DEF RowsInv

(* Return r moves from one status to another. *)
Moves(r) ==
    /\ ret' \in [Return -> RetRecord]
    /\ \A q \in Return \ {r} : ret'[q] = ret[q]
    /\ ret[r].status # "NONE" /\ ret'[r].status # "NONE"
    /\ ret'[r].qty = ret[r].qty /\ ret'[r].amount = ret[r].amount
    /\ ret'[r].restocked = ret[r].restocked
    /\ ret[r].status = "REJECTED" => ret'[r].status = "REJECTED"
    /\ ret[r].status \in {"RECEIVED", "REFUNDED"} => ret'[r].status \in {"RECEIVED", "REFUNDED"}

LEMMA RowMoves ==
  ASSUME RowsInv, NEW r \in Return, Moves(r), UNCHANGED <<paid, putBack>>,
         ret'[r].status = "REFUNDED" =>
            paid[r] >= ret[r].amount /\ ret[r].restocked /\ ret'[r].refundStatus = "COMPLETED"
  PROVE  RowsInv' /\ Grown
<1>1. RowsOK /\ RowsOK' /\ Grown
  BY DEF RowsInv, RowsOK, Grown, Moves
<1>2. AmountIsShare'
  <2> SUFFICES ASSUME NEW q \in Return, ret'[q].status # "NONE"
               PROVE  /\ ret'[q].qty \in 1 .. Units
                      /\ ret'[q].amount = ProportionalLineRefund(ret'[q].qty)
    BY DEF AmountIsShare, ProportionalLineRefund
  <2>1. ret[q].status # "NONE" /\ ret'[q].qty = ret[q].qty /\ ret'[q].amount = ret[q].amount
    BY DEF Moves
  <2> QED
    BY <2>1 DEF RowsInv, AmountIsShare
<1>3. Counted' \subseteq Counted
  BY DEF Counted, Moves
<1>4. NeverOverReturned'
  BY <1>1, <1>3, ClaimsShrink DEF RowsInv
<1>5. \A q \in Return : ret'[q].restocked = ret[q].restocked
  BY DEF Moves
<1>6. PutBackOnce'
  BY <1>1, <1>5, PutBackStays DEF RowsInv
<1>7. RefundedIsSettled'
  <2> SUFFICES ASSUME NEW q \in Return, ret'[q].status = "REFUNDED"
               PROVE  paid'[q] >= ret'[q].amount /\ ret'[q].restocked /\ ret'[q].refundStatus = "COMPLETED"
    BY DEF RefundedIsSettled
  <2>1. CASE q = r
    BY <2>1 DEF Moves
  <2>2. CASE q # r
    BY <2>2 DEF Moves, RowsInv, RefundedIsSettled
  <2> QED
    BY <2>1, <2>2
<1> QED
  BY <1>1, <1>2, <1>4, <1>6, <1>7 DEF RowsInv

(* Return r is entered with quantity q, which still fits what was ordered. *)
LEMMA RowCreated ==
  ASSUME RowsInv, NEW r \in Return, NEW q \in 1 .. Units, ret[r].status = "NONE",
         q <= Units - AlreadyReturned({}), UNCHANGED <<paid, putBack>>,
         ret' = [ret EXCEPT ![r].status = "REQUESTED", ![r].qty = q, ![r].amount = ProportionalLineRefund(q)]
  PROVE  RowsInv' /\ Grown
<1>0. RowsOK /\ Units \in Nat /\ q \in 0 .. Units /\ q \in Nat /\ ProportionalLineRefund(q) \in Nat
  BY ReturnRefundAssumption, ShareRounds DEF RowsInv
<1>1. /\ ret' \in [Return -> RetRecord]
      /\ \A x \in Return \ {r} : ret'[x] = ret[x]
      /\ ret'[r].status = "REQUESTED" /\ ret'[r].qty = q /\ ret'[r].amount = ProportionalLineRefund(q)
      /\ ret'[r].restocked = ret[r].restocked
  BY <1>0 DEF RowsOK, RetRecord, ReturnStatus
<1>2. RowsOK' /\ Grown
  BY <1>0, <1>1 DEF RowsOK, Grown
<1>3. AmountIsShare'
  BY <1>1 DEF RowsInv, AmountIsShare, ProportionalLineRefund
<1>4. PutBackOnce'
  <2>1. \A x \in Return : ret'[x].restocked = ret[x].restocked
    BY <1>1
  <2> QED
    BY <1>0, <1>2, <2>1, PutBackStays DEF RowsInv
<1>5. RefundedIsSettled'
  <2> SUFFICES ASSUME NEW x \in Return, ret'[x].status = "REFUNDED"
               PROVE  paid'[x] >= ret'[x].amount /\ ret'[x].restocked /\ ret'[x].refundStatus = "COMPLETED"
    BY DEF RefundedIsSettled
  <2>1. x # r
    BY <1>1
  <2> QED
    BY <1>1, <2>1 DEF RowsInv, RefundedIsSettled
<1>6. NeverOverReturned'
  <2>1. Counted' = Counted \cup {r} /\ r \notin Counted
    BY <1>1 DEF Counted
  <2>2. \A x \in Counted : Qty'[x] = Qty[x]
    BY <1>0, <1>1, <1>2, <2>1, QtyType, QtyTypeAfter, CountedFinite
  <2>3. Qty'[r] = q
    BY <1>1, <1>2, QtyTypeAfter
  <2>4. \A x \in Counted \cup {r} : Qty'[x] \in Nat
    BY <1>2, QtyTypeAfter, CountedFinite
  <2> DEFINE g == Qty'
             C == Counted
  <2>5. /\ IsFiniteSet(C) /\ r \notin C /\ \A x \in C \cup {r} : g[x] \in Nat
        /\ \A x \in C : g[x] = Qty[x]
        /\ g[r] = q
    BY <2>1, <2>2, <2>3, <2>4, CountedFinite
  <2>6. Claimed' = Total(C \cup {r}, g) /\ Total(C, Qty) = AlreadyReturned({})
    <3>1. C \ {} = C
      OBVIOUS
    <3> QED
      BY <2>1, <3>1, ClaimedIsTotal DEF AlreadyReturned
  <2> HIDE DEF g, C
  <2>7. Total(C \cup {r}, g) = Total(C, g) + g[r]
    <3>1. IsFiniteSet(C) /\ r \notin C
      BY <2>5
    <3>2. \A x \in C \cup {r} : g[x] \in Nat
      BY <2>5
    <3> QED
      BY ONLY <3>1, <3>2, TotalAdd
  <2>8. Total(C, g) = Total(C, Qty)
    BY <2>5, TotalSame
  <2>9. Total(C, g) \in Nat
    BY <2>5, TotalType
  <2> QED
    BY <1>0, <2>5, <2>6, <2>7, <2>8, <2>9 DEF NeverOverReturned
<1> QED
  BY <1>2, <1>3, <1>4, <1>5, <1>6 DEF RowsInv

(* Return r is put back on stock, by whoever comes first. *)
LEMMA RowRestocked ==
  ASSUME RowsInv, NEW r \in Return, ret[r].status \in {"RECEIVED", "REFUNDED"}, paid' = paid,
         ret' = [ret EXCEPT ![r].restocked = TRUE],
         putBack' = IF ret[r].restocked THEN putBack ELSE putBack + ret[r].qty
  PROVE  RowsInv' /\ Grown /\ ret'[r].restocked
<1>0. RowsOK
  BY DEF RowsInv
<1>1. /\ ret' \in [Return -> RetRecord]
      /\ \A x \in Return \ {r} : ret'[x] = ret[x]
      /\ ret'[r].status = ret[r].status /\ ret'[r].qty = ret[r].qty /\ ret'[r].amount = ret[r].amount
      /\ ret'[r].refundStatus = ret[r].refundStatus /\ ret'[r].restocked = TRUE
  BY <1>0 DEF RowsOK, RetRecord
<1>2. RowsOK' /\ Grown
  BY <1>0, <1>1 DEF RowsOK, Grown
<1>3. AmountIsShare'
  <2> SUFFICES ASSUME NEW x \in Return, ret'[x].status # "NONE"
               PROVE  /\ ret'[x].qty \in 1 .. Units
                      /\ ret'[x].amount = ProportionalLineRefund(ret'[x].qty)
    BY DEF AmountIsShare, ProportionalLineRefund
  <2>1. ret[x].status # "NONE" /\ ret'[x].qty = ret[x].qty /\ ret'[x].amount = ret[x].amount
    BY <1>1
  <2> QED
    BY <2>1 DEF RowsInv, AmountIsShare
<1>4. NeverOverReturned'
  <2>1. Counted' \subseteq Counted
    BY <1>1 DEF Counted
  <2> QED
    BY <1>0, <1>2, <2>1, ClaimsShrink DEF RowsInv
<1>5. RefundedIsSettled'
  <2> SUFFICES ASSUME NEW x \in Return, ret'[x].status = "REFUNDED"
               PROVE  paid'[x] >= ret'[x].amount /\ ret'[x].restocked /\ ret'[x].refundStatus = "COMPLETED"
    BY DEF RefundedIsSettled
  <2> QED
    BY <1>1 DEF RowsInv, RefundedIsSettled
<1>6. PutBackOnce'
  <2>1. CASE ret[r].restocked
    <3>1. \A x \in Return : ret'[x].restocked = ret[x].restocked
      BY <1>0, <1>1, <2>1 DEF RowsOK, RetRecord
    <3> QED
      BY <1>0, <1>2, <2>1, <3>1, PutBackStays DEF RowsInv
  <2>2. CASE ~ ret[r].restocked
    <3> DEFINE back == {x \in Return : ret[x].restocked}
               g == Qty'
    <3>1. back' = back \cup {r} /\ r \notin back /\ back \subseteq Return
      BY <1>0, <1>1, <2>2 DEF RowsOK, RetRecord
    <3>2. \A x \in back \cup {r} : g[x] = Qty[x] /\ g[x] \in Nat /\ ret'[x].status \in {"RECEIVED", "REFUNDED"}
      BY <1>0, <1>1, <1>2, <3>1, QtyType, QtyTypeAfter DEF RowsInv, PutBackOnce
    <3>3. IsFiniteSet(back)
      BY <3>1, FS_Subset, ReturnRefundAssumption
    <3>4. g[r] = ret[r].qty
      BY <1>1, <1>2, QtyTypeAfter
    <3>5. putBack = Total(back, Qty)
      BY DEF RowsInv, PutBackOnce
    <3>6. PutBackOnce' <=> putBack' = Total(back', g) /\ \A x \in back' : ret'[x].status \in {"RECEIVED", "REFUNDED"}
      BY DEF PutBackOnce
    <3> HIDE DEF back, g
    <3>7. Total(back \cup {r}, g) = Total(back, g) + g[r]
      <4>1. IsFiniteSet(back) /\ r \notin back
        BY <3>1, <3>3
      <4>2. \A x \in back \cup {r} : g[x] \in Nat
        BY <3>2
      <4> QED
        BY ONLY <4>1, <4>2, TotalAdd
    <3>8. Total(back, g) = Total(back, Qty)
      BY <3>2, TotalSame
    <3> QED
      BY <2>2, <3>1, <3>2, <3>4, <3>5, <3>6, <3>7, <3>8
  <2> QED
    BY <2>1, <2>2
<1> QED
  BY <1>1, <1>2, <1>3, <1>4, <1>5, <1>6 DEF RowsInv

(* What is back on stock is at most what was ordered. *)
LEMMA PutBackBounded ==
  ASSUME RowsInv
  PROVE  putBack \in 0 .. Units
<1> DEFINE back == {r \in Return : ret[r].restocked}
<1>1. back \subseteq Counted /\ putBack = Total(back, Qty)
  BY DEF RowsInv, PutBackOnce, Counted
<1>2. \A r \in Counted : Qty[r] \in Nat
  BY QtyType, CountedFinite DEF RowsInv
<1>3. Total(Counted, Qty) <= Units /\ Total(Counted, Qty) \in Nat
  BY <1>2, CountedFinite, ClaimedIsTotal, TotalType DEF RowsInv, NeverOverReturned
<1> HIDE DEF back
<1>4. Total(back, Qty) <= Total(Counted, Qty) /\ Total(back, Qty) \in Nat
  BY <1>1, <1>2, CountedFinite, TotalSubset
<1> QED
  BY <1>1, <1>3, <1>4, ReturnRefundAssumption

-----------------------------------------------------------------------------
(* The requests.                                                           *)

LEMMA JobsSame ==
  ASSUME JobsOK, RowsOK, RowsOK', Grown, job' = job
  PROVE  JobsOK'
<1> SUFFICES ASSUME NEW w \in Worker, NEW j \in JobRecord, j = job[w], Knows(j)
             PROVE  Knows(j)'
  BY DEF JobsOK, JobRecord, Knows
<1> QED
  BY DEF RowsOK, RetRecord, JobRecord, Knows, Grown, Settling

(* One request goes on to j, whose knowledge is true; the others keep theirs. *)
LEMMA JobGoes ==
  ASSUME JobsOK, RowsOK, RowsOK', Grown, NEW w \in Worker, NEW j \in JobRecord, Go(w, j), Knows(j)'
  PROVE  JobsOK'
<1>1. job' \in [Worker -> JobRecord]
  BY DEF JobsOK, Go
<1>2. ASSUME NEW v \in Worker, NEW i \in JobRecord, i = job'[v]
      PROVE  Knows(i)'
  <2>1. CASE v = w
    BY <1>2, <2>1 DEF JobsOK, Go
  <2>2. CASE v # w
    <3>1. i = job[v] /\ Knows(i)
      BY <1>2, <2>2 DEF JobsOK, Go
    <3> QED
      BY <3>1 DEF JobRecord, RowsOK, RetRecord, Knows, Grown, Settling
  <2> QED
    BY <2>1, <2>2
<1>3. \A v \in Worker : \E i \in JobRecord : i = job'[v] /\ Knows(i)'
  BY <1>1, <1>2
<1> QED
  BY <1>1, <1>3 DEF JobsOK, Knows

LEMMA IdleKnows == Idle \in JobRecord /\ Knows(Idle)'
BY PriceType, ReturnRefundAssumption DEF Idle, JobRecord, Knows, Settling

-----------------------------------------------------------------------------
(* The money.                                                              *)

Reserves(j) == j.pc \in {"call", "compensate"}

(* What each request has reserved. *)
Held == [w \in Worker |-> job[w].new - job[w].old]

LEMMA FlightType ==
  ASSUME JobsOK, RowsOK
  PROVE  /\ IsFiniteSet(Reserving) /\ Reserving \subseteq Worker
         /\ \A w \in Reserving : Held[w] \in Nat
         /\ InFlight = Total(Reserving, Held) /\ InFlight \in Nat
<1>1. IsFiniteSet(Reserving) /\ Reserving \subseteq Worker
  BY ReturnRefundAssumption, FS_Subset DEF Reserving
<1>2. \A w \in Reserving : Held[w] \in Nat
  BY PriceType DEF JobsOK, JobRecord, Knows, Reserving, RowsOK, RetRecord, Held
<1>3. InFlight = Total(Reserving, Held)
  BY DEF InFlight, Held
<1> QED
  BY <1>1, <1>2, <1>3, TotalType

LEMMA FlightTypeAfter ==
  ASSUME JobsOK', RowsOK'
  PROVE  /\ IsFiniteSet(Reserving') /\ Reserving' \subseteq Worker
         /\ \A w \in Reserving' : Held'[w] \in Nat
         /\ InFlight' = Total(Reserving', Held') /\ InFlight' \in Nat
<1>1. IsFiniteSet(Reserving') /\ Reserving' \subseteq Worker
  BY ReturnRefundAssumption, FS_Subset DEF Reserving
<1>2. \A w \in Reserving' : Held'[w] \in Nat
  BY PriceType DEF JobsOK, JobRecord, Knows, Reserving, RowsOK, RetRecord, Held
<1>3. InFlight' = Total(Reserving', Held')
  BY DEF InFlight, Held
<1> QED
  BY <1>1, <1>2, <1>3, TotalType

(* What a step of one request does to the money in flight. *)
LEMMA FlightMoves ==
  ASSUME JobsOK, RowsOK, JobsOK', RowsOK', NEW w \in Worker, NEW j \in JobRecord, Go(w, j)
  PROVE  /\ ~ Reserves(job[w]) /\ ~ Reserves(j) => InFlight' = InFlight
         /\ ~ Reserves(job[w]) /\ Reserves(j) => InFlight' = InFlight + (j.new - j.old)
         /\ Reserves(job[w]) /\ ~ Reserves(j) => InFlight' = InFlight - (job[w].new - job[w].old)
         /\ Reserves(job[w]) /\ Reserves(j) /\ j.new = job[w].new /\ j.old = job[w].old
              => InFlight' = InFlight
<1> DEFINE S == Reserving
           T == Reserving'
           f == Held
           g == Held'
<1>1. /\ \A v \in Worker \ {w} : f[v] = g[v] /\ (v \in S <=> v \in T)
      /\ w \in S <=> Reserves(job[w])
      /\ w \in T <=> Reserves(j)
      /\ f[w] = job[w].new - job[w].old
      /\ g[w] = j.new - j.old
  BY DEF JobsOK, Go, Held, Reserving, Reserves
<1>2. /\ IsFiniteSet(S) /\ S \subseteq Worker /\ \A v \in S : f[v] \in Nat
      /\ InFlight = Total(S, f) /\ InFlight \in Nat
  BY FlightType
<1>3. /\ IsFiniteSet(T) /\ T \subseteq Worker /\ \A v \in T : g[v] \in Nat
      /\ InFlight' = Total(T, g) /\ InFlight' \in Nat
  BY FlightTypeAfter
<1> HIDE DEF S, T, f, g
<1>4. S \ {w} = T \ {w} /\ \A v \in S \ {w} : f[v] = g[v]
  BY <1>1, <1>2, <1>3
<1>5. Total(S \ {w}, f) = Total(T \ {w}, g)
  BY <1>4, TotalSame
<1>6. w \in S => Total(S, f) = Total(S \ {w}, f) + f[w] /\ Total(S \ {w}, f) \in Nat
  BY <1>2, TotalSplit
<1>7. w \in T => Total(T, g) = Total(T \ {w}, g) + g[w] /\ Total(T \ {w}, g) \in Nat
  BY <1>3, TotalSplit
<1>8. (w \notin S => S \ {w} = S) /\ (w \notin T => T \ {w} = T)
  OBVIOUS
<1>9. CASE w \notin S /\ w \notin T
  BY <1>1, <1>2, <1>3, <1>5, <1>8, <1>9
<1>10. CASE w \notin S /\ w \in T
  <2>1. g[w] \in Nat
    BY <1>3, <1>10
  <2> QED
    BY <1>1, <1>2, <1>3, <1>5, <1>7, <1>8, <1>10, <2>1
<1>11. CASE w \in S /\ w \notin T
  <2>1. f[w] \in Nat
    BY <1>2, <1>11
  <2>2. InFlight = InFlight' + f[w]
    BY <1>2, <1>3, <1>5, <1>6, <1>8, <1>11
  <2>3. InFlight' = InFlight - f[w]
    BY <1>2, <1>3, <2>1, <2>2
  <2> QED
    BY <1>1, <1>11, <2>3
<1>12. CASE w \in S /\ w \in T
  BY <1>1, <1>2, <1>3, <1>5, <1>6, <1>7, <1>12
<1> QED
  BY <1>9, <1>10, <1>11, <1>12

LEMMA FlightStays ==
  ASSUME job' = job
  PROVE  InFlight' = InFlight
BY DEF InFlight, Reserving

LEMMA PaidType ==
  ASSUME RowsOK
  PROVE  PaidTotal \in Nat
BY ReturnRefundAssumption, TotalType DEF PaidTotal, RowsOK

(* Paying for return r adds its amount to what has been paid. *)
LEMMA PayAdds ==
  ASSUME RowsOK, NEW r \in Return, Pay(r)
  PROVE  /\ paid' \in [Return -> Nat] /\ \A q \in Return : paid'[q] >= paid[q]
         /\ paid'[r] >= ret[r].amount
         /\ PaidTotal' = PaidTotal + ret[r].amount
<1> DEFINE f == paid
           g == paid'
<1>1. ret[r].amount \in Nat /\ \A q \in Return : f[q] \in Nat
  BY DEF RowsOK, RetRecord
<1>2. g[r] = f[r] + ret[r].amount /\ \A q \in Return \ {r} : f[q] = g[q]
  BY DEF Pay, RowsOK
<1>3. g \in [Return -> Nat]
  BY <1>1 DEF Pay, RowsOK
<1>4. \A q \in Return : g[q] >= f[q]
  BY <1>1, <1>2
<1>5. PaidTotal' = Total(Return, g) /\ PaidTotal = Total(Return, f)
  BY DEF PaidTotal
<1>6. PaidTotal \in Nat
  BY PaidType
<1>7. g[r] >= ret[r].amount
  BY <1>1, <1>2
<1>8. \A q \in Return : f[q] \in Nat /\ g[q] \in Nat
  BY <1>1, <1>3
<1>9. IsFiniteSet(Return)
  BY ReturnRefundAssumption
<1>10. PaidTotal' = PaidTotal + ret[r].amount
  <2> HIDE DEF f, g
  <2>1. Total(Return, g) = Total(Return, f) + g[r] - f[r]
    BY ONLY <1>2, <1>8, <1>9, r \in Return, TotalChange
  <2> QED
    BY <1>1, <1>2, <1>5, <1>6, <2>1
<1> QED
  BY <1>3, <1>4, <1>7, <1>10

LEMMA CapStays ==
  ASSUME CapCoversMoney, lost' = lost, paid' = paid, InFlight' = InFlight, order' = order
  PROVE  CapCoversMoney'
BY DEF CapCoversMoney, PaidTotal

-----------------------------------------------------------------------------
(* One lemma per kind of step: the status of a return moves, a request goes  *)
(* on without touching the returns, money moves, and the restocking.          *)

LEMMA RejectSafe ==
  ASSUME IInv, NEW r \in Return, RejectReturn(r)
  PROVE  IInv'
<1>1. Moves(r) /\ ret'[r].status = "REJECTED"
  <2>1. ret \in [Return -> RetRecord] /\ ret[r].status = "REQUESTED"
    BY DEF IInv, RowsInv, RowsOK, RejectReturn
  <2>2. ret' = [ret EXCEPT ![r].status = "REJECTED"]
    BY DEF RejectReturn
  <2> QED
    BY <2>1, <2>2 DEF Moves, RetRecord, ReturnStatus
<1>2. RowsInv' /\ Grown
  BY <1>1, RowMoves DEF IInv, RejectReturn
<1>3. UNCHANGED <<order, job, lost, paid, failures, crashes>>
  BY DEF RejectReturn, faults
<1>4. JobsOK' /\ CapCoversMoney'
  BY <1>2, <1>3, JobsSame, FlightStays, CapStays DEF IInv, RowsInv
<1> QED
  BY <1>2, <1>3, <1>4 DEF IInv, OrderOK, CountersOK

LEMMA ApproveSafe ==
  ASSUME IInv, NEW r \in Return, ApproveReturn(r)
  PROVE  IInv'
<1>1. Moves(r) /\ ret'[r].status \in {"APPROVED", "REJECTED"}
  <2>1. ret \in [Return -> RetRecord] /\ ret[r].status = "REQUESTED"
    BY DEF IInv, RowsInv, RowsOK, ApproveReturn
  <2>2. CASE ret' = [ret EXCEPT ![r].status = "APPROVED"]
    BY <2>1, <2>2 DEF Moves, RetRecord, ReturnStatus
  <2>3. CASE ret' = [ret EXCEPT ![r].status = "REJECTED", ![r].refundStatus = "FAILED"]
    BY <2>1, <2>3 DEF Moves, RetRecord, ReturnStatus
  <2> QED
    BY <2>2, <2>3 DEF ApproveReturn
<1>2. RowsInv' /\ Grown
  BY <1>1, RowMoves DEF IInv, ApproveReturn
<1>3. UNCHANGED <<order, job, lost, paid, failures, crashes>>
  BY DEF ApproveReturn, faults
<1>4. JobsOK' /\ CapCoversMoney'
  BY <1>2, <1>3, JobsSame, FlightStays, CapStays DEF IInv, RowsInv
<1> QED
  BY <1>2, <1>3, <1>4 DEF IInv, OrderOK, CountersOK

LEMMA InTransitSafe ==
  ASSUME IInv, NEW r \in Return, MarkReturnInTransit(r)
  PROVE  IInv'
<1>1. Moves(r) /\ ret'[r].status = "IN_TRANSIT"
  <2>1. ret \in [Return -> RetRecord] /\ ret[r].status = "APPROVED"
    BY DEF IInv, RowsInv, RowsOK, MarkReturnInTransit
  <2>2. ret' = [ret EXCEPT ![r].status = "IN_TRANSIT"]
    BY DEF MarkReturnInTransit
  <2> QED
    BY <2>1, <2>2 DEF Moves, RetRecord, ReturnStatus
<1>2. RowsInv' /\ Grown
  BY <1>1, RowMoves DEF IInv, MarkReturnInTransit
<1>3. UNCHANGED <<order, job, lost, paid, failures, crashes>>
  BY DEF MarkReturnInTransit, faults
<1>4. JobsOK' /\ CapCoversMoney'
  BY <1>2, <1>3, JobsSame, FlightStays, CapStays DEF IInv, RowsInv
<1> QED
  BY <1>2, <1>3, <1>4 DEF IInv, OrderOK, CountersOK

LEMMA ClaimSafe ==
  ASSUME IInv, NEW w \in Worker, NEW r \in Return, ClaimReturn(w, r)
  PROVE  IInv'
<1>1. Moves(r) /\ ret'[r].status = "RECEIVED"
  <2>1. ret \in [Return -> RetRecord] /\ ret[r].status \in {"APPROVED", "IN_TRANSIT", "RECEIVED"}
    BY DEF IInv, RowsInv, RowsOK, ClaimReturn
  <2>2. ret' = [ret EXCEPT ![r].status = "RECEIVED", ![r].refundStatus = "PROCESSING"]
    BY DEF ClaimReturn
  <2> QED
    BY <2>1, <2>2 DEF Moves, RetRecord, ReturnStatus
<1>2. RowsInv' /\ Grown
  BY <1>1, RowMoves DEF IInv, ClaimReturn
<1>3. PICK p \in {"reserve", "restock"} : p = IF ret[r].amount > 0 THEN "reserve" ELSE "restock"
  OBVIOUS
<1>4. PICK j \in JobRecord : j.pc = p /\ j.ret = r /\ Go(w, j)
  <2>1. 0 \in 0 .. Units /\ 0 \in 0 .. GrandTotal
    BY PriceType, ReturnRefundAssumption
  <2>2. PICK j : j = [Idle EXCEPT !.ret = r, !.pc = p] /\ Go(w, j)
    BY <1>3 DEF ClaimReturn
  <2> QED
    BY <2>1, <2>2 DEF Idle, JobRecord
<1>5. Knows(j)'
  <2>1. ret[r].amount \in Nat /\ paid'[r] \in Nat /\ ret'[r].amount = ret[r].amount
    BY <1>1, <1>2 DEF IInv, RowsInv, RowsOK, RetRecord, Moves
  <2>2. p = "restock" => ret[r].amount = 0
    BY <1>3, <2>1
  <2> QED
    BY <1>1, <1>3, <1>4, <2>1, <2>2 DEF Knows, Settling
<1>6. UNCHANGED <<order, lost, paid, failures, crashes>>
  BY DEF ClaimReturn, faults
<1>7. JobsOK'
  BY <1>2, <1>3, <1>4, <1>5, JobGoes DEF IInv, RowsInv
<1>8. ~ Reserves(job[w]) /\ ~ Reserves(j)
  BY <1>4 DEF Reserves, ClaimReturn
<1>9. InFlight' = InFlight
  BY <1>2, <1>3, <1>4, <1>7, <1>8, FlightMoves DEF IInv, RowsInv
<1>10. CapCoversMoney'
  BY <1>6, <1>9, CapStays DEF IInv
<1> QED
  BY <1>2, <1>6, <1>7, <1>10 DEF IInv, OrderOK, CountersOK

(* A request is accepted. *)
LEMMA RequestSafe ==
  ASSUME IInv, NEW w \in Worker, NEW r \in Return, NEW q \in 1 .. Units, RequestReturn(w, r, q)
  PROVE  IInv'
<1>1. RowsInv' /\ Grown
  BY RowsStay DEF IInv, RowsInv, RowsOK, RetRecord, RequestReturn
<1>2. PICK j : j = [Idle EXCEPT !.pc = "create", !.ret = r, !.qty = q] /\ Go(w, j)
  BY DEF RequestReturn
<1>3. j.pc = "create" /\ j.ret = r /\ j.qty = q /\ j \in JobRecord
  <2>1. q \in 0 .. Units /\ 0 \in 0 .. GrandTotal
    BY PriceType, ReturnRefundAssumption
  <2> QED
    BY <1>2, <2>1 DEF Idle, JobRecord
<1>4. Knows(j)'
  BY <1>3 DEF Knows, Settling
<1>5. UNCHANGED <<order, lost, paid, failures, crashes>>
  BY DEF RequestReturn, faults
<1>6. JobsOK'
  BY <1>1, <1>2, <1>3, <1>4, JobGoes DEF IInv, RowsInv
<1>7. ~ Reserves(job[w]) /\ ~ Reserves(j)
  BY <1>3 DEF Reserves, RequestReturn
<1>8. CapCoversMoney'
  BY <1>1, <1>2, <1>3, <1>5, <1>6, <1>7, FlightMoves, CapStays DEF IInv, RowsInv
<1> QED
  BY <1>1, <1>5, <1>6, <1>8 DEF IInv, OrderOK, CountersOK

(* A request that held no money ends. *)
LEMMA EndsSafe ==
  ASSUME IInv, NEW w \in Worker, Go(w, Idle), ~ Reserves(job[w]), RowsInv', Grown,
         UNCHANGED <<order, paid, lost>>, CountersOK'
  PROVE  IInv'
<1>1. JobsOK'
  BY IdleKnows, JobGoes DEF IInv, RowsInv
<1>2. ~ Reserves(Idle)
  BY DEF Reserves, Idle
<1>3. CapCoversMoney'
  BY <1>1, <1>2, IdleKnows, FlightMoves, CapStays DEF IInv, RowsInv
<1> QED
  BY <1>1, <1>3 DEF IInv, OrderOK

LEMMA CreateSafe ==
  ASSUME IInv, NEW w \in Worker, CreateReturn(w)
  PROVE  IInv'
<1>1. PICK r \in Return, q \in 1 .. Units : r = job[w].ret /\ q = job[w].qty
  BY DEF IInv, JobsOK, Knows, CreateReturn
<1>2. RowsInv' /\ Grown
  <2>1. CASE q <= Units - AlreadyReturned({}) /\ ret[r].status = "NONE"
    <3>1. /\ ret' = [ret EXCEPT ![r].status = "REQUESTED", ![r].qty = q,
                                ![r].amount = ProportionalLineRefund(q)]
          /\ UNCHANGED <<paid, putBack>>
      BY <1>1, <2>1 DEF CreateReturn
    <3> QED
      BY <2>1, <3>1, RowCreated DEF IInv
  <2>2. CASE ~ (q <= Units - AlreadyReturned({}) /\ ret[r].status = "NONE")
    <3>1. UNCHANGED <<ret, paid, putBack>>
      BY <1>1, <2>2 DEF CreateReturn
    <3> QED
      BY <3>1, RowsStay DEF IInv, RowsInv, RowsOK
  <2> QED
    BY <2>1, <2>2
<1>3. Go(w, Idle) /\ ~ Reserves(job[w]) /\ UNCHANGED <<order, paid, lost, failures, crashes>>
  BY DEF CreateReturn, Reserves, faults
<1> QED
  BY <1>2, <1>3, EndsSafe DEF IInv, CountersOK

LEMMA FinalizeReturnSafe ==
  ASSUME IInv, NEW w \in Worker, FinalizeReturn(w)
  PROVE  IInv'
<1>1. PICK r \in Return :
         /\ r = job[w].ret /\ paid[r] >= ret[r].amount /\ ret[r].restocked
  BY DEF IInv, JobsOK, Knows, FinalizeReturn
<1>2. RowsInv' /\ Grown
  <2>1. CASE ret[r].status = "RECEIVED"
    <3>1. ret \in [Return -> RetRecord] /\ UNCHANGED <<paid, putBack>>
      BY DEF IInv, RowsInv, RowsOK, FinalizeReturn
    <3>2. ret' = [ret EXCEPT ![r].status = "REFUNDED", ![r].refundStatus = "COMPLETED"]
      BY <1>1, <2>1 DEF FinalizeReturn
    <3>3. Moves(r) /\ ret'[r].status = "REFUNDED" /\ ret'[r].refundStatus = "COMPLETED"
      BY <2>1, <3>1, <3>2 DEF Moves, RetRecord, ReturnStatus
    <3> QED
      BY <1>1, <3>1, <3>3, RowMoves DEF IInv
  <2>2. CASE ret[r].status # "RECEIVED"
    <3>1. UNCHANGED <<ret, paid, putBack>>
      BY <1>1, <2>2 DEF FinalizeReturn
    <3> QED
      BY <3>1, RowsStay DEF IInv, RowsInv, RowsOK
  <2> QED
    BY <2>1, <2>2
<1>3. Go(w, Idle) /\ ~ Reserves(job[w]) /\ UNCHANGED <<order, paid, lost, failures, crashes>>
  BY DEF FinalizeReturn, Reserves, faults
<1> QED
  BY <1>2, <1>3, EndsSafe DEF IInv, CountersOK

(* A request dies: what it held in flight is out of the world, never in it twice. *)
LEMMA DieSafe ==
  ASSUME IInv, NEW w \in Worker, Die(w)
  PROVE  IInv'
<1>1. RowsInv' /\ Grown
  BY RowsStay DEF IInv, RowsInv, RowsOK, RetRecord, Die
<1>2. UNCHANGED <<order, paid, lost, failures>> /\ crashes' \in Nat /\ Go(w, Idle)
  BY DEF Die, IInv, CountersOK
<1>3. JobsOK'
  BY <1>1, <1>2, IdleKnows, JobGoes DEF IInv, RowsInv
<1>4. ~ Reserves(Idle)
  BY DEF Reserves, Idle
<1>5. InFlight' <= InFlight /\ InFlight' \in Nat /\ InFlight \in Nat
  <2>1. InFlight \in Nat /\ (Reserves(job[w]) => job[w].new - job[w].old \in Nat)
    <3>1. Reserves(job[w]) => w \in Reserving /\ Held[w] = job[w].new - job[w].old
      BY DEF Reserves, Reserving, Held
    <3> QED
      BY <3>1, FlightType DEF IInv, RowsInv
  <2>2. InFlight' \in Nat
    BY <1>1, <1>3, FlightTypeAfter DEF RowsInv
  <2>3. \/ InFlight' = InFlight
        \/ Reserves(job[w]) /\ InFlight' = InFlight - (job[w].new - job[w].old)
    BY <1>1, <1>2, <1>3, <1>4, IdleKnows, FlightMoves DEF IInv, RowsInv
  <2> QED
    BY <2>1, <2>2, <2>3
<1>6. CapCoversMoney'
  <2>1. PaidTotal' = PaidTotal
    BY <1>2 DEF PaidTotal
  <2>2. PaidTotal \in Nat /\ order.refundedTotal \in Int
    BY PaidType, PriceType DEF IInv, RowsInv, OrderOK
  <2> QED
    BY <1>2, <1>5, <2>1, <2>2 DEF CapCoversMoney, IInv
<1> QED
  BY <1>1, <1>2, <1>3, <1>6 DEF IInv, OrderOK, CountersOK

(* The amount is reserved within the cap, or the refund is refused. *)
LEMMA ReserveSafe ==
  ASSUME IInv, NEW w \in Worker, ReserveRefund(w)
  PROVE  IInv'
<1>0. /\ RowsInv /\ RowsOK /\ JobsOK /\ job[w].pc = "reserve" /\ job[w] \in JobRecord /\ Knows(job[w])
      /\ UNCHANGED <<ret, paid, putBack, lost, failures, crashes>>
  BY DEF IInv, RowsInv, JobsOK, ReserveRefund, faults
<1>1. RowsInv' /\ Grown
  BY <1>0, RowsStay DEF RowsOK
<1>2. PICK r \in Return, old \in 0 .. GrandTotal, amount \in Nat, new \in Nat :
         /\ r = job[w].ret /\ old = order.refundedTotal /\ amount = ret[r].amount
         /\ new = old + amount
  <2>1. job[w].ret \in Return /\ ret[job[w].ret].amount \in Nat /\ order.refundedTotal \in 0 .. GrandTotal
    BY <1>0 DEF Knows, RowsOK, RetRecord, IInv, OrderOK
  <2> QED
    BY <2>1, PriceType
<1>3. ~ Reserves(job[w])
  BY <1>0 DEF Reserves
<1>4. CASE new > GrandTotal
  <2>1. Go(w, Idle) /\ order' = order
    BY <1>2, <1>4 DEF ReserveRefund
  <2> QED
    BY <1>0, <1>1, <1>3, <2>1, EndsSafe DEF IInv, CountersOK
<1>5. CASE ~ (new > GrandTotal)
  <2>1. PICK j : j = [job[w] EXCEPT !.pc = "call", !.old = old, !.new = new] /\ Go(w, j)
    BY <1>2, <1>5 DEF ReserveRefund
  <2>2. order' = [order EXCEPT !.refundedTotal = new] /\ new \in 0 .. GrandTotal
    BY <1>2, <1>5, PriceType DEF ReserveRefund
  <2>3. j \in JobRecord /\ j.pc = "call" /\ j.ret = r /\ j.old = old /\ j.new = new
    BY <1>0, <1>2, <2>1, <2>2 DEF JobRecord
  <2>4. Knows(j)'
    BY <1>0, <1>2, <2>3 DEF Knows, Settling
  <2>5. JobsOK'
    BY <1>0, <1>1, <2>1, <2>3, <2>4, JobGoes DEF RowsInv
  <2>6. OrderOK' /\ order'.refundedTotal = new
    BY <2>2 DEF IInv, OrderOK
  <2>7. Reserves(j)
    BY <2>3 DEF Reserves
  <2>8. InFlight' = InFlight + (j.new - j.old)
    BY <1>0, <1>1, <1>3, <2>1, <2>3, <2>5, <2>7, FlightMoves DEF RowsInv
  <2>9. InFlight' = InFlight + amount /\ InFlight \in Nat
    BY <1>0, <1>2, <2>3, <2>8, FlightType
  <2>10. CapCoversMoney'
    <3>1. PaidTotal' = PaidTotal /\ PaidTotal \in Nat
      BY <1>0, PaidType DEF PaidTotal
    <3> QED
      BY <1>0, <1>2, <2>6, <2>9, <3>1 DEF CapCoversMoney, IInv
  <2> QED
    BY <1>0, <1>1, <2>5, <2>6, <2>10 DEF IInv, CountersOK
<1> QED
  BY <1>4, <1>5

(* Where a request goes on to another step with the same return and amount. *)
LEMMA GoesOn ==
  ASSUME NEW w \in Worker, JobsOK,
         NEW p \in {"compensate", "finalizeOrder", "restock", "finalizeReturn"}, NEW j,
         j = [job[w] EXCEPT !.pc = p]
  PROVE  /\ j \in JobRecord /\ j.pc = p /\ j.ret = job[w].ret
         /\ j.old = job[w].old /\ j.new = job[w].new
BY DEF JobsOK, JobRecord

LEMMA PaysSafe ==
  ASSUME IInv, NEW w \in Worker, RazorpayPays(w)
  PROVE  IInv'
<1>0. /\ RowsInv /\ RowsOK /\ JobsOK /\ job[w].pc = "call" /\ job[w] \in JobRecord /\ Knows(job[w])
      /\ UNCHANGED <<order, ret, putBack, lost, failures, crashes>>
  BY DEF IInv, RowsInv, JobsOK, RazorpayPays, faults
<1>1. PICK r \in Return, amount \in Nat :
         /\ r = job[w].ret /\ amount = ret[r].amount /\ Pay(r)
         /\ job[w].new - job[w].old = amount
         /\ ret[r].status \in {"RECEIVED", "REFUNDED"}
  <2>1. job[w].ret \in Return /\ ret[job[w].ret].amount \in Nat
    BY <1>0 DEF Knows, RowsOK, RetRecord
  <2>2. job[w].new = job[w].old + ret[job[w].ret].amount /\ job[w].old \in Int
        /\ ret[job[w].ret].status \in {"RECEIVED", "REFUNDED"}
    BY <1>0, PriceType DEF Knows, JobRecord, Settling
  <2>3. Pay(job[w].ret)
    BY DEF RazorpayPays
  <2> QED
    BY <2>1, <2>2, <2>3
<1>2. /\ paid' \in [Return -> Nat] /\ \A q \in Return : paid'[q] >= paid[q]
      /\ paid'[r] >= ret[r].amount
      /\ PaidTotal' = PaidTotal + amount
  BY <1>0, <1>1, PayAdds
<1>3. RowsInv' /\ Grown
  BY <1>0, <1>2, RowsStay
<1>4. PICK j : j = [job[w] EXCEPT !.pc = "finalizeOrder"] /\ Go(w, j)
  BY DEF RazorpayPays
<1>5. j \in JobRecord /\ j.pc = "finalizeOrder" /\ j.ret = r
  BY <1>0, <1>1, <1>4, GoesOn
<1>6. Knows(j)'
  BY <1>0, <1>1, <1>2, <1>5 DEF Knows, Settling
<1>7. JobsOK'
  BY <1>0, <1>3, <1>4, <1>5, <1>6, JobGoes DEF RowsInv
<1>8. Reserves(job[w]) /\ ~ Reserves(j)
  BY <1>0, <1>5 DEF Reserves
<1>9. InFlight' = InFlight - amount /\ InFlight \in Nat
  BY <1>0, <1>1, <1>3, <1>4, <1>5, <1>7, <1>8, FlightMoves, FlightType DEF RowsInv
<1>10. CapCoversMoney'
  <2>1. PaidTotal \in Nat
    BY <1>0, PaidType
  <2> QED
    BY <1>0, <1>2, <1>9, <2>1 DEF CapCoversMoney, IInv
<1> QED
  BY <1>0, <1>3, <1>7, <1>10 DEF IInv, OrderOK, CountersOK

LEMMA AnswerLostSafe ==
  ASSUME IInv, NEW w \in Worker, AnswerLost(w)
  PROVE  IInv'
<1>0. /\ RowsInv /\ RowsOK /\ JobsOK /\ job[w].pc = "call" /\ job[w] \in JobRecord /\ Knows(job[w])
      /\ UNCHANGED <<order, ret, putBack, failures, crashes>>
  BY DEF IInv, RowsInv, JobsOK, AnswerLost
<1>1. PICK r \in Return : r = job[w].ret /\ Pay(r)
  BY <1>0 DEF Knows, AnswerLost
<1>2. RowsInv' /\ Grown
  BY <1>0, <1>1, PayAdds, RowsStay
<1>3. PICK j : j = [job[w] EXCEPT !.pc = "compensate"] /\ Go(w, j)
  BY DEF AnswerLost
<1>4. j \in JobRecord /\ j.pc = "compensate" /\ j.ret = r /\ j.old = job[w].old /\ j.new = job[w].new
  BY <1>0, <1>1, <1>3, GoesOn
<1>5. Knows(j)'
  BY <1>0, <1>1, <1>4 DEF Knows, Settling
<1>6. JobsOK'
  BY <1>0, <1>2, <1>3, <1>4, <1>5, JobGoes DEF RowsInv
<1>7. lost' = lost + 1 /\ lost \in Nat
  BY DEF AnswerLost, IInv, CountersOK
<1>8. CapCoversMoney'
  BY <1>7 DEF CapCoversMoney
<1> QED
  BY <1>0, <1>2, <1>6, <1>7, <1>8 DEF IInv, OrderOK, CountersOK

LEMMA RefusesSafe ==
  ASSUME IInv, NEW w \in Worker, RazorpayRefuses(w)
  PROVE  IInv'
<1>0. /\ RowsInv /\ RowsOK /\ JobsOK /\ job[w].pc = "call" /\ job[w] \in JobRecord /\ Knows(job[w])
      /\ UNCHANGED <<order, ret, paid, putBack, lost, crashes>>
  BY DEF IInv, RowsInv, JobsOK, RazorpayRefuses
<1>1. failures' \in Nat
  BY DEF RazorpayRefuses, IInv, CountersOK
<1>2. RowsInv' /\ Grown
  BY <1>0, RowsStay DEF RowsOK
<1>3. PICK j : j = [job[w] EXCEPT !.pc = "compensate"] /\ Go(w, j)
  BY DEF RazorpayRefuses
<1>4. /\ j \in JobRecord /\ j.pc = "compensate" /\ j.ret = job[w].ret
      /\ j.old = job[w].old /\ j.new = job[w].new
  BY <1>0, <1>3, GoesOn
<1>5. Knows(j)'
  <2>1. PICK r \in Return : r = job[w].ret
    BY <1>0 DEF Knows
  <2> QED
    BY <1>0, <1>4, <2>1 DEF Knows, Settling
<1>6. JobsOK'
  BY <1>0, <1>2, <1>3, <1>4, <1>5, JobGoes DEF RowsInv
<1>7. Reserves(job[w]) /\ Reserves(j)
  BY <1>0, <1>4 DEF Reserves
<1>8. CapCoversMoney'
  BY <1>0, <1>2, <1>3, <1>4, <1>6, <1>7, FlightMoves, CapStays DEF IInv, RowsInv
<1> QED
  BY <1>0, <1>1, <1>2, <1>6, <1>8 DEF IInv, OrderOK, CountersOK

LEMMA CompensateSafe ==
  ASSUME IInv, NEW w \in Worker, Compensate(w)
  PROVE  IInv'
<1>0. /\ RowsInv /\ RowsOK /\ JobsOK /\ job[w].pc = "compensate" /\ job[w] \in JobRecord
      /\ Go(w, Idle) /\ UNCHANGED <<ret, paid, putBack, lost, failures, crashes>>
  BY DEF IInv, RowsInv, JobsOK, Compensate, faults
<1>1. RowsInv' /\ Grown
  BY <1>0, RowsStay DEF RowsOK
<1>2. JobsOK'
  BY <1>0, <1>1, IdleKnows, JobGoes DEF RowsInv
<1>3. PICK old \in 0 .. GrandTotal, new \in 0 .. GrandTotal, rt \in 0 .. GrandTotal :
         old = job[w].old /\ new = job[w].new /\ rt = order.refundedTotal
  BY <1>0 DEF JobRecord, IInv, OrderOK
<1>4. PICK after \in 0 .. GrandTotal :
         /\ after = IF rt = new THEN old ELSE rt
         /\ order' = [order EXCEPT !.refundedTotal = after]
  BY <1>3 DEF Compensate
<1>5. OrderOK' /\ order'.refundedTotal = after
  BY <1>4 DEF IInv, OrderOK
<1>6. Reserves(job[w]) /\ ~ Reserves(Idle)
  BY <1>0 DEF Reserves, Idle
<1>7. InFlight' = InFlight - (new - old) /\ InFlight \in Nat /\ new - old \in Nat
  <2>1. w \in Reserving /\ Held[w] = new - old
    BY <1>0, <1>3 DEF Reserving, Held
  <2> QED
    BY <1>0, <1>1, <1>2, <1>3, <1>6, <2>1, IdleKnows, FlightMoves, FlightType DEF RowsInv
<1>8. CapCoversMoney'
  <2>1. PaidTotal' = PaidTotal /\ PaidTotal \in Nat
    BY <1>0, PaidType DEF PaidTotal
  <2>2. lost = 0 => PaidTotal + InFlight <= rt
    BY <1>3 DEF IInv, CapCoversMoney
  <2>3. lost = 0 => PaidTotal + (InFlight - (new - old)) <= after
    BY <1>3, <1>4, <1>7, <2>1, <2>2, PriceType
  <2> QED
    BY <1>0, <1>5, <1>7, <2>1, <2>3 DEF CapCoversMoney
<1> QED
  BY <1>0, <1>1, <1>2, <1>5, <1>8 DEF IInv, CountersOK

LEMMA FinalizeOrderSafe ==
  ASSUME IInv, NEW w \in Worker, FinalizeOrder(w)
  PROVE  IInv'
<1>0. /\ RowsInv /\ RowsOK /\ JobsOK /\ job[w].pc = "finalizeOrder" /\ job[w] \in JobRecord /\ Knows(job[w])
      /\ UNCHANGED <<ret, paid, putBack, lost, failures, crashes>>
  BY DEF IInv, RowsInv, JobsOK, FinalizeOrder, faults
<1>1. RowsInv' /\ Grown
  BY <1>0, RowsStay DEF RowsOK
<1>2. PICK j : j = [job[w] EXCEPT !.pc = "restock"] /\ Go(w, j)
  BY DEF FinalizeOrder
<1>3. j \in JobRecord /\ j.pc = "restock" /\ j.ret = job[w].ret
  BY <1>0, <1>2, GoesOn
<1>4. Knows(j)'
  <2>1. PICK r \in Return : r = job[w].ret
    BY <1>0 DEF Knows
  <2> QED
    BY <1>0, <1>3, <2>1 DEF Knows, Settling
<1>5. JobsOK'
  BY <1>0, <1>1, <1>2, <1>3, <1>4, JobGoes DEF RowsInv
<1>6. OrderOK' /\ order'.refundedTotal = order.refundedTotal
  <2>1. PICK s \in {"REFUNDED", "PARTIALLY_REFUNDED"} : order' = [order EXCEPT !.status = s]
    BY DEF FinalizeOrder
  <2> QED
    BY <2>1 DEF IInv, OrderOK
<1>7. ~ Reserves(job[w]) /\ ~ Reserves(j)
  BY <1>0, <1>3 DEF Reserves
<1>8. InFlight' = InFlight
  BY <1>0, <1>1, <1>2, <1>3, <1>5, <1>7, FlightMoves DEF RowsInv
<1>9. CapCoversMoney'
  BY <1>0, <1>6, <1>8 DEF IInv, CapCoversMoney, PaidTotal
<1> QED
  BY <1>0, <1>1, <1>5, <1>6, <1>9 DEF IInv, CountersOK

LEMMA RestockSafe ==
  ASSUME IInv, NEW w \in Worker, RestockItems(w)
  PROVE  IInv'
<1>0. /\ RowsInv /\ RowsOK /\ JobsOK /\ job[w].pc = "restock" /\ job[w] \in JobRecord /\ Knows(job[w])
      /\ UNCHANGED <<order, paid, lost, failures, crashes>>
  BY DEF IInv, RowsInv, JobsOK, RestockItems, faults
<1>1. PICK r \in Return :
         /\ r = job[w].ret /\ ret[r].status \in {"RECEIVED", "REFUNDED"} /\ paid[r] >= ret[r].amount
  BY <1>0 DEF Knows, Settling
<1>2. /\ ret' = [ret EXCEPT ![r].restocked = TRUE]
      /\ putBack' = IF ret[r].restocked THEN putBack ELSE putBack + ret[r].qty
  BY <1>1 DEF RestockItems
<1>3. RowsInv' /\ Grown /\ ret'[r].restocked
  BY <1>0, <1>1, <1>2, RowRestocked
<1>4. PICK j : j = [job[w] EXCEPT !.pc = "finalizeReturn"] /\ Go(w, j)
  BY DEF RestockItems
<1>5. j \in JobRecord /\ j.pc = "finalizeReturn" /\ j.ret = r
  BY <1>0, <1>1, <1>4, GoesOn
<1>6. Knows(j)'
  <2>1. ret'[r].amount = ret[r].amount /\ ret'[r].status \in {"RECEIVED", "REFUNDED"}
    BY <1>1, <1>3 DEF Grown
  <2> QED
    BY <1>0, <1>1, <1>3, <1>5, <2>1 DEF Knows, Settling
<1>7. JobsOK'
  BY <1>0, <1>3, <1>4, <1>5, <1>6, JobGoes DEF RowsInv
<1>8. ~ Reserves(job[w]) /\ ~ Reserves(j)
  BY <1>0, <1>5 DEF Reserves
<1>9. InFlight' = InFlight
  BY <1>0, <1>3, <1>4, <1>5, <1>7, <1>8, FlightMoves DEF RowsInv
<1>10. CapCoversMoney'
  BY <1>0, <1>9, CapStays DEF IInv
<1> QED
  BY <1>0, <1>3, <1>7, <1>10 DEF IInv, OrderOK, CountersOK

-----------------------------------------------------------------------------
(* The invariant.                                                          *)

LEMMA InitSafe == Init => IInv
<1> SUFFICES ASSUME Init PROVE IInv
  OBVIOUS
<1>1. OrderOK /\ CountersOK
  BY PriceType DEF Init, OrderOK, CountersOK
<1>2. JobsOK
  <2>1. Idle \in JobRecord
    BY IdleKnows
  <2> QED
    BY <2>1 DEF Init, JobsOK, Knows, Idle, Settling
<1>3. RowsOK /\ AmountIsShare /\ RefundedIsSettled
  <2>1. 0 \in 0 .. Units
    BY ReturnRefundAssumption
  <2> QED
    BY <2>1 DEF Init, RowsOK, RetRecord, ReturnStatus, AmountIsShare, RefundedIsSettled
<1>4. PutBackOnce
  <2>1. {r \in Return : ret[r].restocked} = {}
    BY DEF Init
  <2> QED
    BY <2>1, TotalEmpty DEF Init, PutBackOnce
<1>5. NeverOverReturned
  <2>1. Counted = {}
    BY DEF Init, Counted
  <2> QED
    BY <2>1, ClaimedIsTotal, TotalEmpty, ReturnRefundAssumption DEF NeverOverReturned
<1>6. CapCoversMoney
  <2>1. Reserving = {}
    BY DEF Init, Reserving, Idle
  <2>2. InFlight = 0
    BY <2>1, TotalEmpty DEF InFlight
  <2>3. PaidTotal = 0
    <3> DEFINE zero == [r \in Return |-> 0]
    <3>1. PaidTotal = Total(Return, zero)
      BY DEF Init, PaidTotal
    <3>2. AllUnits(Return, zero) = {}
      BY DEF AllUnits, UnitsOf
    <3> QED
      BY <3>1, <3>2, TotalCounts, FS_EmptySet
  <2> QED
    BY <2>2, <2>3 DEF Init, CapCoversMoney
<1> QED
  BY <1>1, <1>2, <1>3, <1>4, <1>5, <1>6 DEF IInv, RowsInv

LEMMA StutterSafe ==
  ASSUME IInv, UNCHANGED vars
  PROVE  IInv'
<1>1. UNCHANGED <<order, ret, paid, putBack, job, failures, lost, crashes>>
  BY DEF vars
<1>2. RowsInv' /\ Grown
  BY <1>1, RowsStay DEF IInv, RowsInv, RowsOK, RetRecord
<1>3. JobsOK' /\ CapCoversMoney'
  BY <1>1, <1>2, JobsSame, FlightStays, CapStays DEF IInv, RowsInv
<1> QED
  BY <1>1, <1>2, <1>3 DEF IInv, OrderOK, CountersOK

LEMMA NextSafe == IInv /\ [Next]_vars => IInv'
<1> SUFFICES ASSUME IInv, [Next]_vars PROVE IInv'
  OBVIOUS
<1>1. ASSUME NEW r \in Return, RejectReturn(r) \/ ApproveReturn(r) \/ MarkReturnInTransit(r)
      PROVE  IInv'
  BY <1>1, RejectSafe, ApproveSafe, InTransitSafe
<1>2. ASSUME NEW w \in Worker, NEW r \in Return, ClaimReturn(w, r)
      PROVE  IInv'
  BY <1>2, ClaimSafe
<1>3. ASSUME NEW w \in Worker, NEW r \in Return, NEW q \in 1 .. Units, RequestReturn(w, r, q)
      PROVE  IInv'
  BY <1>3, RequestSafe
<1>4. ASSUME NEW w \in Worker, Settle(w)
      PROVE  IInv'
  BY <1>4, CreateSafe, ReserveSafe, PaysSafe, CompensateSafe, FinalizeOrderSafe, RestockSafe,
     FinalizeReturnSafe DEF Settle
<1>5. ASSUME NEW w \in Worker, RazorpayRefuses(w) \/ AnswerLost(w) \/ Die(w)
      PROVE  IInv'
  BY <1>5, RefusesSafe, AnswerLostSafe, DieSafe
<1>6. CASE UNCHANGED vars
  BY <1>6, StutterSafe
<1> QED
  BY <1>1, <1>2, <1>3, <1>4, <1>5, <1>6 DEF Next

(* The invariant of the whole protocol, from which everything below follows. *)
THEOREM Invariant == Spec => []IInv
BY InitSafe, NextSafe, PTL DEF Spec

(* Rows and requests only ever hold values they can have, and refundedTotal stays *)
(* within what the order cost.                                                    *)
THEOREM TypeCorrect == Spec => []TypeOK
<1>1. IInv => TypeOK
  BY PutBackBounded DEF IInv, OrderOK, RowsInv, RowsOK, RetRecord, JobsOK, JobRecord, TypeOK
<1> QED
  BY <1>1, Invariant, PTL

(* As long as no answer of Razorpay is lost, refundedTotal covers what went out and *)
(* what is still in flight, however many refunds run, fail, are retried or die.     *)
THEOREM CapCovered == Spec => []CapCoversMoney
<1>1. IInv => CapCoversMoney
  BY DEF IInv
<1> QED
  BY <1>1, Invariant, PTL

(* The `restocked` compare-and-set: however many receipts of one return run, its *)
(* units are put back on stock once, and only after they were received.          *)
THEOREM UnitsBackOnce == Spec => []PutBackOnce
<1>1. IInv => PutBackOnce
  BY DEF IInv, RowsInv
<1> QED
  BY <1>1, Invariant, PTL

(* The tally under return_request_<orderId>: live returns together never claim more *)
(* units than the line had.                                                         *)
THEOREM ClaimsWithinLine == Spec => []NeverOverReturned
<1>1. IInv => NeverOverReturned
  BY DEF IInv, RowsInv
<1> QED
  BY <1>1, Invariant, PTL

(* receiveReturn settles before it finalises: REFUNDED means paid in full and back *)
(* on stock, whoever finalised.                                                    *)
THEOREM RefundedSettled == Spec => []RefundedIsSettled
<1>1. IInv => RefundedIsSettled
  BY DEF IInv, RowsInv
<1> QED
  BY <1>1, Invariant, PTL

LEMMA RoundingAdds ==
  ASSUME IInv
  PROVE  RoundingBounded
<1> DEFINE f == [r \in Return |-> ret[r].amount]
           g == Qty
           C == Counted
           k == Cardinality(Part)
           n == Cardinality(Counted)
<1>1. IsFiniteSet(C) /\ k \in Nat /\ n \in Nat /\ Units \in Nat /\ LineTotal \in Nat
  BY CountedFinite, FS_CardinalityType, ReturnRefundAssumption, PriceType
<1>2. ASSUME NEW r \in C
      PROVE  /\ f[r] \in Nat /\ g[r] \in Nat
             /\ 2 * Units * f[r] <= 2 * g[r] * LineTotal + Units * k
             /\ 2 * g[r] * LineTotal <= 2 * Units * f[r] + Units * k
  <2>1. PICK q \in 1 .. Units : q = ret[r].qty /\ f[r] = ProportionalLineRefund(q)
    BY CountedFinite DEF IInv, RowsInv, AmountIsShare, Counted
  <2>2. g[r] = q
    BY <2>1, CountedFinite, QtyType DEF IInv, RowsInv
  <2> HIDE DEF f, g, C
  <2> QED
    BY <1>1, <2>1, <2>2, ShareRounds
<1>3. /\ RoundingBounded <=>
            LET excess == Units * Total(C, f) - Total(C, g) * LineTotal
                allowed == Units * k * n
            IN -allowed <= 2 * excess /\ 2 * excess <= allowed
      /\ n = Cardinality(C)
  BY ClaimedIsTotal DEF RoundingBounded
<1> HIDE DEF f, g, C, k, n
<1>4. PICK a \in Int, b \in Int, c \in Int : a = 2 * Units /\ b = 2 * LineTotal /\ c = Units * k
  BY <1>1
<1>5. \A r \in C : f[r] \in Nat /\ g[r] \in Nat
  BY <1>2
<1>6. \A r \in C : a * f[r] <= b * g[r] + c
  <2> SUFFICES ASSUME NEW r \in C PROVE a * f[r] <= b * g[r] + c
    OBVIOUS
  <2>1. b * g[r] = 2 * g[r] * LineTotal
    BY <1>1, <1>2, <1>4
  <2> QED
    BY <1>1, <1>2, <1>4, <2>1
<1>7. \A r \in C : b * g[r] <= a * f[r] + c
  <2> SUFFICES ASSUME NEW r \in C PROVE b * g[r] <= a * f[r] + c
    OBVIOUS
  <2>1. b * g[r] = 2 * g[r] * LineTotal
    BY <1>1, <1>2, <1>4
  <2> QED
    BY <1>1, <1>2, <1>4, <2>1
<1>8. a * Total(C, f) <= b * Total(C, g) + c * Cardinality(C)
  BY ONLY <1>1, <1>5, <1>6, a \in Int, b \in Int, c \in Int, TotalCompare
<1>9. b * Total(C, g) <= a * Total(C, f) + c * Cardinality(C)
  BY ONLY <1>1, <1>5, <1>7, a \in Int, b \in Int, c \in Int, TotalCompare
<1>10. PICK A \in Nat, Q \in Nat : A = Total(C, f) /\ Q = Total(C, g)
  BY <1>1, <1>5, TotalType
<1>11. a * A <= b * Q + c * n /\ b * Q <= a * A + c * n
  BY <1>3, <1>8, <1>9, <1>10
<1>12. PICK x \in Int, y \in Int, z \in Int : x = Units * A /\ y = Q * LineTotal /\ z = Units * k * n
  BY <1>1, <1>10
<1>13. a * A = 2 * x /\ b * Q = 2 * y /\ c * n = z
  BY <1>1, <1>4, <1>10, <1>12
<1>14. -z <= 2 * (x - y) /\ 2 * (x - y) <= z
  BY <1>11, <1>12, <1>13
<1> QED
  BY <1>3, <1>10, <1>12, <1>14

(* What all returns of a line are worth differs from their share of the line by at *)
(* most half a paisa per component and return, for every price and quantity.       *)
THEOREM RoundingWithinHalf == Spec => []RoundingBounded
BY RoundingAdds, Invariant, PTL

(* "REQUESTED -> APPROVED -> IN_TRANSIT -> RECEIVED -> REFUNDED": no step leaves it. *)
THEOREM LifecycleKept == Spec => ReturnLifecycle
<1> DEFINE A == \A r \in Return : \/ ret'[r].status = ret[r].status
                                  \/ ret'[r].status \in Follows[ret[r].status]
<1>1. ASSUME IInv, Next PROVE A
  <2>0. ret \in [Return -> RetRecord]
    BY <1>1 DEF IInv, RowsInv, RowsOK
  <2>1. ASSUME NEW r \in Return, RejectReturn(r) \/ ApproveReturn(r) \/ MarkReturnInTransit(r)
        PROVE  A
    BY <2>0, <2>1 DEF RejectReturn, ApproveReturn, MarkReturnInTransit, RetRecord, Follows, ReturnStatus
  <2>2. ASSUME NEW w \in Worker, NEW r \in Return, ClaimReturn(w, r)
        PROVE  A
    BY <2>0, <2>2 DEF ClaimReturn, RetRecord, Follows, ReturnStatus
  <2>3. ASSUME NEW w \in Worker, CreateReturn(w)
        PROVE  A
    <3>1. PICK r \in Return : r = job[w].ret
      BY <1>1, <2>3 DEF CreateReturn, IInv, JobsOK, Knows
    <3> QED
      BY <2>0, <2>3, <3>1 DEF CreateReturn, RetRecord, Follows, ReturnStatus
  <2>4. ASSUME NEW w \in Worker, FinalizeReturn(w)
        PROVE  A
    <3>1. PICK r \in Return : r = job[w].ret
      BY <1>1, <2>4 DEF FinalizeReturn, IInv, JobsOK, Knows
    <3> QED
      BY <2>0, <2>4, <3>1 DEF FinalizeReturn, RetRecord, Follows, ReturnStatus
  <2>5. ASSUME NEW w \in Worker, RestockItems(w)
        PROVE  A
    <3>1. PICK r \in Return : r = job[w].ret
      BY <1>1, <2>5 DEF RestockItems, IInv, JobsOK, Knows
    <3>2. ret' = [ret EXCEPT ![r].restocked = TRUE]
      BY <2>5, <3>1 DEF RestockItems
    <3> QED
      BY <2>0, <3>2 DEF RetRecord
  <2>6. ASSUME UNCHANGED ret PROVE A
    BY <2>6
  <2>7. ASSUME NEW w \in Worker, Settle(w)
        PROVE  A
    BY <2>3, <2>4, <2>5, <2>6, <2>7
       DEF Settle, ReserveRefund, RazorpayPays, Compensate, FinalizeOrder
  <2>8. ASSUME NEW w \in Worker, RazorpayRefuses(w) \/ AnswerLost(w) \/ Die(w)
        PROVE  A
    BY <2>6, <2>8 DEF RazorpayRefuses, AnswerLost, Die
  <2>9. ASSUME NEW w \in Worker, NEW r \in Return, NEW q \in 1 .. Units, RequestReturn(w, r, q)
        PROVE  A
    BY <2>6, <2>9 DEF RequestReturn
  <2> HIDE DEF A
  <2> QED
    BY <1>1, <2>1, <2>2, <2>7, <2>8, <2>9 DEF Next
<1>2. IInv /\ [Next]_vars => [A]_vars
  BY <1>1
<1> QED
  BY <1>2, Invariant, PTL DEF Spec, ReturnLifecycle

-----------------------------------------------------------------------------
(* CapTable.  Sums of stakes.                                              *)

LEMMA SumIsTotal ==
  ASSUME NEW S, IsFiniteSet(S), NEW f, \A h \in S : f[h] \in Nat
  PROVE  SumOf(f, S) = Total(S, f) /\ SumOf(f, S) \in Nat
<1>1. SumOf(f, S) = Total(S, f)
  BY DEF SumOf, Total
<1> QED
  BY <1>1, TotalType

LEMMA HoldersFinite == IsFiniteSet(Founder) /\ IsFiniteSet(Holder) /\ Whole \in Nat
<1>1. IsFiniteSet(Founder \cup {Platform})
  BY CapTableAssumption, FS_AddElement
<1> QED
  BY <1>1, CapTableAssumption DEF Holder, Whole

(* The whole is the platform's stake and the founders'. *)
LEMMA SumOfHolders ==
  ASSUME NEW f, \A h \in Holder : f[h] \in Nat
  PROVE  SumOf(f, Holder) = SumOf(f, Founder) + f[Platform] /\ SumOf(f, Founder) \in Nat
<1>1. Platform \notin Founder /\ Holder = Founder \cup {Platform} /\ Founder \subseteq Holder
  BY CapTableAssumption DEF Holder
<1>2. Total(Founder \cup {Platform}, f) = Total(Founder, f) + f[Platform]
  BY <1>1, HoldersFinite, TotalAdd
<1>3. SumOf(f, Holder) = Total(Holder, f)
  BY HoldersFinite, SumIsTotal
<1>4. SumOf(f, Founder) = Total(Founder, f) /\ SumOf(f, Founder) \in Nat
  BY <1>1, HoldersFinite, SumIsTotal
<1> QED
  BY <1>1, <1>2, <1>3, <1>4

(* A division with its remainder. *)
LEMMA Division ==
  ASSUME NEW n \in Nat, NEW d \in Nat \ {0}
  PROVE  /\ n \div d \in Nat /\ n % d \in 0 .. d - 1
         /\ n = d * (n \div d) + (n % d)
OBVIOUS

(* A split gives everybody a share of the total, and all of it. *)
LEMMA SplitAddsUp ==
  ASSUME NEW S, IsFiniteSet(S), S # {}, NEW total \in Nat, NEW s \in Splits(total, S)
  PROVE  s \in [S -> Nat] /\ SumOf(s, S) = total
<1> DEFINE d == Cardinality(S)
           k == total \div d
<1>1. PICK e \in kSubset(total % d, S) : s = Split(total, S, e)
  BY DEF Splits, d
<1>2. d \in Nat \ {0}
  BY FS_CardinalityType, FS_EmptySet
<1> HIDE DEF d
<1>3. k \in Nat /\ total % d \in Nat /\ total = d * k + (total % d)
  BY <1>2, Division
<1>4. e \subseteq S /\ Cardinality(e) = total % d
  BY <1>1 DEF kSubset, d
<1>5. \A h \in S : s[h] = IF h \in e THEN k + 1 ELSE k
  BY <1>1, <1>3 DEF Split, d
<1>6. s \in [S -> Nat]
  BY <1>1, <1>3, <1>5 DEF Split, d
<1> HIDE DEF k
<1>7. IsFiniteSet(e) /\ IsFiniteSet(S \ e) /\ e \cap (S \ e) = {} /\ e \cup (S \ e) = S
  BY <1>4, FS_Subset, FS_Difference
<1>8. Total(e \cup (S \ e), s) = Total(e, s) + Total(S \ e, s)
  BY <1>5, <1>3, <1>7, TotalUnion
<1>9. Total(e, s) = (k + 1) * Cardinality(e)
  <2>1. \A h \in e : s[h] = k + 1
    BY <1>4, <1>5
  <2>2. k + 1 \in Nat
    BY <1>3
  <2> QED
    BY <1>7, <2>1, <2>2, TotalConstant
<1>10. Total(S \ e, s) = k * Cardinality(S \ e)
  BY <1>3, <1>5, <1>7, TotalConstant
<1>11. Cardinality(e) \in Nat /\ Cardinality(S \ e) \in Nat /\ d = Cardinality(e) + Cardinality(S \ e)
  BY <1>7, DisjointUnion DEF d
<1>12. ASSUME NEW r \in Nat, NEW n \in Nat
       PROVE  (k + 1) * r + k * n = (r + n) * k + r
  BY <1>3
<1>13. Total(S, s) = d * k + Cardinality(e)
  BY <1>3, <1>7, <1>8, <1>9, <1>10, <1>11, <1>12
<1>14. Total(S, s) = total
  BY <1>3, <1>4, <1>13
<1> QED
  BY <1>6, <1>14, SumIsTotal

-----------------------------------------------------------------------------
(* Dilution: what each holder gives.                                       *)

(* Rounding up only what has a remainder gives less than a unit more or less than *)
(* the share, and so never more than there is.                                     *)
LEMMA NearShare ==
  ASSUME NEW n \in Nat, NEW t \in Nat \ {0}, n <= t, NEW u \in Nat,
         NEW q \in Nat, NEW m \in 0 .. t - 1, n * u = t * q + m,
         NEW r \in {q, q + 1}, r = q + 1 => m > 0
  PROVE  r * t - n * u \in (1 - t) .. (t - 1) /\ r <= u
<1>1. t * q \in Nat /\ n * u \in Nat /\ m \in Int
  OBVIOUS
<1>2. r * t - n * u \in (1 - t) .. (t - 1)
  <2>1. CASE r = q
    <3>1. q * t = t * q
      OBVIOUS
    <3> QED
      BY <1>1, <2>1, <3>1
  <2>2. CASE r = q + 1
    <3>1. (q + 1) * t = t * q + t
      OBVIOUS
    <3> QED
      BY <1>1, <2>2, <3>1
  <2> QED
    BY <2>1, <2>2
<1>3. r <= u
  <2> SUFFICES ASSUME r >= u + 1 PROVE FALSE
    OBVIOUS
  <2>1. r * t >= (u + 1) * t
    BY r \in Nat
  <2>2. (u + 1) * t = u * t + t /\ u * t \in Nat
    OBVIOUS
  <2>3. n * u <= t * u
    OBVIOUS
  <2>4. t * u = u * t /\ r * t \in Int
    OBVIOUS
  <2> QED
    BY <1>1, <1>2, <2>1, <2>2, <2>3, <2>4
<1> QED
  BY <1>2, <1>3

LEMMA TooManyRoundedUp ==
  ASSUME NEW n \in Nat, NEW t \in Nat \ {0}, NEW k \in Nat \ {0}, NEW f \in Nat, f = n - k,
         n * t <= t * f + (t - 1) * (k - 1)
  PROVE  FALSE
<1>1. n = f + k
  OBVIOUS
<1>2. (f + k) * t = t * f + t * k /\ t * f \in Nat /\ t * k \in Nat
  OBVIOUS
<1>3. (t - 1) * (k - 1) = t * k - t - k + 1
  OBVIOUS
<1> QED
  BY <1>1, <1>2, <1>3

LEMMA ReductionsAreFair ==
  ASSUME NEW S, IsFiniteSet(S), \A h \in S : units[h] \in Nat,
         NEW n \in Nat \ {0}, n <= SumOf(units, S), NEW r \in Reductions(S, n), NEW h \in S
  PROVE  /\ r[h] \in 0 .. units[h]
         /\ r[h] * SumOf(units, S) - n * units[h] \in (1 - SumOf(units, S)) .. (SumOf(units, S) - 1)
<1> DEFINE t == SumOf(units, S)
           q == [g \in S |-> (n * units[g]) \div t]
           m(g) == (n * units[g]) % t
<1>1. t \in Nat \ {0} /\ t = Total(S, units)
  BY SumIsTotal
<1>2. PICK e \in kSubset(n - SumOf(q, S), S) :
        /\ \A g \in e, x \in S \ e : m(g) >= m(x)
        /\ r = [g \in S |-> q[g] + (IF g \in e THEN 1 ELSE 0)]
  BY DEF Reductions
<1>3. e \subseteq S /\ Cardinality(e) = n - SumOf(q, S)
  BY <1>2 DEF kSubset
<1> HIDE DEF t
<1>4. \A g \in S : q[g] \in Nat /\ m(g) \in 0 .. t - 1 /\ n * units[g] = t * q[g] + m(g)
  <2> SUFFICES ASSUME NEW g \in S
               PROVE  q[g] \in Nat /\ m(g) \in 0 .. t - 1 /\ n * units[g] = t * q[g] + m(g)
    OBVIOUS
  <2>1. n * units[g] \in Nat
    OBVIOUS
  <2> QED
    BY <1>1, <2>1, Division
<1>5. r[h] = q[h] + (IF h \in e THEN 1 ELSE 0)
  BY <1>2
<1>6. \A g \in e, x \in S \ e : m(g) >= m(x)
  BY <1>2
<1> HIDE DEF q, m
<1>7. SumOf(q, S) = Total(S, q) /\ SumOf(q, S) \in Nat
  BY <1>4, SumIsTotal
<1>8. IsFiniteSet(e) /\ Cardinality(e) \in Nat
  BY <1>3, FS_Subset, FS_CardinalityType
<1>9. ASSUME NEW g \in e PROVE m(g) > 0
  <2> SUFFICES ASSUME m(g) = 0 PROVE FALSE
    BY <1>3, <1>4
  <2> DEFINE A == e \ {g}
             R == S \ A
  <2>1. /\ IsFiniteSet(A) /\ IsFiniteSet(R) /\ A \cap R = {} /\ A \cup R = S
        /\ A \subseteq S /\ R \subseteq S
    BY <1>3, FS_Subset, FS_Difference
  <2>2. Cardinality(A) = Cardinality(e) - 1 /\ Cardinality(R) \in Nat
    BY <1>8, <2>1, FS_RemoveElement, FS_CardinalityType
  <2>3. \A x \in R : m(x) = 0
    <3>1. \A x \in S \ e : m(x) = 0
      BY <1>3, <1>4, <1>6
    <3> QED
      BY <3>1
  <2> HIDE DEF A, R
  <2>4. n * Total(R, units) <= t * Total(R, q) + 0 * Cardinality(R)
    <3>1. \A x \in R : n * units[x] <= t * q[x] + 0
      BY <1>1, <1>4, <2>1, <2>3
    <3>2. \A x \in R : units[x] \in Nat /\ q[x] \in Nat
      BY <1>4, <2>1
    <3>3. n \in Int /\ t \in Int /\ 0 \in Int
      BY <1>1
    <3> QED
      BY ONLY <2>1, <3>1, <3>2, <3>3, TotalCompare
  <2>5. n * Total(A, units) <= t * Total(A, q) + (t - 1) * Cardinality(A)
    <3>1. \A x \in A : n * units[x] <= t * q[x] + (t - 1)
      <4> SUFFICES ASSUME NEW x \in A PROVE n * units[x] <= t * q[x] + (t - 1)
        OBVIOUS
      <4>1. m(x) \in 0 .. t - 1 /\ n * units[x] = t * q[x] + m(x) /\ t * q[x] \in Nat
        BY <1>1, <1>4, <2>1
      <4> QED
        BY <1>1, <4>1
    <3>2. \A x \in A : units[x] \in Nat /\ q[x] \in Nat
      BY <1>4, <2>1
    <3>3. n \in Int /\ t \in Int /\ t - 1 \in Int
      BY <1>1
    <3> QED
      BY ONLY <2>1, <3>1, <3>2, <3>3, TotalCompare
  <2>6. /\ Total(S, units) = Total(A, units) + Total(R, units)
        /\ Total(S, q) = Total(A, q) + Total(R, q)
    <3>1. \A x \in A \cup R : units[x] \in Nat /\ q[x] \in Nat
      BY <1>4, <2>1
    <3>2. /\ Total(A \cup R, units) = Total(A, units) + Total(R, units)
          /\ Total(A \cup R, q) = Total(A, q) + Total(R, q)
      BY ONLY <2>1, <3>1, TotalUnion
    <3> QED
      BY <2>1, <3>2
  <2>7. PICK ua \in Nat, ur \in Nat, qa \in Nat, qr \in Nat :
          ua = Total(A, units) /\ ur = Total(R, units) /\ qa = Total(A, q) /\ qr = Total(R, q)
    BY <1>4, <2>1, TotalType
  <2>8. n * (ua + ur) = n * ua + n * ur /\ t * (qa + qr) = t * qa + t * qr
    BY <1>1, Distributes
  <2>9. /\ n * ua \in Int /\ n * ur \in Int /\ t * qa \in Int /\ t * qr \in Int
    BY <1>1
  <2>10. PICK k \in Nat \ {0} : k = Cardinality(e)
    BY <1>8, FS_EmptySet
  <2>11. (t - 1) * (k - 1) \in Int
    BY <1>1
  <2>12. n * t <= t * (qa + qr) + (t - 1) * (k - 1)
    <3>1. t = ua + ur
      BY <1>1, <2>6, <2>7
    <3>2. n * ur <= t * qr
      <4>1. 0 * Cardinality(R) = 0
        BY <2>2
      <4> QED
        BY <2>4, <2>7, <2>9, <4>1
    <3>3. n * ua <= t * qa + (t - 1) * (k - 1)
      BY <2>2, <2>5, <2>7, <2>10
    <3>4. n * t = n * ua + n * ur
      BY <2>8, <3>1
    <3> QED
      BY <2>8, <2>9, <2>11, <3>2, <3>3, <3>4
  <2>13. qa + qr = n - k /\ qa + qr \in Nat
    <3>1. SumOf(q, S) = qa + qr
      BY <1>7, <2>6, <2>7
    <3>2. k = n - SumOf(q, S)
      BY <1>3, <2>10
    <3> QED
      BY <3>1, <3>2
  <2> QED
    BY <1>1, <2>12, <2>13, TooManyRoundedUp
<1>10. r[h] \in {q[h], q[h] + 1} /\ (r[h] = q[h] + 1 => m(h) > 0)
  BY <1>4, <1>5, <1>9
<1>11. r[h] * t - n * units[h] \in (1 - t) .. (t - 1) /\ r[h] <= units[h]
  <2>1. n <= t
    BY DEF t
  <2> QED
    BY <1>1, <1>4, <1>10, <2>1, NearShare
<1> QED
  BY <1>4, <1>10, <1>11 DEF t

-----------------------------------------------------------------------------
(* The table an event leaves.                                              *)

(* The rows that change, written over the others, are the table that was computed. *)
LEMMA ChangedRowsSuffice ==
  ASSUME NEW u \in [Holder -> Nat],
         NEW f, f = [h \in {g \in Holder : u[g] # units[g]} |-> u[h]]
  PROVE  Written(f, units) = u
<1>1. \A h \in Holder : (IF h \in DOMAIN f THEN f[h] ELSE units[h]) = u[h]
  OBVIOUS
<1> QED
  BY <1>1 DEF Written

LEMMA ActiveFinite == IsFiniteSet(Active) /\ Active \subseteq Holder
BY HoldersFinite, FS_Subset DEF Active

(* No event leaves anybody a negative stake. *)
LEMMA OutcomeType ==
  ASSUME units \in [Holder -> Nat], NEW e \in Event, e.kind # "DILUTE" => e.from # e.to,
         NEW u \in Outcome(e)
  PROVE  u \in [Holder -> Nat] /\ (e.kind = "VEST" => u = units)
<1>1. CASE e.kind = "TRANSFER"
  <2>1. u \in Transferred(e) /\ e.from \in Holder /\ e.to \in Holder /\ e.n \in Nat
    BY <1>1, CapTableAssumption DEF Outcome, Event
  <2>2. units[e.from] >= e.n /\ u = [units EXCEPT ![e.from] = @ - e.n, ![e.to] = @ + e.n]
    BY <2>1 DEF Transferred
  <2>3. \A h \in Holder : u[h] = IF h = e.to THEN units[h] + e.n
                                 ELSE IF h = e.from THEN units[h] - e.n ELSE units[h]
    BY <1>1, <2>1, <2>2
  <2>4. \A h \in Holder : u[h] \in Nat
    BY <2>1, <2>2, <2>3
  <2> QED
    BY <1>1, <2>2, <2>4
<1>2. CASE e.kind = "BUYOUT"
  <2> DEFINE rest == Active \ {e.from}
  <2>1. u \in BoughtOut(e) /\ e.from \in Holder /\ e.to \in Holder \cup {NoOne}
    BY <1>2 DEF Outcome, Event
  <2>2. CASE e.to # NoOne
    <3>1. u = [units EXCEPT ![e.from] = 0, ![e.to] = @ + units[e.from]]
      BY <2>1, <2>2 DEF BoughtOut
    <3>2. \A h \in Holder : u[h] = IF h = e.to THEN units[h] + units[e.from]
                                   ELSE IF h = e.from THEN 0 ELSE units[h]
      BY <1>2, <2>1, <2>2, <3>1
    <3>3. \A h \in Holder : u[h] \in Nat
      BY <2>1, <3>2
    <3> QED
      BY <1>2, <3>1, <3>3
  <2>3. CASE e.to = NoOne
    <3>1. /\ rest # {}
          /\ \E s \in Splits(units[e.from], rest) :
                u = [h \in Holder |-> IF h \in rest THEN units[h] + s[h] ELSE 0]
      BY <2>1, <2>3 DEF BoughtOut
    <3>2. PICK s \in Splits(units[e.from], rest) :
            u = [h \in Holder |-> IF h \in rest THEN units[h] + s[h] ELSE 0]
      BY <3>1
    <3>3. IsFiniteSet(rest)
      BY ActiveFinite, FS_Subset
    <3>4. s \in [rest -> Nat]
      BY <2>1, <3>1, <3>3, SplitAddsUp
    <3> QED
      BY <1>2, <3>2, <3>4
  <2> QED
    BY <2>2, <2>3
<1>3. CASE e.kind = "DILUTE"
  <2> DEFINE rest == Active \ {e.to}
  <2>1. u \in Diluted(e) /\ e.to \in Holder /\ e.n \in Nat
    BY <1>3, CapTableAssumption DEF Outcome, Event
  <2>2. e.n > 0 /\ SumOf(units, rest) >= e.n
    BY <2>1 DEF Diluted
  <2>3. PICK r \in Reductions(rest, e.n) :
          u = [h \in Holder |-> IF h = e.to THEN units[h] + e.n
                                ELSE IF h \in rest THEN units[h] - r[h] ELSE 0]
    BY <2>1 DEF Diluted
  <2>4. IsFiniteSet(rest) /\ \A h \in rest : units[h] \in Nat
    BY ActiveFinite, FS_Subset
  <2>5. SumOf(units, rest) \in Nat
    BY <2>4, SumIsTotal
  <2>6. \A h \in rest : r[h] \in 0 .. units[h]
    BY <2>1, <2>2, <2>4, <2>5, ReductionsAreFair
  <2>7. \A h \in Holder : (IF h = e.to THEN units[h] + e.n
                           ELSE IF h \in rest THEN units[h] - r[h] ELSE 0) \in Nat
    BY <2>1, <2>4, <2>6
  <2> QED
    BY <1>3, <2>3, <2>7
<1>4. CASE e.kind = "VEST"
  BY <1>4 DEF Outcome
<1> QED
  BY <1>1, <1>2, <1>3, <1>4 DEF Event

-----------------------------------------------------------------------------
(* The invariant.                                                          *)

CompanyOK ==
    /\ company \in [status : {"FORMATION", "ACTIVE", "HANDED_OVER"} \cup AdminStatus,
                    platform : Int, founders : Int, start : Int]
    /\ day \in Nat

(* Who has computed what to write holds equity_<company>, and what he writes leaves a *)
(* whole table and its sums; nothing else that waits to be written moves equity.      *)
Planned(w) ==
    LET t == task[w]
        u == Written(t.units, units)
    IN
    /\ t.pc = "event" => t.e \in Event /\ t.e.kind = "VEST"
    /\ t.pc = "override" => t.row.kind = "VEST"
    /\ t.pc \in {"write", "flip"} => lock = w /\ u \in [Holder -> Nat]
    /\ t.pc = "write" =>
        /\ SumOf(u, Holder) = Whole
        /\ IF t.row.kind = "VEST" THEN u = units
           ELSE /\ t.row.kind \in Shifts
                /\ t.row.platform = u[Platform] /\ t.row.founders = SumOf(u, Founder)
    /\ t.pc = "flip" => u[Platform] = 0

TasksPlanned == DOMAIN task = Session /\ \A w \in Session : Planned(w)

EquityInv == CompanyOK /\ TasksPlanned /\ TableSums /\ AuditExplainsTable

LEMMA EquityInitInv == EquityInit => EquityInv
<1> SUFFICES ASSUME EquityInit PROVE EquityInv
  OBVIOUS
<1>1. PICK shares \in Splits(FounderUnits, Founder) :
        units = [h \in Holder |-> IF h = Platform THEN PlatformUnits ELSE shares[h]]
  BY DEF EquityInit
<1>2. shares \in [Founder -> Nat] /\ SumOf(shares, Founder) = FounderUnits
  BY CapTableAssumption, SplitAddsUp
<1>3. /\ Platform \notin Founder /\ Holder = Founder \cup {Platform}
      /\ PlatformUnits \in Nat /\ FounderUnits \in Nat
  BY CapTableAssumption DEF Holder
<1>4. units \in [Holder -> Nat] /\ units[Platform] = PlatformUnits
  BY <1>1, <1>2, <1>3
<1>5. \A h \in Founder : units[h] = shares[h] /\ units[h] \in Nat
  BY <1>1, <1>2, <1>3
<1>6. SumOf(units, Founder) = FounderUnits
  <2>1. Total(Founder, units) = Total(Founder, shares)
    BY <1>5, TotalSame
  <2>2. SumOf(units, Founder) = Total(Founder, units)
    BY <1>5, HoldersFinite, SumIsTotal
  <2>3. SumOf(shares, Founder) = Total(Founder, shares)
    BY <1>2, HoldersFinite, SumIsTotal
  <2> QED
    BY <1>2, <2>1, <2>2, <2>3
<1>7. SumOf(units, Holder) = Whole
  <2>1. SumOf(units, Holder) = SumOf(units, Founder) + units[Platform]
    BY <1>4, SumOfHolders
  <2> QED
    BY <1>3, <1>4, <1>6, <2>1 DEF Whole
<1>8. company = [status |-> "FORMATION", platform |-> PlatformUnits,
                 founders |-> FounderUnits, start |-> -1]
  BY DEF EquityInit
<1>9. events.moved = [kind |-> "GRANT", platform |-> PlatformUnits, founders |-> FounderUnits]
  BY DEF EquityInit, Row
<1>10. CompanyOK
  BY <1>3, <1>8 DEF CompanyOK, EquityInit
<1>11. TasksPlanned
  BY DEF EquityInit, TasksPlanned, Planned, NoTask
<1>12. AuditExplainsTable
  BY <1>4, <1>6, <1>8, <1>9 DEF AuditExplainsTable
<1> QED
  BY <1>4, <1>7, <1>10, <1>11, <1>12 DEF EquityInv, TableSums

(* A step that writes neither the table nor its sums, and plans nothing. *)
Plain(t) ==
    /\ t.pc \notin {"write", "flip"}
    /\ t.pc = "event" => t.e \in Event /\ t.e.kind = "VEST"
    /\ t.pc = "override" => t.row.kind = "VEST"

Untouched(w) ==
    /\ units' = units /\ events'.moved = events.moved /\ CompanyOK'
    /\ company'.platform = company.platform /\ company'.founders = company.founders
    /\ DOMAIN task' = Session
    /\ w \in Session => Plain(task'[w])
    /\ \A x \in Session \ {w} :
        task'[x] = task[x] /\ (task[x].pc \in {"write", "flip"} => lock' = lock)

LEMMA UntouchedKeeps ==
  ASSUME EquityInv, NEW w, Untouched(w)
  PROVE  EquityInv'
<1>1. TableSums' /\ AuditExplainsTable'
  BY DEF EquityInv, Untouched, TableSums, AuditExplainsTable, SumOf
<1>2. ASSUME NEW x \in Session PROVE Planned(x)'
  <2>1. CASE x = w
    BY <2>1 DEF Untouched, Plain, Planned
  <2>2. CASE x # w
    <3>1. task'[x] = task[x] /\ (task[x].pc \in {"write", "flip"} => lock' = lock) /\ units' = units
      BY <2>2 DEF Untouched
    <3>2. Planned(x)
      BY DEF EquityInv, TasksPlanned
    <3>3. Written(task'[x].units, units') = Written(task[x].units, units)
      BY <3>1
    <3> QED
      BY <3>1, <3>2, <3>3 DEF Planned
  <2> QED
    BY <2>1, <2>2
<1> QED
  BY <1>1, <1>2 DEF EquityInv, TasksPlanned, Untouched

(* Nobody has a write in hand while the lock is free. *)
LEMMA FreeMeansIdle ==
  ASSUME EquityInv, lock = NoOne, NEW x \in Session
  PROVE  task[x].pc \notin {"write", "flip"}
BY CapTableAssumption DEF EquityInv, TasksPlanned, Planned

(* The session that is alone under the lock. *)
LEMMA OnePlanner ==
  ASSUME EquityInv, NEW w \in Session, task[w].pc \in {"write", "flip"}, NEW x \in Session \ {w}
  PROVE  task[x].pc \notin {"write", "flip"}
BY DEF EquityInv, TasksPlanned, Planned

(* A session takes the lock with a plan. *)
LEMMA PlanKeeps ==
  ASSUME EquityInv, NEW w \in Session, lock = NoOne, lock' = w, NEW t, Turn(w, t),
         UNCHANGED <<units, company, events, day>>, Planned(w)'
  PROVE  EquityInv'
<1>1. TableSums' /\ AuditExplainsTable' /\ CompanyOK'
  BY DEF EquityInv, TableSums, AuditExplainsTable, CompanyOK, SumOf
<1>2. DOMAIN task' = Session
  BY DEF EquityInv, TasksPlanned, Turn
<1>3. ASSUME NEW x \in Session \ {w} PROVE Planned(x)'
  <2>1. task'[x] = task[x]
    BY DEF EquityInv, TasksPlanned, Turn
  <2>2. task[x].pc \notin {"write", "flip"} /\ Planned(x)
    BY FreeMeansIdle DEF EquityInv, TasksPlanned
  <2> QED
    BY <2>1, <2>2 DEF Planned
<1> QED
  BY <1>1, <1>2, <1>3 DEF EquityInv, TasksPlanned

(* The session commits the table it planned, with its sums. *)
LEMMA CommitKeeps ==
  ASSUME EquityInv, NEW w \in Session, task[w].pc \in {"write", "flip"}, Turn(w, NoTask),
         units' \in [Holder -> Nat], SumOf(units', Holder) = Whole, CompanyOK',
         company'.platform = units'[Platform], company'.founders = SumOf(units', Founder),
         events'.moved.platform = company'.platform, events'.moved.founders = company'.founders
  PROVE  EquityInv'
<1>1. TableSums' /\ AuditExplainsTable'
  BY DEF TableSums, AuditExplainsTable, SumOf, Holder, Whole
<1>2. DOMAIN task' = Session
  BY DEF EquityInv, TasksPlanned, Turn
<1>3. ASSUME NEW x \in Session PROVE Planned(x)'
  <2>1. CASE x = w
    <3>1. task'[w].pc = "idle"
      BY DEF EquityInv, TasksPlanned, Turn, NoTask
    <3> QED
      BY <2>1, <3>1 DEF Planned
  <2>2. CASE x # w
    <3>1. task'[x] = task[x]
      BY <2>2 DEF EquityInv, TasksPlanned, Turn
    <3>2. task[x].pc \notin {"write", "flip"} /\ Planned(x)
      BY <2>2, OnePlanner DEF EquityInv, TasksPlanned
    <3> QED
      BY <3>1, <3>2 DEF Planned
  <2> QED
    BY <2>1, <2>2
<1> QED
  BY <1>1, <1>2, <1>3 DEF EquityInv, TasksPlanned

-----------------------------------------------------------------------------
(* The steps.                                                              *)

LEMMA BeginKeeps ==
  ASSUME EquityInv, NEW w \in Session, NEW t, Plain(t), Begin(w, t)
  PROVE  EquityInv'
<1>1. Untouched(w)
  BY DEF Begin, Turn, Untouched, EquityInv, CompanyOK, TasksPlanned
<1> QED
  BY <1>1, UntouchedKeeps

(* Audit rows of kinds that move no equity leave the last one that did. *)
LEMMA AuditAside ==
  ASSUME NEW row, Audit(row), row.kind \notin Shifts
  PROVE  events'.moved = events.moved
BY DEF Audit

LEMMA TakeLockKeeps ==
  ASSUME EquityInv, NEW w \in Session, NEW e \in Event, NEW seen, TakeLock(w, e, seen)
  PROVE  EquityInv'
<1>1. PICK u \in Outcome(e) :
        LET changed == {h \in Holder : u[h] # units[h]}
            sums == IF e.kind = "VEST" THEN seen ELSE <<u[Platform], SumOf(u, Founder)>>
        IN
        /\ SumOf(u, Holder) = Whole
        /\ Turn(w, [pc |-> "write",
                    units |-> [h \in changed |-> u[h]],
                    vested |-> IF e.kind = "VEST"
                               THEN [h \in {e.to} |-> Min({units[h], vested[h] + e.n})]
                               ELSE [h \in {g \in changed : vested[g] > u[g]} |-> u[h]],
                    row |-> Row(e.kind, sums[1], sums[2])])
  BY DEF TakeLock
<1> DEFINE changed == {h \in Holder : u[h] # units[h]}
           sums == IF e.kind = "VEST" THEN seen ELSE <<u[Platform], SumOf(u, Founder)>>
           t == [pc |-> "write",
                 units |-> [h \in changed |-> u[h]],
                 vested |-> IF e.kind = "VEST"
                            THEN [h \in {e.to} |-> Min({units[h], vested[h] + e.n})]
                            ELSE [h \in {g \in changed : vested[g] > u[g]} |-> u[h]],
                 row |-> Row(e.kind, sums[1], sums[2])]
<1>2. SumOf(u, Holder) = Whole /\ Turn(w, t)
  BY <1>1
<1>3. /\ lock = NoOne /\ lock' = w /\ UNCHANGED <<units, company, events, day>>
      /\ e.kind # "DILUTE" => e.from # e.to
  BY DEF TakeLock, LockFree
<1>4. units \in [Holder -> Nat]
  BY DEF EquityInv, TableSums
<1>5. u \in [Holder -> Nat] /\ (e.kind = "VEST" => u = units)
  BY <1>3, <1>4, OutcomeType
<1>6. /\ t.pc = "write" /\ t.units = [h \in changed |-> u[h]]
      /\ t.row.kind = e.kind
      /\ e.kind # "VEST" => t.row.platform = u[Platform] /\ t.row.founders = SumOf(u, Founder)
  BY DEF Row
<1>7. Written(t.units, units) = u
  BY <1>5, <1>6, ChangedRowsSuffice
<1>8. task'[w] = t
  <2> HIDE DEF t
  <2> QED
    BY <1>2 DEF EquityInv, TasksPlanned, Turn
<1>9. e.kind \in {"TRANSFER", "DILUTE", "BUYOUT", "VEST"}
  BY DEF Event
<1> HIDE DEF t
<1>10. Written(task'[w].units, units') = u
  BY <1>3, <1>7, <1>8
<1>11. Planned(w)'
  <2>1. /\ task'[w].pc = "write" /\ lock' = w
        /\ Written(task'[w].units, units') \in [Holder -> Nat]
        /\ SumOf(Written(task'[w].units, units'), Holder) = Whole
    BY <1>2, <1>3, <1>5, <1>6, <1>8, <1>10
  <2>2. CASE e.kind = "VEST"
    BY <1>3, <1>5, <1>6, <1>8, <1>10, <2>1, <2>2 DEF Planned
  <2>3. CASE e.kind # "VEST"
    <3>1. task'[w].row.kind \in Shifts /\ task'[w].row.kind # "VEST"
      BY <1>6, <1>8, <1>9, <2>3 DEF Shifts
    <3>2. /\ task'[w].row.platform = Written(task'[w].units, units')[Platform]
          /\ task'[w].row.founders = SumOf(Written(task'[w].units, units'), Founder)
      BY <1>6, <1>8, <1>10, <2>3
    <3> QED
      BY <2>1, <3>1, <3>2 DEF Planned
  <2> QED
    BY <2>2, <2>3
<1> QED
  BY <1>2, <1>3, <1>11, PlanKeeps

LEMMA CommitEventKeeps ==
  ASSUME EquityInv, NEW w \in Session, CommitEvent(w)
  PROVE  EquityInv'
<1> DEFINE t == task[w]
           u == Written(t.units, units)
<1>1. /\ t.pc = "write" /\ units' = u /\ company' = SetAggregates(t.row) /\ Audit(t.row)
      /\ Turn(w, NoTask)
  BY DEF CommitEvent
<1>2. Planned(w)
  BY DEF EquityInv, TasksPlanned
<1>3. u \in [Holder -> Nat] /\ SumOf(u, Holder) = Whole
  BY <1>1, <1>2 DEF Planned
<1>4. SumOf(u, Founder) \in Int /\ u[Platform] \in Int
  <2>1. SumOf(u, Founder) \in Nat
    BY <1>3, SumOfHolders
  <2> QED
    BY <1>3, <2>1 DEF Holder
<1>5. CASE t.row.kind = "VEST"
  <2>1. u = units
    BY <1>1, <1>2, <1>5 DEF Planned
  <2>2. company' = company /\ events'.moved = events.moved /\ day' = day
    BY <1>1, <1>5, AuditAside DEF SetAggregates, Shifts, CommitEvent
  <2> QED
    BY <1>1, <1>3, <2>1, <2>2, CommitKeeps DEF EquityInv, AuditExplainsTable, CompanyOK
<1>6. CASE t.row.kind # "VEST"
  <2>1. t.row.kind \in Shifts /\ t.row.platform = u[Platform] /\ t.row.founders = SumOf(u, Founder)
    BY <1>1, <1>2, <1>6 DEF Planned
  <2>2. events'.moved = t.row
    BY <1>1, <2>1 DEF Audit
  <2> HIDE DEF u, t
  <2>3. company' = [company EXCEPT !.platform = t.row.platform, !.founders = t.row.founders]
    BY <1>1, <1>6 DEF SetAggregates
  <2>7. day' = day
    BY DEF CommitEvent
  <2>4. CompanyOK' /\ company'.platform = u[Platform] /\ company'.founders = SumOf(u, Founder)
    BY <1>4, <2>1, <2>3, <2>7 DEF EquityInv, CompanyOK
  <2>5. /\ company'.platform = units'[Platform] /\ company'.founders = SumOf(units', Founder)
        /\ units' \in [Holder -> Nat] /\ SumOf(units', Holder) = Whole
    BY <1>1, <1>3, <2>4
  <2>6. task[w].pc \in {"write", "flip"}
    BY <1>1 DEF t
  <2> QED
    BY <1>1, <2>1, <2>2, <2>4, <2>5, <2>6, CommitKeeps
<1> QED
  BY <1>5, <1>6

LEMMA StartHandoverKeeps ==
  ASSUME EquityInv, NEW w \in Session, StartHandover(w)
  PROVE  EquityInv'
<1> DEFINE heirs == Active \cap Founder
<1>1. /\ lock = NoOne /\ lock' = w /\ UNCHANGED <<units, company, events, day>>
      /\ MayHandOver
  BY DEF StartHandover, LockFree
<1>2. PICK s \in Splits(units[Platform], heirs) :
        LET v == [h \in heirs |-> units[h] + s[h]] IN
        Turn(w, [pc |-> "flip", vested |-> v,
                 units |-> [h \in heirs \cup {Platform} |-> IF h = Platform THEN 0 ELSE v[h]]])
  BY DEF StartHandover
<1> DEFINE v == [h \in heirs |-> units[h] + s[h]]
           t == [pc |-> "flip", vested |-> v,
                 units |-> [h \in heirs \cup {Platform} |-> IF h = Platform THEN 0 ELSE v[h]]]
           u == Written(t.units, units)
<1>3. units \in [Holder -> Nat] /\ Platform \in Holder /\ Platform \notin Founder
  BY CapTableAssumption DEF EquityInv, TableSums, Holder
<1>4. IsFiniteSet(heirs) /\ heirs # {} /\ heirs \subseteq Holder
  BY <1>1, ActiveFinite, FS_Intersection DEF MayHandOver
<1>5. s \in [heirs -> Nat]
  BY <1>3, <1>4, SplitAddsUp
<1>6. u = [h \in Holder |-> IF h = Platform THEN 0 ELSE IF h \in heirs THEN units[h] + s[h] ELSE units[h]]
  BY <1>3, <1>4 DEF Written
<1>7. u \in [Holder -> Nat] /\ u[Platform] = 0
  <2> HIDE DEF u
  <2>1. \A h \in Holder :
          (IF h = Platform THEN 0 ELSE IF h \in heirs THEN units[h] + s[h] ELSE units[h]) \in Nat
    BY <1>3, <1>5
  <2> QED
    BY ONLY <1>3, <1>6, <2>1
<1>8. Turn(w, t) /\ t.pc = "flip"
  BY <1>2
<1>9. task'[w] = t
  <2> HIDE DEF t
  <2> QED
    BY <1>8 DEF EquityInv, TasksPlanned, Turn
<1>10. Written(task'[w].units, units') = u
  BY <1>1, <1>9
<1> HIDE DEF t, u
<1>11. Planned(w)'
  BY <1>1, <1>7, <1>8, <1>9, <1>10 DEF Planned, Holder
<1> QED
  BY <1>1, <1>8, <1>11, PlanKeeps

LEMMA ExecuteHandoverKeeps ==
  ASSUME EquityInv, NEW w \in Session, ExecuteHandover(w)
  PROVE  EquityInv'
<1> DEFINE u == Written(task[w].units, units)
<1>1. /\ task[w].pc = "flip" /\ SumOf(u, Holder) = Whole /\ units' = u
      /\ company' = [company EXCEPT !.status = "HANDED_OVER", !.platform = 0, !.founders = Whole]
      /\ Audit(Row("HANDOVER", 0, Whole)) /\ Turn(w, NoTask)
  BY DEF ExecuteHandover
<1>2. u \in [Holder -> Nat] /\ u[Platform] = 0
  <2>1. Planned(w)
    BY DEF EquityInv, TasksPlanned
  <2> QED
    BY <1>1, <2>1 DEF Planned
<1> HIDE DEF u
<1>3. SumOf(u, Founder) = Whole
  BY <1>1, <1>2, SumOfHolders
<1>4. events'.moved.platform = 0 /\ events'.moved.founders = Whole
  BY <1>1 DEF Audit, Row, Shifts
<1>5. CompanyOK' /\ company'.platform = 0 /\ company'.founders = Whole
  <2>1. company \in [status : {"FORMATION", "ACTIVE", "HANDED_OVER"} \cup AdminStatus,
                     platform : Int, founders : Int, start : Int] /\ day' \in Nat
    BY DEF EquityInv, CompanyOK, ExecuteHandover
  <2>2. Whole \in Int /\ 0 \in Int
    BY HoldersFinite
  <2>3. company' = [company EXCEPT !.status = "HANDED_OVER", !.platform = 0, !.founders = Whole]
    BY <1>1
  <2> QED
    BY ONLY <2>1, <2>2, <2>3 DEF CompanyOK
<1>6. SumOf(units', Founder) = Whole /\ SumOf(units', Holder) = Whole /\ units'[Platform] = 0
      /\ units' \in [Holder -> Nat]
  BY <1>1, <1>2, <1>3
<1> QED
  BY <1>1, <1>4, <1>5, <1>6, CommitKeeps

(* A session that stops releases its lock, and its plan is void. *)
LEMMA ReleaseKeeps ==
  ASSUME EquityInv, NEW w \in Session, Release(w)
  PROVE  EquityInv'
<1>1. DOMAIN task' = Session /\ Plain(task'[w])
  BY DEF EquityInv, TasksPlanned, Release, Turn, NoTask, Plain
<1>2. ASSUME NEW x \in Session \ {w}
      PROVE  task'[x] = task[x] /\ (task[x].pc \in {"write", "flip"} => lock' = lock)
  BY DEF EquityInv, TasksPlanned, Planned, Release, Turn
<1>3. Untouched(w)
  BY <1>1, <1>2 DEF Release, Untouched, EquityInv, CompanyOK
<1> QED
  BY <1>3, UntouchedKeeps

(* Writes of the timer and of vesting, which plan nothing and move nothing. *)
LEMMA AsideKeepsEquity ==
  ASSUME EquityInv, NEW w \in Session,
         StartTimer(w) \/ ComputeVesting(w) \/ SetHolderVesting(w)
  PROVE  EquityInv'
<1>1. DOMAIN task' = Session /\ Plain(task'[w]) /\ UNCHANGED <<units, lock>>
      /\ \A x \in Session \ {w} : task'[x] = task[x]
  BY DEF EquityInv, TasksPlanned, StartTimer, ComputeVesting, SetHolderVesting, Turn, NoTask, Plain
<1>2. CompanyOK' /\ company'.platform = company.platform /\ company'.founders = company.founders
      /\ events'.moved = events.moved
  <2>1. CASE StartTimer(w)
    <3>1. company' = [company EXCEPT !.start = day, !.status = "ACTIVE"]
      BY <2>1 DEF StartTimer
    <3>2. events'.moved = events.moved
      BY <2>1, AuditAside DEF StartTimer, Row, Shifts
    <3>3. day \in Int /\ day' = day
      BY <2>1 DEF StartTimer, EquityInv, CompanyOK
    <3> QED
      BY <3>1, <3>2, <3>3 DEF EquityInv, CompanyOK
  <2>2. CASE ComputeVesting(w)
    BY <2>2 DEF ComputeVesting, EquityInv, CompanyOK
  <2>3. CASE SetHolderVesting(w)
    <3>1. task[w].row.kind = "VEST" /\ Audit(task[w].row)
      BY <2>3 DEF SetHolderVesting, EquityInv, TasksPlanned, Planned
    <3>2. events'.moved = events.moved
      BY <3>1, AuditAside DEF Shifts
    <3> QED
      BY <2>3, <3>2 DEF SetHolderVesting, EquityInv, CompanyOK
  <2> QED
    BY <2>1, <2>2, <2>3
<1>3. Untouched(w)
  BY <1>1, <1>2 DEF Untouched
<1> QED
  BY <1>3, UntouchedKeeps

(* Steps of nobody's session. *)
LEMMA OutsideKeeps ==
  ASSUME EquityInv,
         \/ \E role \in {"ADMIN", "COFOUNDER"} : RecordHandoverApproval(role)
         \/ \E status \in AdminStatus : UpdateCompany(status)
         \/ CompleteSprints \/ Tick
  PROVE  EquityInv'
<1>1. Untouched(NoOne)
  <2>1. NoOne \notin Session
    BY CapTableAssumption
  <2> QED
    BY <2>1 DEF RecordHandoverApproval, UpdateCompany, CompleteSprints, Tick, Untouched,
                EquityInv, CompanyOK, TasksPlanned
<1> QED
  BY <1>1, UntouchedKeeps

LEMMA EquityNextKeeps ==
  ASSUME EquityInv, [EquityNext]_equityVars
  PROVE  EquityInv'
<1>1. CASE UNCHANGED equityVars
  <2>1. Untouched(NoOne)
    <3>1. NoOne \notin Session
      BY CapTableAssumption
    <3> QED
      BY <1>1, <3>1 DEF equityVars, Untouched, EquityInv, CompanyOK, TasksPlanned
  <2> QED
    BY <2>1, UntouchedKeeps
<1>2. ASSUME NEW w \in Session,
             \/ \E e \in Event : ReadCompany(w, e) \/ RecordEvent(w, e)
             \/ ReadTimer(w)
             \/ Sweep(w)
             \/ ReadVesting(w)
             \/ \E h \in Holder, n \in Amount : ReadHolder(w, h, n)
             \/ Step(w)
             \/ Fail(w)
      PROVE  EquityInv'
  <2>1. ASSUME NEW e \in Event, ReadCompany(w, e) PROVE EquityInv'
    <3> DEFINE t == [pc |-> "event", e |-> e, seen |-> <<company.platform, company.founders>>]
    <3>1. Plain(t) /\ Begin(w, t)
      BY <2>1 DEF ReadCompany, Plain
    <3> HIDE DEF t
    <3> QED
      BY <3>1, BeginKeeps
  <2>2. ASSUME NEW e \in Event, RecordEvent(w, e) PROVE EquityInv'
    BY <2>2, TakeLockKeeps DEF RecordEvent
  <2>3. CASE ReadTimer(w)
    <3> DEFINE t == [pc |-> "timer", seen |-> <<company.platform, company.founders>>]
    <3>1. Plain(t) /\ Begin(w, t)
      BY <2>3 DEF ReadTimer, Plain
    <3> HIDE DEF t
    <3> QED
      BY <3>1, BeginKeeps
  <2>4. CASE Sweep(w)
    <3> DEFINE t == [pc |-> "handover"]
    <3>1. Plain(t) /\ Begin(w, t)
      BY <2>4 DEF Sweep, Plain
    <3> HIDE DEF t
    <3> QED
      BY <3>1, BeginKeeps
  <2>5. CASE ReadVesting(w)
    <3>1. PICK v : Begin(w, [pc |-> "vest", vested |-> v])
      BY <2>5 DEF ReadVesting
    <3> DEFINE t == [pc |-> "vest", vested |-> v]
    <3>2. Plain(t) /\ Begin(w, t)
      BY <3>1 DEF Plain
    <3> HIDE DEF t
    <3> QED
      BY <3>2, BeginKeeps
  <2>6. ASSUME NEW h \in Holder, NEW n \in Amount, ReadHolder(w, h, n) PROVE EquityInv'
    <3> DEFINE t == [pc |-> "override", vested |-> [g \in {h} |-> n],
                     row |-> Row("VEST", company.platform, company.founders)]
    <3>1. Plain(t) /\ Begin(w, t)
      BY <2>6 DEF ReadHolder, Plain, Row
    <3> HIDE DEF t
    <3> QED
      BY <3>1, BeginKeeps
  <2>7. CASE Vest(w)
    <3>1. task[w].pc = "event" /\ TakeLock(w, task[w].e, task[w].seen)
      BY <2>7 DEF Vest
    <3>2. task[w].e \in Event
      BY <3>1 DEF EquityInv, TasksPlanned, Planned
    <3> QED
      BY <3>1, <3>2, TakeLockKeeps
  <2>8. CASE Refuse(w) \/ Fail(w)
    BY <2>8, ReleaseKeeps DEF Refuse, Fail
  <2> QED
    BY <1>2, <2>1, <2>2, <2>3, <2>4, <2>5, <2>6, <2>7, <2>8, CommitEventKeeps, AsideKeepsEquity,
       StartHandoverKeeps, ExecuteHandoverKeeps DEF Step
<1> QED
  BY <1>1, <1>2, OutsideKeeps DEF EquityNext

-----------------------------------------------------------------------------
(* A plan is made under the lock and by no other step. *)
LEMMA PlansComeFromTakeLock ==
  ASSUME EquityInv, EquityNext, NEW w \in Session,
         task'[w].pc = "write", task[w].pc # "write"
  PROVE  \E e \in Event : \E seen : TakeLock(w, e, seen)
<1>1. \A x \in Session : \A t : Turn(x, t) => task'[x] = t /\ (x # w => task'[w] = task[w])
  BY DEF EquityInv, TasksPlanned, Turn
<1>2. task' # task
  OBVIOUS
<1>3. PICK x \in Session :
        \/ \E e \in Event : ReadCompany(x, e) \/ RecordEvent(x, e)
        \/ ReadTimer(x) \/ Sweep(x) \/ ReadVesting(x)
        \/ \E h \in Holder, n \in Amount : ReadHolder(x, h, n)
        \/ Step(x) \/ Fail(x)
  BY <1>2 DEF EquityNext, RecordHandoverApproval, UpdateCompany, CompleteSprints, Tick
<1>4. \A t : Turn(x, t) => x = w /\ t.pc = "write"
  BY <1>1
<1>5. ASSUME NEW e \in Event, RecordEvent(x, e) PROVE \E seen : TakeLock(w, e, seen)
  <2>1. TakeLock(x, e, <<>>) /\ \E t : Turn(x, t)
    BY <1>5 DEF RecordEvent, TakeLock
  <2> QED
    BY <1>4, <2>1
<1>6. ASSUME Vest(x) PROVE \E e \in Event : \E seen : TakeLock(w, e, seen)
  <2>1. task[x].pc = "event" /\ TakeLock(x, task[x].e, task[x].seen)
    BY <1>6 DEF Vest
  <2>2. task[x].e \in Event
    BY <2>1 DEF EquityInv, TasksPlanned, Planned
  <2>3. \E t : Turn(x, t)
    BY <2>1 DEF TakeLock
  <2> QED
    BY <1>4, <2>1, <2>2, <2>3
<1>7. \A t : t.pc # "write" => ~ Turn(x, t)
  BY <1>4
<1>8. ~ Turn(x, NoTask)
  BY <1>7 DEF NoTask
<1>9. \A t : t.pc # "write" => ~ Begin(x, t)
  BY <1>7 DEF Begin
<1>10. ~ \E e \in Event : ReadCompany(x, e)
  BY <1>9 DEF ReadCompany
<1>11. ~ ReadTimer(x) /\ ~ Sweep(x)
  BY <1>9 DEF ReadTimer, Sweep
<1>12. ~ ReadVesting(x)
  BY <1>9 DEF ReadVesting
<1>13. ~ \E h \in Holder, n \in Amount : ReadHolder(x, h, n)
  BY <1>9 DEF ReadHolder
<1>14. ~ StartHandover(x)
  BY <1>7 DEF StartHandover
<1>15. /\ ~ CommitEvent(x) /\ ~ StartTimer(x) /\ ~ ExecuteHandover(x) /\ ~ ComputeVesting(x)
       /\ ~ SetHolderVesting(x) /\ ~ Refuse(x) /\ ~ Fail(x)
  BY <1>8 DEF CommitEvent, StartTimer, ExecuteHandover, ComputeVesting, SetHolderVesting,
              Refuse, Fail, Release
<1> QED
  BY <1>3, <1>5, <1>6, <1>10, <1>11, <1>12, <1>13, <1>14, <1>15 DEF Step

(* The table of a dilution, as the plan of TakeLock has it. *)
LEMMA DilutionPlan ==
  ASSUME EquityInv, NEW w \in Session, NEW e \in Event, NEW seen, TakeLock(w, e, seen),
         task'[w].row.kind = "DILUTE"
  PROVE  e.kind = "DILUTE" /\ Written(task'[w].units, units) \in Diluted(e)
<1>0. PICK u \in Outcome(e) : \E v, row :
        /\ Turn(w, [pc |-> "write", units |-> [h \in {g \in Holder : u[g] # units[g]} |-> u[h]],
                    vested |-> v, row |-> row])
        /\ row.kind = e.kind
  <2>1. \A a, b : Row(e.kind, a, b).kind = e.kind
    BY DEF Row
  <2> QED
    BY <2>1 DEF TakeLock
<1>1. PICK v, row :
        /\ Turn(w, [pc |-> "write", units |-> [h \in {g \in Holder : u[g] # units[g]} |-> u[h]],
                    vested |-> v, row |-> row])
        /\ row.kind = e.kind
  BY <1>0
<1> DEFINE t == [pc |-> "write", units |-> [h \in {g \in Holder : u[g] # units[g]} |-> u[h]],
                 vested |-> v, row |-> row]
<1>2. task'[w] = t
  BY <1>1 DEF EquityInv, TasksPlanned, Turn
<1>3. e.kind = "DILUTE"
  BY <1>1, <1>2
<1>4. u \in Diluted(e)
  BY <1>3 DEF Outcome
<1>5. u \in [Holder -> Nat]
  BY <1>3, OutcomeType DEF EquityInv, TableSums, TakeLock
<1>6. Written(task'[w].units, units) = u
  BY <1>2, <1>5, ChangedRowsSuffice
<1> QED
  BY <1>3, <1>4, <1>6

LEMMA DilutedFairly ==
  ASSUME EquityInv, NEW e \in Event, e.kind = "DILUTE", NEW after \in Diluted(e),
         NEW to, to = (CHOOSE h \in Holder : after[h] > units[h]),
         NEW h \in Active \ {to}
  PROVE  LET n == after[to] - units[to]
             total == SumOf(units, Active \ {to})
             given == units[h] - after[h]
         IN given \in 0 .. units[h] /\ given * total - n * units[h] \in (1 - total) .. (total - 1)
<1> DEFINE rest == Active \ {e.to}
<1>1. e.to \in Holder /\ e.n \in Nat
  BY CapTableAssumption DEF Event
<1>2. e.n > 0 /\ SumOf(units, rest) >= e.n
  BY DEF Diluted
<1>3. PICK r \in Reductions(rest, e.n) :
        after = [x \in Holder |-> IF x = e.to THEN units[x] + e.n
                                  ELSE IF x \in rest THEN units[x] - r[x] ELSE 0]
  BY DEF Diluted
<1>4. \A x \in Holder : units[x] \in Nat
  BY DEF EquityInv, TableSums
<1>5. IsFiniteSet(rest) /\ (\A x \in rest : units[x] \in Nat) /\ rest \subseteq Holder
  BY <1>4, ActiveFinite, FS_Subset
<1>6. SumOf(units, rest) \in Nat
  BY <1>5, SumIsTotal
<1>7. e.n \in Nat \ {0} /\ e.n <= SumOf(units, rest)
  BY <1>1, <1>2, <1>6
<1>8. \A x \in rest :
        /\ r[x] \in 0 .. units[x]
        /\ r[x] * SumOf(units, rest) - e.n * units[x]
              \in (1 - SumOf(units, rest)) .. (SumOf(units, rest) - 1)
  BY ONLY <1>3, <1>5, <1>7, ReductionsAreFair
<1>9. /\ after[e.to] = units[e.to] + e.n
      /\ \A x \in Holder \ {e.to} : after[x] = IF x \in rest THEN units[x] - r[x] ELSE 0
  BY <1>1, <1>3
<1>10. after[e.to] > units[e.to] /\ \A x \in Holder : after[x] > units[x] => x = e.to
  BY <1>1, <1>2, <1>4, <1>8, <1>9
<1>11. to = e.to
  BY <1>1, <1>10
<1>12. after[to] - units[to] = e.n
  <2>1. units[e.to] \in Nat /\ e.n \in Nat
    BY <1>1, <1>4
  <2>2. after[to] = units[to] + e.n /\ units[to] = units[e.to]
    BY <1>9, <1>11
  <2> HIDE DEF rest
  <2> QED
    BY ONLY <2>1, <2>2
<1>13. h \in rest /\ units[h] - after[h] = r[h]
  <2>1. h \in rest /\ h \in Holder \ {e.to}
    BY <1>5, <1>11
  <2>2. after[h] = units[h] - r[h] /\ r[h] \in Int /\ units[h] \in Int
    BY <1>4, <1>8, <1>9, <2>1
  <2> QED
    BY <2>1, <2>2
<1> QED
  BY <1>8, <1>11, <1>12, <1>13

-----------------------------------------------------------------------------

LEMMA AlwaysEquityInv == EquitySpec => []EquityInv
BY EquityInitInv, EquityNextKeeps, PTL DEF EquitySpec

(* TableSums: whatever events and handovers run at once, nobody holds a negative stake and *)
(* the stakes make up the whole company.                                                    *)
THEOREM StakesAddUp == EquitySpec => []TableSums
<1>1. EquityInv => TableSums
  BY DEF EquityInv
<1> QED
  BY <1>1, AlwaysEquityInv, PTL

(* AuditExplainsTable: the company's aggregates, the last audit row that moved equity and *)
(* the sums over the holders agree at every moment.                                        *)
THEOREM AuditAgrees == EquitySpec => []AuditExplainsTable
<1>1. EquityInv => AuditExplainsTable
  BY DEF EquityInv
<1> QED
  BY <1>1, AlwaysEquityInv, PTL

(* DilutionIsFair: largestRemainderProportional takes from everybody his share, less or *)
(* more than a unit off, and never more than he has.                                     *)
THEOREM DilutedInProportion == EquitySpec => DilutionIsFair
<1>1. ASSUME EquityInv, EquityNext, NEW w \in Session,
             task'[w].pc = "write", task'[w].row.kind = "DILUTE", task[w].pc # "write",
             NEW after, after = Written(task'[w].units, units),
             NEW to, to = (CHOOSE h \in Holder : after[h] > units[h]),
             NEW h \in Active \ {to}
      PROVE  LET n == after[to] - units[to]
                 total == SumOf(units, Active \ {to})
                 given == units[h] - after[h]
             IN given \in 0 .. units[h] /\ given * total - n * units[h] \in (1 - total) .. (total - 1)
  <2>1. PICK e \in Event : \E seen : TakeLock(w, e, seen)
    BY <1>1, PlansComeFromTakeLock
  <2>2. e.kind = "DILUTE" /\ after \in Diluted(e)
    BY <1>1, <2>1, DilutionPlan
  <2> QED
    BY <1>1, <2>2, DilutedFairly
<1>2. EquityInv /\ EquityNext =>
        \A w \in Session :
          (task'[w].pc = "write" /\ task'[w].row.kind = "DILUTE") =>
            LET after == Written(task'[w].units, units)
                to == CHOOSE h \in Holder : after[h] > units[h]
                n == after[to] - units[to]
                rest == Active \ {to}
                total == SumOf(units, rest)
                given(h) == units[h] - after[h]
            IN task[w].pc = "write" \/ \A h \in rest :
                /\ given(h) \in 0..units[h]
                /\ given(h) * total - n * units[h] \in (1 - total)..(total - 1)
  BY <1>1
<1> QED
  BY <1>2, AlwaysEquityInv, PTL DEF EquitySpec, DilutionIsFair

=============================================================================
