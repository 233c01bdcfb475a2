---------------------------- MODULE InventoryTx ----------------------------
(***************************************************************************)
(* The stock service at the grain of its SQL statements.  Every process is  *)
(* a database session that runs one transaction at a time; a transaction is *)
(* a sequence of calls of the service's primitives, and every statement of  *)
(* a call is a step:                                                        *)
(*                                                                          *)
(*   ReadReservation  findUnique on the reservation, before any lock        *)
(*   TakeLock         pg_advisory_xact_lock of one (sku, warehouse)         *)
(*   ReadLevel        findUnique on the stock row, and the checks on it     *)
(*   UpdateLevel      updateMany guarded by version: the compare-and-set    *)
(*   FlipReservation  updateMany guarded by status = ACTIVE                 *)
(*   Commit, Abort    publish or drop every write and free every lock       *)
(*                                                                          *)
(* PostgreSQL runs these at READ COMMITTED: a statement sees what is        *)
(* committed when it starts and the transaction's own writes, and an UPDATE *)
(* waits for the other writer of the row.  A process may Abort anywhere: an *)
(* exception, a lost connection, the death of the node.                     *)
(*                                                                          *)
(* A reservation that is finished between ReadReservation and               *)
(* FlipReservation is the hazard the code's two compare-and-sets are for.   *)
(*                                                                          *)
(* `version` is kept modulo VersionMod, which only makes its test weaker.   *)
(***************************************************************************)
EXTENDS Stock, Sequences

CONSTANTS
    Proc,           \* database sessions
    HashText,       \* Key -> the advisory lock it hashes to
    VersionMod,     \* bound on the distinct values of `version`
    Ops,            \* the primitives the sessions call
    MaxCalls        \* bound on the calls of one transaction

ASSUME InventoryTxAssumption ==
    /\ Sku \subseteq Nat
    /\ Warehouse \subseteq Nat
    /\ Res \subseteq Nat           \* in the order they are inserted
    /\ VersionMod \in Nat \ {0, 1}
    /\ MaxCalls \in Nat \ {0}
    /\ DOMAIN HashText = Key

VARIABLES
    level,          \* Key -> committed StockLevel row, with the totals of its movements
    reservation,    \* Res -> committed StockReservation row
    lock,           \* advisory lock -> the sessions that hold it
    tx              \* Proc -> the state of its transaction

txVars == <<level, reservation, lock, tx>>

(* Inventory over the committed tables. *)
Tables == INSTANCE Inventory WITH
    rows     <- {k \in Key : level[k].there},
    onHand   <- [k \in Key |-> level[k].onHand],
    reserved <- [k \in Key |-> level[k].reserved],
    res      <- reservation,
    ledger   <- [k \in Key |-> level[k].ledger]

LockId == {HashText[k] : k \in Key}

(* The order of lockKeys: ascending sku, then ascending warehouse. *)
Before(k, j) == k[1] < j[1] \/ (k[1] = j[1] /\ k[2] < j[2])

First(K) == CHOOSE k \in K : \A j \in K \ {k} : Before(k, j)

(***************************************************************************)
(* A call: `change` gives by how much it changes each row, most by nothing; *)
(* release and commit find theirs in the reservation `r` and finish it as   *)
(* `to`.                                                                    *)
(***************************************************************************)
Change(onHand, reserved) == [onHand |-> onHand, reserved |-> reserved]

NoChange == [k \in Key |-> Change(0, 0)]

(* The rows that are changed. *)
Rows(change) == {k \in Key : change[k] # Change(0, 0)}

Call(op, change) == [op |-> op, change |-> change, r |-> {}, to |-> "NONE"]

Finish(op, r, to) == [op |-> op, change |-> NoChange, r |-> {r}, to |-> to]

ReserveCalls ==
    {Call("reserve", [k \in Key |-> Change(0, IF k \in DOMAIN d THEN d[k] ELSE 0)]) : d \in Demands}

FinishCalls ==
    {Finish("release", r, to) : r \in Res, to \in {"RELEASED", "EXPIRED"}}
    \cup {Finish("commit", r, "CONSUMED") : r \in Res}

OneRowCalls ==
    {Call(op, [NoChange EXCEPT ![k] = Change(q, 0)]) :
        op \in {"restock", "receive"}, k \in Key, q \in Qty}
    \cup {Call("adjust", [NoChange EXCEPT ![k] = Change(q, 0)]) :
        k \in Key, q \in (-MaxQty .. MaxQty) \ {0}}

(* The units leave one warehouse for another. *)
Moved(s, from, to, q) ==
    [NoChange EXCEPT ![<<s, from>>] = Change(-q, 0), ![<<s, to>>] = Change(q, 0)]

TransferCalls ==
    UNION {{Call("transfer", Moved(s, from, to, q)) : s \in Sku, to \in Warehouse \ {from}, q \in Qty} :
             from \in Warehouse}

Calls ==
    {c \in ReserveCalls \cup FinishCalls \cup OneRowCalls \cup TransferCalls : c.op \in Ops}

(* Faulty: the lines of a purchase receipt are not sorted. *)
AnyOrder(cs) == TRUE

(* The order in which receivePurchaseOrder handles its lines. *)
Sorted(cs) ==
    \A i, j \in DOMAIN cs : i < j =>
        \E k \in Rows(cs[i].change), l \in Rows(cs[j].change) : Before(k, l)

(***************************************************************************)
(* The transactions of the callers: one call; or, for the reservations of   *)
(* an order in the order they were inserted, the commits of a captured      *)
(* payment or the releases of a failed or cancelled one; or the sorted      *)
(* lines of a purchase receipt.                                             *)
(***************************************************************************)
Transactions ==
    {<<c>> : c \in Calls} \cup
    {cs \in UNION {[1 .. n -> Calls] : n \in 2 .. MaxCalls} :
        \/ /\ \A i \in DOMAIN cs : cs[i].op \in {"release", "commit"} /\ cs[i].to = cs[1].to
           /\ \A i, j \in DOMAIN cs : i < j => \A r \in cs[i].r, x \in cs[j].r : r < x
        \/ /\ \A i \in DOMAIN cs : cs[i].op = "receive"
           /\ Sorted(cs)}

NoRow == [there |-> FALSE, onHand |-> 0, reserved |-> 0, version |-> 0, ledger |-> NoMovement]

(* What a transaction has written itself: a NoRow or NoReservation is not written. *)
Idle ==
    [pc |-> "idle", calls |-> <<>>, want |-> {}, left |-> NoChange,
     key |-> CHOOSE k \in Key : TRUE, version |-> 0,
     newLevel |-> [k \in Key |-> NoRow], newRes |-> [r \in Res |-> NoReservation]]

TxInit ==
    /\ level = [k \in Key |-> NoRow]
    /\ reservation = [r \in Res |-> NoReservation]
    /\ lock = [h \in LockId |-> {}]
    /\ tx = [p \in Proc |-> Idle]

-----------------------------------------------------------------------------
(* What a statement of p sees: its own writes over what is committed.      *)

Wrote(p) == {k \in Key : tx[p].newLevel[k].there}

WroteRes(p) == {r \in Res : tx[p].newRes[r].status # "NONE"}

LevelAs(p, k) == IF k \in Wrote(p) THEN tx[p].newLevel[k] ELSE level[k]

ResAs(p, r) == IF r \in WroteRes(p) THEN tx[p].newRes[r] ELSE reservation[r]

(* No other transaction has written the row and not yet committed. *)
LevelFree(p, k) == \A q \in Proc \ {p} : k \notin Wrote(q)

ResFree(p, r) == \A q \in Proc \ {p} : r \notin WroteRes(q)

(* Faulty: nothing is checked. *)
FitsAnyway(op, row, change) == TRUE

(* The checks before a change and the guards in its WHERE clause. *)
Fits(op, row, change) ==
    LET onHand == row.onHand + change.onHand
        reserved == row.reserved + change.reserved
    IN /\ onHand \in 0 .. MaxOnHand
       /\ reserved >= 0
       /\ op \in {"reserve", "adjust", "transfer"} => onHand >= reserved

Changed(row, change) ==
    LET onHand == row.onHand + change.onHand IN
    [there    |-> TRUE,
     onHand   |-> onHand,
     reserved |-> row.reserved + change.reserved,
     version  |-> (row.version + 1) % VersionMod,
     ledger   |-> WriteMovement(row.ledger, change.onHand, change.reserved, onHand)]

Become(p, t) == tx' = [tx EXCEPT ![p] = t]

(* The transaction ends without a trace: its writes were never visible. *)
Rollback(p) ==
    /\ Become(p, Idle)
    /\ lock' = [h \in LockId |-> lock[h] \ {p}]
    /\ UNCHANGED <<level, reservation>>

Start(t, calls, change) ==
    [t EXCEPT !.pc = "lock", !.calls = calls, !.want = Rows(change), !.left = change]

(* The next call of a transaction, or its end. *)
Enter(t, calls) ==
    IF calls = <<>> THEN [t EXCEPT !.pc = "end", !.calls = <<>>]
    ELSE IF Head(calls).r # {} THEN [t EXCEPT !.pc = "read", !.calls = calls]
    ELSE Start(t, calls, Head(calls).change)

-----------------------------------------------------------------------------

(* createSku seeds empty rows outside of any lock. *)
CreateSku(s, W) ==
    /\ \A w \in Warehouse : ~level[<<s, w>>].there
    /\ level' = [k \in Key |-> IF k \in {s} \X W THEN [level[k] EXCEPT !.there = TRUE] ELSE level[k]]
    /\ UNCHANGED <<reservation, lock, tx>>

Begin(p, calls) ==
    /\ tx[p].pc = "idle"
    /\ Become(p, Enter(Idle, calls))
    /\ UNCHANGED <<level, reservation, lock>>

(* The reservation that a call finishes, and what that changes. *)
Finishes(c) == CHOOSE r \in c.r : TRUE

FinishChange(op, row) ==
    [NoChange EXCEPT ![row.key] = Change(IF op = "commit" THEN -row.qty ELSE 0, -row.qty)]

(* No such reservation is an error; one that is not ACTIVE makes the call a no-op. *)
ReadReservation(p) ==
    LET t == tx[p]
        c == Head(t.calls)
        row == ResAs(p, Finishes(c))
    IN /\ t.pc = "read"
       /\ IF row.status = "NONE" THEN Rollback(p)
          ELSE /\ Become(p, IF row.status # "ACTIVE" THEN Enter(t, Tail(t.calls))
                            ELSE Start(t, t.calls, FinishChange(c.op, row)))
               /\ UNCHANGED <<level, reservation, lock>>

(* Faulty: the reservation is locked by nobody. *)
TakeNoLock(p) ==
    /\ tx[p].pc = "lock"
    /\ Become(p, [tx[p] EXCEPT !.want = {}, !.pc = "level"])
    /\ UNCHANGED <<level, reservation, lock>>

(* p takes the lock of row k. *)
Lock(p, k) ==
    LET want == tx[p].want \ {k} IN
    /\ lock[HashText[k]] \subseteq {p}
    /\ lock' = [lock EXCEPT ![HashText[k]] = {p}]
    /\ Become(p, [tx[p] EXCEPT !.want = want, !.pc = IF want = {} THEN "level" ELSE "lock"])
    /\ UNCHANGED <<level, reservation>>

(* Faulty: the locks of one call are taken in any order. *)
TakeLockUnordered(p) ==
    /\ tx[p].pc = "lock"
    /\ \E k \in tx[p].want : Lock(p, k)

(* The locks of one call are taken in ascending order, all before any write of it. *)
TakeLock(p) ==
    /\ tx[p].pc = "lock"
    /\ Lock(p, First(tx[p].want))

(* A row that is missing, or that the change does not fit, ends the transaction. *)
ReadLevel(p) ==
    LET t == tx[p]
        op == Head(t.calls).op
    IN /\ t.pc = "level"
       /\ \E k \in Rows(t.left) :
            IF (LevelAs(p, k).there \/ op = "receive") /\ Fits(op, LevelAs(p, k), t.left[k])
            THEN /\ Become(p, [t EXCEPT !.pc = "update", !.key = k, !.version = LevelAs(p, k).version])
                 /\ UNCHANGED <<level, reservation, lock>>
            ELSE Rollback(p)

(* The id of the next inserted reservation. *)
NewId ==
    LET free == {r \in Res : /\ reservation[r].status = "NONE"
                             /\ \A q \in Proc : r \notin WroteRes(q)}
    IN {r \in free : \A x \in free : r <= x}

(* A reserved line also inserts its reservation. *)
Inserted(t) ==
    IF Head(t.calls).op # "reserve" THEN {t.newRes}
    ELSE {[t.newRes EXCEPT ![r] = [status |-> "ACTIVE", key |-> t.key, qty |-> t.left[t.key].reserved]] :
            r \in NewId}

(* After a row: the next one, then the reservation, then the next call. *)
AfterRow(t) ==
    IF Rows(t.left) # {} THEN [t EXCEPT !.pc = "level"]
    ELSE IF Head(t.calls).r # {} THEN [t EXCEPT !.pc = "flip"]
    ELSE Enter(t, Tail(t.calls))

UpdateLevel(p) ==
    LET t == tx[p]
        row == LevelAs(p, t.key)
        change == t.left[t.key]
    IN /\ t.pc = "update"
       /\ LevelFree(p, t.key)
       /\ IF row.version # t.version \/ ~Fits(Head(t.calls).op, row, change)
          THEN Rollback(p)
          ELSE \E new \in Inserted(t) :
                /\ Become(p, AfterRow([t EXCEPT !.left[t.key] = Change(0, 0), !.newRes = new,
                                                !.newLevel[t.key] = Changed(row, change)]))
                /\ UNCHANGED <<level, reservation, lock>>

Flip(p, r, to) ==
    LET t == tx[p] IN
    /\ Become(p, Enter([t EXCEPT !.newRes[r] = [ResAs(p, r) EXCEPT !.status = to]], Tail(t.calls)))
    /\ UNCHANGED <<level, reservation, lock>>

(* Faulty: the status is set without asking whether it is still ACTIVE. *)
FlipAnyReservation(p) ==
    LET c == Head(tx[p].calls) IN
    /\ tx[p].pc = "flip"
    /\ ResFree(p, Finishes(c))
    /\ Flip(p, Finishes(c), c.to)

FlipReservation(p) ==
    LET c == Head(tx[p].calls)
        r == Finishes(c)
    IN /\ tx[p].pc = "flip"
       /\ ResFree(p, r)
       /\ IF ResAs(p, r).status = "ACTIVE" THEN Flip(p, r, c.to) ELSE Rollback(p)

Commit(p) ==
    /\ tx[p].pc = "end"
    /\ level' = [k \in Key |-> LevelAs(p, k)]
    /\ reservation' = [r \in Res |-> ResAs(p, r)]
    /\ lock' = [h \in LockId |-> lock[h] \ {p}]
    /\ Become(p, Idle)

Abort(p) == tx[p].pc # "idle" /\ Rollback(p)

Step(p) ==
    \/ ReadReservation(p)
    \/ TakeLock(p)
    \/ ReadLevel(p)
    \/ UpdateLevel(p)
    \/ FlipReservation(p)
    \/ Commit(p)

TxNext ==
    \/ \E s \in Sku, W \in SUBSET Warehouse : CreateSku(s, W)
    \/ \E p \in Proc : \/ \E calls \in Transactions : Begin(p, calls)
                       \/ Step(p)
                       \/ Abort(p)

TxSpec == TxInit /\ [][TxNext]_txVars

-----------------------------------------------------------------------------

LevelRow ==
    [there : BOOLEAN, onHand : Int, reserved : Int, version : Nat, ledger : Movements]

Transaction ==
    [pc : {"idle", "read", "lock", "level", "update", "flip", "end"},
     calls : Seq(Calls), want : SUBSET Key, left : [Key -> [onHand : Int, reserved : Int]],
     key : Key, version : Nat, newLevel : [Key -> LevelRow], newRes : [Res -> Reservation]]

(* Sessions are in one of the states above and write only rows they may. *)
TxTypeOK ==
    /\ level \in [Key -> LevelRow]
    /\ reservation \in [Res -> Reservation]
    /\ lock \in [LockId -> SUBSET Proc]
    /\ tx \in [Proc -> Transaction]

(***************************************************************************)
(* The compare-and-set on `version` never loses: between ReadLevel and      *)
(* UpdateLevel nobody else writes the row, because every writer of a stock  *)
(* row holds its advisory lock ("Lost the optimistic race despite holding   *)
(* the advisory lock (should not happen under the lock...)").               *)
(***************************************************************************)
CasNeverLoses ==
    \A p \in Proc : tx[p].pc = "update" =>
        /\ LevelFree(p, tx[p].key)
        /\ LevelAs(p, tx[p].key).version = tx[p].version

(* p cannot go on before q ends: q holds the lock or the row p asks for. *)
WaitsFor(p, q) ==
    /\ p # q
    /\ \/ tx[p].pc = "lock" /\ q \in lock[HashText[First(tx[p].want)]]
       \/ tx[p].pc = "update" /\ tx[p].key \in Wrote(q)
       \/ tx[p].pc = "flip" /\ Finishes(Head(tx[p].calls)) \in WroteRes(q)

(***************************************************************************)
(* No circle of sessions that wait for each other ("This single up-front,   *)
(* globally-ordered acquisition is what prevents the A-then-B / B-then-A    *)
(* multi-SKU deadlock").                                                    *)
(***************************************************************************)
NoDeadlock ==
    \A P \in (SUBSET Proc) \ {{}} : \E p \in P : \A q \in P : ~WaitsFor(p, q)

(***************************************************************************)
(* Every transaction of one call, whatever runs beside it and wherever it   *)
(* stops, is one atomic step of Inventory or leaves no trace.               *)
(***************************************************************************)
ImplementsInventory == Tables!Spec

=============================================================================
