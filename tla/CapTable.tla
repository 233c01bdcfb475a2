------------------------------ MODULE CapTable ------------------------------
(***************************************************************************)
(* EquityService: the cap table of one company, from its formation to the   *)
(* handover of the platform's stake after the timer, and the daily cron of  *)
(* AutomationScheduler.                                                     *)
(*                                                                          *)
(* An event or a handover is a transaction under equity_<company>: it reads *)
(* the holders, computes (TakeLock, StartHandover), and writes at its       *)
(* commit only the rows that change.  Vesting, the timer and the company's  *)
(* status are read and written without that lock.                           *)
(*                                                                          *)
(* Abstractions: a unit is the hundredth of a percent, and a company has    *)
(* Whole of them instead of 10000; a day stands for as many days as the     *)
(* constants say; one company; a holder is named by id; isActive is         *)
(* units > 0, which every writer keeps true; the approver's co-founder      *)
(* assignment and the agreement's text are left out.  A grant is recorded   *)
(* like a vesting: it leaves every stake alone; the audit rows are bounded. *)
(***************************************************************************)
EXTENDS Integers, Sequences, FiniteSetsExt, TLC

CONSTANTS
    Founder, Platform,
    Session,
    NoOne,                          \* no holder, no session
    PlatformUnits, FounderUnits,    \* 5100 and 4900
    Cliff, Duration, Month,         \* 90, 1000 and 30 days
    Amount,                         \* amounts of events and overrides tried
    AdminStatus,                    \* statuses an admin writes
    MaxDay, MaxEvents               \* bounds on the clock and the audit rows

ASSUME CapTableAssumption ==
    /\ IsFiniteSet(Founder) /\ Founder # {} /\ Platform \notin Founder
    /\ NoOne \notin Founder \cup {Platform} \cup Session
    /\ PlatformUnits \in Nat \ {0} /\ FounderUnits \in Nat /\ FounderUnits >= Cardinality(Founder)
    /\ Cliff \in Nat /\ Duration \in Nat \ {0} /\ Month \in Nat \ {0}
    /\ Amount \subseteq Nat /\ {MaxDay, MaxEvents} \subseteq Nat

Holder == Founder \cup {Platform}
Whole == PlatformUnits + FounderUnits

VARIABLES
    units,      \* Holder -> equityPct
    vested,     \* Holder -> vestedPct
    company,    \* status, aggregates, first day of the timer (-1: not started)
    sprints,    \* the team has completed both sprints
    approvals,  \* the roles that approved the handover
    events,     \* the audit rows: their number, the last, the last that moved equity
    day,        \* today
    lock,       \* the session that holds equity_<company>
    task        \* Session -> what it does

equityVars == <<units, vested, company, sprints, approvals, events, day, lock, task>>

(* activeSum: the sum of f over those of S with units > 0, as the number of <<h, i>>, *)
(* unit i of what f gives h.                                                           *)
SumOf(f, S) == Cardinality(UNION {{h} \X (1 .. f[h]) : h \in S})

(* The unit left over by the division goes to the holders in extra. *)
Split(total, S, extra) ==
    [h \in S |-> total \div Cardinality(S) + (IF h \in extra THEN 1 ELSE 0)]

(* largestRemainderSplit and largestRemainderUnits; the query of the holders has no *)
(* order, so that any of them may come first.                                       *)
Splits(total, S) == {Split(total, S, e) : e \in kSubset(total % Cardinality(S), S)}

NoTask == [pc |-> "idle"]

Row(kind, platform, founders) == [kind |-> kind, platform |-> platform, founders |-> founders]

(* createCompany. *)
EquityInit ==
    /\ \E shares \in Splits(FounderUnits, Founder) :
        units = [h \in Holder |-> IF h = Platform THEN PlatformUnits ELSE shares[h]]
    /\ vested = [h \in Holder |-> IF h = Platform THEN PlatformUnits ELSE 0]
    /\ company = [status |-> "FORMATION", platform |-> PlatformUnits,
                  founders |-> FounderUnits, start |-> -1]
    /\ sprints = FALSE /\ approvals = {} /\ day = 0
    /\ LET grant == Row("GRANT", PlatformUnits, FounderUnits) IN
        events = [n |-> 1, last |-> grant, moved |-> grant]
    /\ lock = NoOne
    /\ task = [w \in Session |-> NoTask]

Shifts == {"TRANSFER", "BUYOUT", "DILUTE", "HANDOVER"}

Audit(row) ==
    /\ events.n < MaxEvents
    /\ events' = [n |-> events.n + 1, last |-> row,
                  moved |-> IF row.kind \in Shifts THEN row ELSE events.moved]

Turn(w, j) == task' = [task EXCEPT ![w] = j]

Begin(w, j) ==
    /\ task[w].pc = "idle"
    /\ Turn(w, j)
    /\ UNCHANGED <<units, vested, company, sprints, approvals, events, day, lock>>

(* The table when some of its rows are written. *)
Written(rows, table) == [h \in Holder |-> IF h \in DOMAIN rows THEN rows[h] ELSE table[h]]

Active == {h \in Holder : units[h] > 0}

-----------------------------------------------------------------------------
(* Events: TRANSFER, BUYOUT, DILUTE, VEST.                                 *)

Event == [kind : {"TRANSFER", "DILUTE"}, from : Holder, to : Holder, n : Amount]
    \cup [kind : {"BUYOUT"}, from : Holder, to : Holder \cup {NoOne}, n : {0}]
    \cup [kind : {"VEST"}, from : {NoOne}, to : Holder, n : Amount]

Transferred(e) ==
    IF e.n > 0 /\ units[e.from] >= e.n
    THEN {[units EXCEPT ![e.from] = @ - e.n, ![e.to] = @ + e.n]} ELSE {}

BoughtOut(e) ==
    LET rest == Active \ {e.from} IN
    CASE units[e.from] = 0 -> {}
      [] e.to # NoOne -> {[units EXCEPT ![e.from] = 0, ![e.to] = @ + units[e.from]]}
      [] OTHER -> IF rest = {} THEN {}
                  ELSE {[h \in Holder |-> IF h \in rest THEN units[h] + s[h] ELSE 0] :
                        s \in Splits(units[e.from], rest)}

(* Faulty: every holder gives the same. *)
ReducedEqually(S, n) == Splits(n, S)

(* largestRemainderProportional: what each holder of S gives of n. *)
Reductions(S, n) ==
    LET total == SumOf(units, S)
        floor == [h \in S |-> (n * units[h]) \div total]
        frac(h) == (n * units[h]) % total
        First == {e \in kSubset(n - SumOf(floor, S), S) :
                    \A g \in e, h \in S \ e : frac(g) >= frac(h)}
    IN {[h \in S |-> floor[h] + (IF h \in e THEN 1 ELSE 0)] : e \in First}

Diluted(e) ==
    LET rest == Active \ {e.to} IN
    IF e.n > 0 /\ SumOf(units, rest) >= e.n
    THEN {[h \in Holder |-> IF h = e.to THEN units[h] + e.n
                            ELSE IF h \in rest THEN units[h] - r[h] ELSE 0] :
          r \in Reductions(rest, e.n)}
    ELSE {}

(* The tables the event may leave; none when it is refused. *)
Outcome(e) ==
    CASE e.kind = "TRANSFER" -> Transferred(e)
      [] e.kind = "BUYOUT" -> BoughtOut(e)
      [] e.kind = "DILUTE" -> Diluted(e)
      [] e.kind = "VEST" -> IF e.n > 0 THEN {units} ELSE {}

(* Faulty: the second event does not wait for the first. *)
NobodyHolds == TRUE

LockFree == lock = NoOne

(* The rows that change, with the values read or computed under the lock. *)
TakeLock(w, e, seen) ==
    /\ LockFree
    /\ e.kind # "DILUTE" => e.from # e.to
    /\ \E u \in Outcome(e) :
        LET changed == {h \in Holder : u[h] # units[h]}
            sums == IF e.kind = "VEST" THEN seen ELSE <<u[Platform], SumOf(u, Founder)>>
        IN
        /\ SumOf(u, Holder) = Whole
        /\ Turn(w, [pc |-> "write",
                  units |-> [h \in changed |-> u[h]],
                  vested |-> IF e.kind = "VEST"
                             THEN [h \in {e.to} |-> Min({units[h], vested[h] + e.n})]
                             ELSE [h \in {g \in changed : vested[g] > u[g]} |-> u[h]],
                  row |-> Row(e.kind, sums[1], sums[2])])
    /\ lock' = w
    /\ UNCHANGED <<units, vested, company, sprints, approvals, events, day>>

(* recordEvent reads the company before the lock, and an event that moves no equity *)
(* writes the aggregates it read in its audit row.                                   *)
ReadCompany(w, e) ==
    /\ e.kind = "VEST"
    /\ Begin(w, [pc |-> "event", e |-> e, seen |-> <<company.platform, company.founders>>])

RecordEvent(w, e) == task[w].pc = "idle" /\ e.kind # "VEST" /\ TakeLock(w, e, <<>>)

Vest(w) == task[w].pc = "event" /\ TakeLock(w, task[w].e, task[w].seen)

(* Faulty: the aggregates are left to the next event. *)
KeepAggregates(row) == company

SetAggregates(row) ==
    IF row.kind = "VEST" THEN company
    ELSE [company EXCEPT !.platform = row.platform, !.founders = row.founders]

CommitEvent(w) ==
    /\ task[w].pc = "write"
    /\ units' = Written(task[w].units, units)
    /\ vested' = Written(task[w].vested, vested)
    /\ company' = SetAggregates(task[w].row)
    /\ Audit(task[w].row)
    /\ lock' = NoOne
    /\ Turn(w, NoTask)
    /\ UNCHANGED <<sprints, approvals, day>>

-----------------------------------------------------------------------------
(* The timer, the approvals and the handover.                              *)

(* The guards are read here, and the write that follows does not repeat them. *)
ReadTimer(w) ==
    /\ company.start = -1 /\ sprints
    /\ Begin(w, [pc |-> "timer", seen |-> <<company.platform, company.founders>>])

StartTimer(w) ==
    /\ task[w].pc = "timer"
    /\ company' = [company EXCEPT !.start = day, !.status = "ACTIVE"]
    /\ Audit(Row("TIMER", task[w].seen[1], task[w].seen[2]))
    /\ Turn(w, NoTask)
    /\ UNCHANGED <<units, vested, sprints, approvals, day, lock>>

RecordHandoverApproval(role) ==
    /\ company.status # "HANDED_OVER"
    /\ approvals' = approvals \cup {role}
    /\ UNCHANGED <<units, vested, company, sprints, events, day, lock, task>>

Elapsed == day - company.start

Due == company.start >= 0 /\ Elapsed >= Duration

(* processEquityTimers lists the companies that are due, then hands each over. *)
Sweep(w) ==
    /\ company.status = "ACTIVE" /\ Due
    /\ Begin(w, [pc |-> "handover"])

MayHandOver ==
    /\ company.status # "HANDED_OVER"
    /\ company.start >= 0 /\ Elapsed >= Duration
    /\ {"ADMIN", "COFOUNDER"} \subseteq approvals
    /\ Platform \in Active /\ Active \cap Founder # {}

(* For an admin who confirms, nothing comes before the lock. *)
StartHandover(w) ==
    LET heirs == Active \cap Founder IN
    /\ task[w].pc \in {"idle", "handover"}
    /\ LockFree
    /\ MayHandOver
    /\ \E s \in Splits(units[Platform], heirs) :
        LET u == [h \in heirs |-> units[h] + s[h]] IN
        Turn(w, [pc |-> "flip", vested |-> u,
                 units |-> [h \in heirs \cup {Platform} |-> IF h = Platform THEN 0 ELSE u[h]]])
    /\ lock' = w
    /\ UNCHANGED <<units, vested, company, sprints, approvals, events, day>>

ExecuteHandover(w) ==
    LET u == Written(task[w].units, units) IN
    /\ task[w].pc = "flip"
    /\ company.status # "HANDED_OVER"
    /\ SumOf(u, Holder) = Whole
    /\ units' = u
    /\ vested' = Written(task[w].vested, vested)
    /\ company' = [company EXCEPT !.status = "HANDED_OVER", !.platform = 0, !.founders = Whole]
    /\ Audit(Row("HANDOVER", 0, Whole))
    /\ lock' = NoOne
    /\ Turn(w, NoTask)
    /\ UNCHANGED <<sprints, approvals, day>>

(* updateCompany: the status an admin sends is written as it is. *)
UpdateCompany(status) ==
    /\ company' = [company EXCEPT !.status = status]
    /\ UNCHANGED <<units, vested, sprints, approvals, events, day, lock, task>>

-----------------------------------------------------------------------------
(* Vesting: read at first, written later, both without the lock.           *)

(* Math.round of the share of months elapsed. *)
VestedAt(h, days) ==
    LET months == days \div Month
        all == (Duration + Month - 1) \div Month
    IN IF days < Cliff THEN 0
       ELSE IF months >= all THEN units[h]
       ELSE (2 * units[h] * months + all) \div (2 * all)

ReadVesting(w) ==
    LET days == IF company.start < 0 THEN 0 ELSE Elapsed
        now == [h \in Active |-> IF h = Platform THEN units[h] ELSE VestedAt(h, days)]
    IN Begin(w, [pc |-> "vest", vested |-> [h \in {g \in Active : now[g] # vested[g]} |-> now[h]]])

ComputeVesting(w) ==
    /\ task[w].pc = "vest"
    /\ vested' = Written(task[w].vested, vested)
    /\ Turn(w, NoTask)
    /\ UNCHANGED <<units, company, sprints, approvals, events, day, lock>>

ReadHolder(w, h, n) ==
    /\ n <= units[h]
    /\ Begin(w, [pc |-> "override", vested |-> [g \in {h} |-> n],
                 row |-> Row("VEST", company.platform, company.founders)])

SetHolderVesting(w) ==
    /\ task[w].pc = "override"
    /\ vested' = Written(task[w].vested, vested)
    /\ Audit(task[w].row)
    /\ Turn(w, NoTask)
    /\ UNCHANGED <<units, company, sprints, approvals, day, lock>>

-----------------------------------------------------------------------------

(* What a request does not survive: its transaction leaves no trace. *)
Release(w) ==
    /\ lock' = IF lock = w THEN NoOne ELSE lock
    /\ Turn(w, NoTask)
    /\ UNCHANGED <<units, vested, company, sprints, approvals, events, day>>

(* A guard under the lock refuses. *)
Refuse(w) ==
    /\ \/ task[w].pc = "handover" /\ LockFree /\ ~MayHandOver
       \/ task[w].pc = "flip" /\ company.status = "HANDED_OVER"
    /\ Release(w)

(* The database or the node fails. *)
Fail(w) == task[w].pc # "idle" /\ Release(w)

CompleteSprints ==
    /\ ~sprints
    /\ sprints' = TRUE
    /\ UNCHANGED <<units, vested, company, approvals, events, day, lock, task>>

Tick ==
    /\ day < MaxDay
    /\ day' = day + 1
    /\ UNCHANGED <<units, vested, company, sprints, approvals, events, lock, task>>

Step(w) ==
    \/ Vest(w) \/ CommitEvent(w)
    \/ StartTimer(w)
    \/ StartHandover(w) \/ ExecuteHandover(w)
    \/ ComputeVesting(w) \/ SetHolderVesting(w)
    \/ Refuse(w)

EquityNext ==
    \/ \E w \in Session :
        \/ \E e \in Event : ReadCompany(w, e) \/ RecordEvent(w, e)
        \/ ReadTimer(w)
        \/ Sweep(w)
        \/ ReadVesting(w)
        \/ \E h \in Holder, n \in Amount : ReadHolder(w, h, n)
        \/ Step(w)
        \/ Fail(w)
    \/ \E role \in {"ADMIN", "COFOUNDER"} : RecordHandoverApproval(role)
    \/ \E status \in AdminStatus : UpdateCompany(status)
    \/ CompleteSprints
    \/ Tick

EquitySpec == EquityInit /\ [][EquityNext]_equityVars

(* A session that began goes on; the cron fires every day, and its transaction does *)
(* not fail every day.                                                              *)
FairEquitySpec ==
    /\ EquitySpec
    /\ \A w \in Session :
        /\ WF_equityVars(Step(w))
        /\ SF_equityVars(Sweep(w))
        /\ SF_equityVars(StartHandover(w)) /\ SF_equityVars(ExecuteHandover(w))

-----------------------------------------------------------------------------
(* Properties.                                                             *)

(* Concurrent events and handovers lose no update: nobody holds a negative stake, and *)
(* the stakes make up the whole company.                                               *)
TableSums == units \in [Holder -> Nat] /\ SumOf(units, Holder) = Whole

(* The company's aggregates, the last audit row of an event that moved equity, and *)
(* the sums over the holders agree, however events and handovers interleave.       *)
AuditExplainsTable ==
    /\ company.platform = units[Platform] /\ company.founders = SumOf(units, Founder)
    /\ events.moved.platform = company.platform /\ events.moved.founders = company.founders

(* A dilution takes less than a unit more or less than its part from every holder, *)
(* and never more than the holder has.                                             *)
DilutionIsFair ==
    [][\A w \in Session :
        (task'[w].pc = "write" /\ task'[w].row.kind = "DILUTE") =>
            LET after == Written(task'[w].units, units)
                to == CHOOSE h \in Holder : after[h] > units[h]
                n == after[to] - units[to]
                rest == Active \ {to}
                total == SumOf(units, rest)
                given(h) == units[h] - after[h]
            IN task[w].pc = "write" \/ \A h \in rest :
                /\ given(h) \in 0..units[h]
                /\ given(h) * total - n * units[h] \in (1 - total)..(total - 1)]_equityVars

(* A company that is due, approved and in activity is handed over, whatever attempts *)
(* fail, unless an admin stops it or the platform has nothing left.                   *)
HandoverHappens ==
    (Due /\ MayHandOver /\ company.status = "ACTIVE" /\ events.n < MaxEvents)
        ~> (company.status # "ACTIVE" \/ Platform \notin Active \/ events.n = MaxEvents)

(* "vestedPct can never exceed equityPct." *)
VestedWithin == \A h \in Holder : vested[h] <= units[h]

(* "Timer already started": a timer that runs is not started again. *)
TimerStartsOnce == [][company.start >= 0 => company'.start = company.start]_equityVars

(* "Full vesting over 1000 days": what has vested stays vested in a holder's equity *)
(* after the handover gave it in full.                                               *)
HandoverVestsInFull ==
    [][company.status = "HANDED_OVER" =>
        \A h \in Founder : vested'[h] < vested[h] => units'[h] < units[h]]_equityVars

(* platformEquityAfter and foundersEquityAfter: what an event leaves is in its row. *)
AuditIsOfItsTime ==
    [][events' # events =>
        /\ events'.last.platform = company'.platform
        /\ events'.last.founders = company'.founders]_equityVars

=============================================================================
