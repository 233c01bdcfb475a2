------------------------------- MODULE Cohort --------------------------------
(***************************************************************************)
(* Batches of applicants: sign-up (ApplicantService, AuthService), the       *)
(* capacity check that closes a full batch and opens the next, the           *)
(* screening, the removals, and the cascade of BatchProcessor that fills the *)
(* seats they free from the next batch.                                      *)
(*                                                                          *)
(* A session is a request or a job of batch-queue.  What it read before its  *)
(* transaction is in its record; a transaction is one step, but for the      *)
(* flip of a full batch, which counts under aryavartham_batch_create what    *)
(* removals change without that lock.                                        *)
(*                                                                          *)
(* Abstractions: every batch has Capacity seats; DECIDED is every status but  *)
(* PENDING and REMOVED, which no guard tells apart; the oldest applicants are *)
(* any; auto_batch_enabled and the eligibility criteria may say anything at  *)
(* any time; a failed enqueue, an exhausted job and a full queue are one.    *)
(***************************************************************************)
EXTENDS Integers, Sequences, FiniteSets, Bags

CONSTANTS
    Person, Session, NoOne,
    Capacity,                    \* 100 seats
    Attempts,                    \* of a job of batch-queue: 3
    LastPhase,                   \* the last phase of a batch that is reached: 7
    MaxBatch, MaxManual, MaxJobs \* bounds on batches, createBatch, queued jobs

ASSUME CohortAssumption ==
    /\ NoOne \notin Session /\ IsFiniteSet(Person)
    /\ {Capacity, Attempts, MaxJobs} \subseteq Nat \ {0}
    /\ {MaxBatch, MaxManual} \subseteq Nat /\ LastPhase \in 1..7

VARIABLES
    batch,      \* by batchNumber: status and currentCount
    manual,     \* the batches an admin created
    who,        \* Person -> status ("NONE": no account) and batch
    queue,      \* the bag of the jobs of batch-queue
    lock,       \* the session that holds aryavartham_batch_create
    job,        \* Session -> what it does
    drift       \* what the counters are known not to count

vars == <<batch, manual, who, queue, lock, job, drift>>

Phases == <<"FILLING", "SCREENING", "TEAM_FORMATION", "PROCESSING",
            "PENDING_CONSENT", "FINALIZED", "PRODUCTION">>

Batches == DOMAIN batch
Filling == {b \in Batches : batch[b].status = "FILLING"}
Live(b) == {p \in Person : who[p].batch = b /\ who[p].status \notin {"NONE", "REMOVED"}}

Nobody == [status |-> "NONE", batch |-> 0]

NoJob == [kind |-> "none", batch |-> 0, n |-> 0, left |-> 0]

Idle == [pc |-> "idle", p |-> NoOne, via |-> "none", batch |-> 0, to |-> "none", set |-> {},
         closed |-> FALSE, was |-> Nobody, of |-> NoJob]

Init ==
    /\ batch = <<>> /\ manual = {}
    /\ who = [p \in Person |-> Nobody]
    /\ queue = EmptyBag
    /\ lock = NoOne
    /\ job = [w \in Session |-> Idle]
    /\ drift = {}

Go(w, j) == job' = [job EXCEPT ![w] = j]

Begin(w, j) ==
    /\ job[w].pc = "idle"
    /\ Go(w, j)
    /\ UNCHANGED <<batch, manual, who, queue, lock, drift>>

Count(b, n) == batch' = [batch EXCEPT ![b].count = @ + n]

(* BackfillService: the job is queued, or the queue is down. *)
Enqueue(j) ==
    \/ queue' = queue
    \/ BagCardinality(queue) < MaxJobs /\ queue' = queue (+) SetToBag({j})

Check == [kind |-> "check", batch |-> 0, n |-> 0, left |-> Attempts]
Backfill(b, n) == [kind |-> "backfill", batch |-> b, n |-> n, left |-> Attempts]

NewBatch == [status |-> "FILLING", count |-> 0]

-----------------------------------------------------------------------------
(* Sign-up.  via is "apply" for the form, "otp" for a first login.         *)

First(S) == {b \in S : \A c \in S : b <= c}

ReadFilling(w, p, via) ==
    /\ who[p].status = "NONE"
    /\ \/ Filling = {} /\ Begin(w, [Idle EXCEPT !.pc = "mint", !.p = p, !.via = via])
       \/ \E b \in First(Filling) :
            Begin(w, [Idle EXCEPT !.pc = "join", !.p = p, !.via = via, !.batch = b])

(* Faulty: what was read before the lock is not read again. *)
MintAnyway == {}

OpenUnderLock == Filling

Mint(w) ==
    LET open == OpenUnderLock
        join(b) == Go(w, [job[w] EXCEPT !.pc = "join", !.batch = b])
    IN
    /\ job[w].pc = "mint" /\ lock = NoOne
    /\ \/ \E b \in First(open) : join(b) /\ UNCHANGED batch
       \/ /\ open = {} /\ Len(batch) < MaxBatch
          /\ batch' = Append(batch, NewBatch)
          /\ join(Len(batch) + 1)
    /\ UNCHANGED <<manual, who, queue, lock, drift>>

(* The batch that was read takes the applicant, whatever became of it. *)
Join(w) ==
    LET j == job[w] IN
    /\ j.pc = "join"
    /\ who[j.p].status = "NONE"
    /\ who' = [who EXCEPT ![j.p] = [status |-> "PENDING", batch |-> j.batch]]
    /\ IF j.via = "apply" THEN Count(j.batch, 1) /\ Enqueue(Check) /\ drift' = drift
       ELSE drift' = drift \cup {"otp"} /\ UNCHANGED <<batch, queue>>
    /\ Go(w, Idle)
    /\ UNCHANGED <<manual, lock>>

-----------------------------------------------------------------------------
(* The life of a batch.                                                    *)

CreateBatch ==
    /\ Len(batch) < MaxBatch /\ Cardinality(manual) < MaxManual
    /\ batch' = Append(batch, NewBatch)
    /\ manual' = manual \cup {Len(batch) + 1}
    /\ UNCHANGED <<who, queue, lock, job, drift>>

ReadStatus(w, b) ==
    \E i \in 1..(LastPhase - 1) :
        /\ batch[b].status = Phases[i]
        /\ Begin(w, [Idle EXCEPT !.pc = "transition", !.batch = b, !.to = Phases[i + 1]])

(* The write does not repeat the guard. *)
TransitionStatus(w) ==
    /\ job[w].pc = "transition"
    /\ batch' = [batch EXCEPT ![job[w].batch].status = job[w].to]
    /\ Go(w, Idle)
    /\ UNCHANGED <<manual, who, queue, lock, drift>>

Full(b) == Cardinality(Live(b)) >= Capacity

(* A job that is taken from the queue is run again when its run fails. *)
Take(w, j, pc, b, set) ==
    /\ job[w].pc = "idle" /\ BagIn(j, queue)
    /\ queue' = queue (-) SetToBag({j})
    /\ Go(w, [Idle EXCEPT !.pc = pc, !.batch = b, !.set = set, !.of = j])
    /\ UNCHANGED <<batch, manual, who, lock, drift>>

(* checkAndCreateBatch looks at any filling batch. *)
CheckCapacity(w, j, b) ==
    j.kind = "check" /\ b \in Filling /\ Full(b) /\ Take(w, j, "recount", b, {})

Recount(w) ==
    /\ job[w].pc = "recount" /\ lock = NoOne /\ Full(job[w].batch)
    /\ lock' = w
    /\ Go(w, [job[w] EXCEPT !.pc = "flip"])
    /\ UNCHANGED <<batch, manual, who, queue, drift>>

(* Faulty: the batch is flipped whether or not it was flipped before. *)
AnyPhase(b) == TRUE

StillFilling(b) == b \in Filling

FlipFull(w) ==
    LET b == job[w].batch IN
    /\ job[w].pc = "flip"
    /\ lock' = NoOne
    /\ IF StillFilling(b)
       THEN /\ batch' = [batch EXCEPT ![b].status = "SCREENING"]
            /\ Go(w, [job[w] EXCEPT !.pc = "next"])
       ELSE Go(w, Idle) /\ UNCHANGED batch
    /\ UNCHANGED <<manual, who, queue, drift>>

(* Faulty: the next batch is made without a look at the others. *)
NextAnyway(b) == TRUE

NoneAfter(b) == Len(batch) = b

MakeNext(w) ==
    /\ job[w].pc = "next" /\ lock = NoOne
    /\ IF NoneAfter(job[w].batch)
       THEN Len(batch) < MaxBatch /\ batch' = Append(batch, NewBatch)
       ELSE UNCHANGED batch
    /\ Go(w, [job[w] EXCEPT !.pc = "screen"])
    /\ UNCHANGED <<manual, who, queue, lock, drift>>

Pending(b) == {p \in Live(b) : who[p].status = "PENDING"}

(* screenBatch, by the job that closed the batch or by an admin. *)
ReadPending(w, b) ==
    /\ job[w].pc = "idle" \/ (job[w].pc = "screen" /\ job[w].batch = b)
    /\ Pending(b) # {}
    /\ Go(w, [job[w] EXCEPT !.pc = "verdict", !.set = Pending(b)])
    /\ UNCHANGED <<batch, manual, who, queue, lock, drift>>

(* The updates name the applicants that were read and nothing else. *)
ScreenBatch(w) ==
    LET set == {p \in job[w].set : who[p].status # "NONE"} IN
    /\ job[w].pc = "verdict"
    /\ who' = [p \in Person |-> IF p \in set THEN [who[p] EXCEPT !.status = "DECIDED"] ELSE who[p]]
    /\ drift' = IF \E p \in set : who[p].status = "REMOVED" THEN drift \cup {"revived"} ELSE drift
    /\ Go(w, Idle)
    /\ UNCHANGED <<batch, manual, queue, lock>>

-----------------------------------------------------------------------------
(* Removals.                                                               *)

ReadMember(w, p) ==
    /\ who[p].status # "NONE"
    /\ Begin(w, [Idle EXCEPT !.pc = "remove", !.p = p, !.batch = who[p].batch,
                             !.closed = who[p].batch \notin Filling])

(* Faulty: the second of two removals counts as well. *)
AnyStatus(p) == who[p].status # "NONE"

StillIn(p) == who[p].status \notin {"NONE", "REMOVED"}

(* The batch is the one read before the transaction. *)
RemoveApplicant(w) ==
    LET j == job[w] IN
    /\ j.pc = "remove"
    /\ IF StillIn(j.p)
       THEN /\ who' = [who EXCEPT ![j.p].status = "REMOVED"]
            /\ Count(j.batch, -1)
            /\ IF j.closed THEN Enqueue(Backfill(j.batch, 1)) ELSE queue' = queue
            /\ drift' = IF who[j.p].batch = j.batch THEN drift ELSE drift \cup {"moved"}
       ELSE UNCHANGED <<who, batch, queue, drift>>
    /\ Go(w, Idle)
    /\ UNCHANGED <<manual, lock>>

(* updateApplicantStatus to anything but REMOVED, and the payment webhook, write the *)
(* status whatever it was.                                                            *)
SetStatus(p, status) ==
    /\ who[p].status # "NONE"
    /\ who' = [who EXCEPT ![p].status = status]
    /\ drift' = IF who[p].status = "REMOVED" THEN drift \cup {"revived"} ELSE drift
    /\ UNCHANGED <<batch, manual, queue, lock, job>>

ReadDeleted(w, p) ==
    /\ who[p].status # "NONE"
    /\ Begin(w, [Idle EXCEPT !.pc = "delete", !.p = p, !.was = who[p]])

HardDelete(w) ==
    LET j == job[w] IN
    /\ j.pc = "delete" /\ who[j.p].status # "NONE"
    /\ who' = [who EXCEPT ![j.p] = Nobody]
    /\ IF j.was.status # "REMOVED" THEN Count(j.was.batch, -1) ELSE batch' = batch
    /\ drift' = IF /\ who[j.p].batch = j.was.batch
                   /\ (who[j.p].status = "REMOVED") = (j.was.status = "REMOVED")
                THEN drift ELSE drift \cup {"delete"}
    /\ Go(w, Idle)
    /\ UNCHANGED <<manual, queue, lock>>

ReadNonResponders(w, b, silent) ==
    /\ silent # {} /\ silent \subseteq Live(b)
    /\ Begin(w, [Idle EXCEPT !.pc = "purge", !.batch = b, !.set = silent])

RemoveNonResponders(w) ==
    LET b == job[w].batch
        set == job[w].set
        n == Cardinality(set)
    IN
    /\ job[w].pc = "purge"
    /\ who' = [p \in Person |-> IF p \in set /\ who[p].status # "NONE"
                                THEN [who[p] EXCEPT !.status = "REMOVED"] ELSE who[p]]
    /\ Count(b, -n)
    /\ Enqueue(Backfill(b, n))
    /\ drift' = IF set \subseteq Live(b) THEN drift ELSE drift \cup {"purge"}
    /\ Go(w, Idle)
    /\ UNCHANGED <<manual, lock>>

(* A rejected interview: the seat is to be filled, but the counter does not know. *)
RecordDecision(p) ==
    /\ who[p].status # "NONE"
    /\ who' = [who EXCEPT ![p].status = "REMOVED"]
    /\ drift' = IF StillIn(p) THEN drift \cup {"interview"} ELSE drift
    /\ Enqueue(Backfill(who[p].batch, 1))
    /\ UNCHANGED <<batch, manual, lock, job>>

Least(m, n) == IF m < n THEN m ELSE n

StillMembers(members) == {p \in members : StillIn(p)}

(* removeTeam, of a team of batch b: the seats are not refilled.  formTeams, whose writes *)
(* are those of SetStatus and TransitionStatus, leaves the batch PROCESSING.  A member has *)
(* strayed when an approval put him in the team after a cascade took him elsewhere.        *)
RemoveTeam(b, members) ==
    LET S == StillMembers(members)
        n == Least(Cardinality(S), batch[b].count)
    IN
    /\ b \notin Filling /\ S # {}
    /\ who' = [p \in Person |-> IF p \in S THEN [who[p] EXCEPT !.status = "REMOVED"] ELSE who[p]]
    /\ IF n > 0 THEN Count(b, -n) ELSE batch' = batch
    /\ drift' = IF S \subseteq Live(b) THEN drift ELSE drift \cup {"strayed"}
    /\ UNCHANGED <<manual, queue, lock, job>>

-----------------------------------------------------------------------------
(* The cascade.                                                            *)

(* What the cascade would move: as many as were removed, as there are seats, and as *)
(* the next batch has.                                                               *)
Candidates(j) ==
    LET next == j.batch + 1
        free == Capacity - Cardinality(Live(j.batch))
        n == Least(Least(j.n, free), Cardinality(Live(next)))
    IN IF n <= 0 THEN {} ELSE {S \in SUBSET Live(next) : Cardinality(S) = n}

StartBackfill(w, j) ==
    /\ j.kind = "backfill"
    /\ \E S \in Candidates(j) : Take(w, j, "move", j.batch, S)

(* Faulty: whoever was a candidate is moved, wherever he is by now. *)
Anywhere(p, next) == who[p].status # "NONE"

StillThere(p, next) == p \in Live(next)

Shift(c, b) == batch' = [batch EXCEPT ![b].count = batch[b].count + 1,
                                      ![c].count = batch[c].count - 1]

MoveOne(w, p) ==
    LET b == job[w].batch
        rest == job[w].set \ {p}
    IN
    /\ job[w].pc = "move" /\ p \in job[w].set
    /\ IF StillThere(p, b + 1)
       THEN /\ who' = [who EXCEPT ![p] = [status |-> "DECIDED", batch |-> b]]
            /\ Shift(b + 1, b)
       ELSE UNCHANGED <<who, batch>>
    /\ Go(w, IF rest = {} THEN Idle ELSE [job[w] EXCEPT !.set = rest])
    /\ UNCHANGED <<manual, queue, lock, drift>>

(* A job that finds nothing to do is done. *)
FindNothing(w, j) ==
    /\ job[w].pc = "idle" /\ BagIn(j, queue)
    /\ CASE j.kind = "check" -> Filling = {} \/ \E b \in Filling : ~Full(b)
         [] j.kind = "backfill" -> Candidates(j) = {}
    /\ queue' = queue (-) SetToBag({j})
    /\ UNCHANGED <<batch, manual, who, lock, job, drift>>

-----------------------------------------------------------------------------

Release(w) ==
    /\ lock' = IF lock = w THEN NoOne ELSE lock
    /\ Go(w, Idle)
    /\ UNCHANGED <<batch, manual, who, drift>>

(* The batch is not full under the lock; nobody is left to screen; the e-mail is *)
(* taken; the applicant is gone.                                                  *)
Refuse(w) ==
    /\ \/ job[w].pc = "recount" /\ lock = NoOne /\ ~Full(job[w].batch)
       \/ job[w].pc = "screen" /\ Pending(job[w].batch) = {}
       \/ job[w].pc = "join" /\ who[job[w].p].status # "NONE"
       \/ job[w].pc = "delete" /\ who[job[w].p].status = "NONE"
    /\ Release(w)
    /\ UNCHANGED queue

(* The process or its transaction fails; a job goes back while it has attempts left. *)
Fail(w) ==
    /\ job[w].pc # "idle"
    /\ Release(w)
    /\ queue' = IF job[w].of.left > 1
                THEN queue (+) SetToBag({[job[w].of EXCEPT !.left = @ - 1]})
                ELSE queue

Step(w) ==
    \/ Mint(w) \/ Join(w)
    \/ TransitionStatus(w)
    \/ Recount(w) \/ FlipFull(w) \/ MakeNext(w) \/ ScreenBatch(w)
    \/ RemoveApplicant(w) \/ HardDelete(w) \/ RemoveNonResponders(w)
    \/ \E p \in Person : MoveOne(w, p)
    \/ Refuse(w)

Next ==
    \/ CreateBatch
    \/ \E p \in Person, status \in {"PENDING", "DECIDED"} : SetStatus(p, status)
    \/ \E p \in Person : RecordDecision(p)
    \/ \E b \in Batches, S \in SUBSET Person : RemoveTeam(b, S)
    \/ \E w \in Session :
        \/ \E p \in Person :
            \/ \E via \in {"apply", "otp"} : ReadFilling(w, p, via)
            \/ ReadMember(w, p) \/ ReadDeleted(w, p)
        \/ \E b \in Batches :
            \/ ReadStatus(w, b)
            \/ ReadPending(w, b)
            \/ \E S \in SUBSET Person : ReadNonResponders(w, b, S)
        \/ \E j \in BagToSet(queue) :
            \/ \E b \in Filling : CheckCapacity(w, j, b)
            \/ StartBackfill(w, j)
            \/ FindNothing(w, j)
        \/ Step(w) \/ Fail(w)

Spec == Init /\ [][Next]_vars

-----------------------------------------------------------------------------
(* Properties.                                                             *)

(* One batch is open at a time, however sign-ups and capacity checks race to open it, *)
(* but for those an admin opened.                                                      *)
OneFilling == Cardinality(Filling) <= 1 + Cardinality(manual)

(* "Exactly one transaction can see status=FILLING and flip it": the notifications, the *)
(* next batch and the screening that follow a flip are not run twice at once.           *)
FilledOnce ==
    \A w1, w2 \in Session :
        /\ {job[w1].pc, job[w2].pc} \subseteq {"next", "screen"}
        /\ job[w1].batch = job[w2].batch
        => w1 = w2

(* currentCount is the number of the batch's applicants who were not removed, through *)
(* every race of sign-ups, removals, retried cascades and moves; what is known to     *)
(* break it is in drift.                                                               *)
CountersAddUp == drift = {} => \A b \in Batches : batch[b].count = Cardinality(Live(b))

(* "a concurrent removal ... can't push a no-longer-full batch into SCREENING". *)
FlippedWasFull ==
    [][\A w \in Session, b \in Batches :
        (job[w].pc = "flip" /\ batch[b].status = "FILLING" /\ batch'[b].status = "SCREENING"
            /\ job'[w].pc = "next") => Full(b)]_vars

(* "Every batch ships as a team of exactly 100". *)
CohortSize == \A b \in Batches : Cardinality(Live(b)) <= Capacity

(* The transitions of transitionStatus: from one phase to the next. *)
PhasesInOrder ==
    [][\A b \in Batches :
        batch'[b].status # batch[b].status =>
            \E i \in 1..(Len(Phases) - 1) :
                batch[b].status = Phases[i] /\ batch'[b].status = Phases[i + 1]]_vars

(* Screening is of the PENDING: it brings no removed applicant back. *)
ScreeningSparesRemoved ==
    [][\A w \in Session, p \in Person :
        (job[w].pc = "verdict" /\ job'[w].pc = "idle" /\ who[p].status = "REMOVED") =>
            who'[p].status = "REMOVED"]_vars

(* Two jobs that refill seats of a batch take two applicants. *)
SeatsRefilled ==
    \A w1, w2 \in Session : (w1 # w2 /\ job[w1].pc = "move" /\ job[w2].pc = "move") =>
        (job[w1].set \cap job[w2].set = {})

=============================================================================
