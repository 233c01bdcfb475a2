---------------------------- MODULE CohortProofs ----------------------------
(***************************************************************************)
(* What is proved of Cohort, for any people, sessions, capacity and number  *)
(* of attempts, batches and jobs: one batch is open at a time but for those *)
(* an admin opened, a full batch is followed up once, and the counters add  *)
(* up as long as nothing known to break them has happened.                  *)
(***************************************************************************)
EXTENDS Cohort, FiniteSetTheorems, TLAPS

-----------------------------------------------------------------------------
(* The inductive invariant.                                                *)

Status == {"FILLING", "SCREENING", "TEAM_FORMATION", "PROCESSING", "PENDING_CONSENT",
           "FINALIZED", "PRODUCTION"}

Row == [status : Status, count : Int]

Account == [status : {"NONE", "PENDING", "DECIDED", "REMOVED"}, batch : Nat]

QueuedJob == [kind : {"none", "check", "backfill"}, batch : Nat, n : Int, left : Int]

Pc == {"idle", "mint", "join", "transition", "recount", "flip", "next", "screen", "verdict",
       "remove", "delete", "purge", "move"}

Job == [pc : Pc, p : Person \cup {NoOne}, via : {"none", "apply", "otp"}, batch : Nat,
        to : Status \cup {"none"},
        set : SUBSET Person, closed : BOOLEAN, was : Account, of : QueuedJob]

Typed ==
    /\ batch \in Seq(Row)
    /\ manual \subseteq Batches
    /\ who \in [Person -> Account]
    /\ \A p \in Person : who[p].status # "NONE" => who[p].batch \in Batches
    /\ DOMAIN job = Session

(* The jobs that refill a batch are about one of those in B. *)
Queued(B, j) ==
    /\ j \in QueuedJob
    /\ j.kind = "backfill" => j.batch \in DOMAIN B

JobsKnown == \A j \in BagToSet(queue) : Queued(batch, j)

(* What a session has in hand exists, and nobody writes FILLING over another status: a batch *)
(* that is followed up stays closed.                                                          *)
Sound(B, j) ==
    /\ j \in Job
    /\ j.pc \in {"join", "transition", "recount", "flip", "next", "screen", "remove", "purge", "move"} =>
            j.batch \in DOMAIN B
    /\ j.pc = "transition" => j.to \in Status \ {"FILLING"}
    /\ j.pc \in {"next", "screen"} => B[j.batch].status # "FILLING"
    /\ j.pc \in {"mint", "join", "remove", "delete"} => j.p \in Person
    /\ j.pc = "delete" => j.was.batch \in DOMAIN B
    /\ Queued(B, j.of)

SessionsSound == \A w \in Session : Sound(batch, job[w])

(* The follow-up of the last batch is about to open the next one. *)
Opening == \E w \in Session : job[w].pc = "next" /\ job[w].batch = Len(batch)

(* Who is about to open a batch has closed one. *)
OpenOrOpening == Cardinality(Filling) + (IF Opening THEN 1 ELSE 0) <= 1 + Cardinality(manual)

IInv == Typed /\ JobsKnown /\ SessionsSound /\ FilledOnce /\ OpenOrOpening

-----------------------------------------------------------------------------
(* Sets of batches and of people are finite. *)

LEMMA BagOps ==
    ASSUME NEW j
    PROVE  /\ BagToSet(queue (+) SetToBag({j})) = BagToSet(queue) \cup {j}
           /\ BagToSet(queue (-) SetToBag({j})) \subseteq BagToSet(queue)
BY DEF BagToSet, SetToBag, (+), (-)

LEMMA FiniteBatches ==
    ASSUME Typed
    PROVE  /\ Batches = 1 .. Len(batch) /\ Len(batch) \in Nat
           /\ IsFiniteSet(Batches) /\ IsFiniteSet(Filling) /\ IsFiniteSet(manual)
           /\ Cardinality(Filling) \in Nat /\ Cardinality(manual) \in Nat
<1>1. Batches = 1 .. Len(batch) /\ Len(batch) \in Nat
  BY DEF Typed, Batches
<1>2. IsFiniteSet(Batches)
  BY <1>1, FS_Interval
<1>3. IsFiniteSet(Filling) /\ IsFiniteSet(manual)
  BY <1>2, FS_Subset DEF Filling, Typed
<1> QED
  BY <1>1, <1>2, <1>3, FS_CardinalityType

LEMMA FiniteLive ==
    ASSUME NEW b
    PROVE  /\ IsFiniteSet(Live(b)) /\ Cardinality(Live(b)) \in Nat
           /\ Live(b) \subseteq Person
<1>1. Live(b) \subseteq Person
  BY DEF Live
<1> QED
  BY <1>1, CohortAssumption, FS_Subset, FS_CardinalityType

-----------------------------------------------------------------------------
(* Steps of a session. *)

LEMMA SoundStays ==
    ASSUME NEW j, Sound(batch, j), Batches \subseteq Batches',
           \A b \in Batches : batch'[b].status = "FILLING" => batch[b].status = "FILLING"
    PROVE  Sound(batch', j)
<1>1. DOMAIN batch \subseteq DOMAIN batch'
  BY DEF Batches
<1> QED
  BY <1>1 DEF Sound, Queued, Batches

(* The sessions after a step of one of them in which no batch is lost or opened again. *)
LEMMA SessionStep ==
    ASSUME IInv, NEW w \in Session, NEW j, Go(w, j), Sound(batch', j),
           Batches \subseteq Batches',
           \A b \in Batches : batch'[b].status = "FILLING" => batch[b].status = "FILLING"
    PROVE  SessionsSound' /\ DOMAIN job' = Session
<1>1. DOMAIN job = Session /\ job' = [job EXCEPT ![w] = j]
  BY DEF IInv, Typed, Go
<1>2. job'[w] = j /\ \A v \in Session : v # w => job'[v] = job[v]
  BY <1>1
<1>3. ASSUME NEW v \in Session, v # w PROVE Sound(batch', job'[v])
  <2>1. Sound(batch, job[v])
    BY DEF IInv, SessionsSound
  <2> QED
    BY <1>2, <1>3, <2>1, SoundStays
<1> QED
  BY <1>1, <1>2, <1>3 DEF SessionsSound

(* A step of a session that opens no batch and does not follow one up. *)
LEMMA QuietStep ==
    ASSUME IInv, NEW w \in Session, NEW j, Go(w, j), Sound(batch', j), j.pc \notin {"next", "screen"},
           Batches' = Batches, Len(batch') = Len(batch), UNCHANGED manual,
           \A b \in Batches : batch'[b].status = "FILLING" => batch[b].status = "FILLING"
    PROVE  SessionsSound' /\ DOMAIN job' = Session /\ FilledOnce' /\ OpenOrOpening'
<1>1. SessionsSound' /\ DOMAIN job' = Session
  BY SessionStep
<1>2. job'[w] = j /\ \A v \in Session : v # w => job'[v] = job[v]
  BY DEF IInv, Typed, Go
<1>3. FilledOnce'
  BY <1>2 DEF IInv, FilledOnce
<1>4. Opening' => Opening
  BY <1>2 DEF Opening
<1>5. Filling' \subseteq Filling
  BY DEF Filling
<1>6. Cardinality(Filling') <= Cardinality(Filling) /\ IsFiniteSet(Filling')
  BY <1>5, FiniteBatches, FS_Subset DEF IInv
<1>7. Cardinality(Filling') \in Nat /\ Cardinality(Filling) \in Nat /\ Cardinality(manual) \in Nat
  BY <1>6, FiniteBatches, FS_CardinalityType DEF IInv
<1>8. OpenOrOpening'
  BY <1>4, <1>6, <1>7 DEF IInv, OpenOrOpening
<1> QED
  BY <1>1, <1>3, <1>8

(* A step of a session that may write the tables but opens no batch and follows none up. *)
LEMMA TableStep ==
    ASSUME IInv, NEW w \in Session, NEW j, Go(w, j), Sound(batch', j), j.pc \notin {"next", "screen"},
           batch' \in Seq(Row), Len(batch') = Len(batch), UNCHANGED manual,
           \A b \in Batches : batch'[b].status = "FILLING" => batch[b].status = "FILLING",
           who' \in [Person -> Account],
           \A p \in Person : who'[p].status # "NONE" => who'[p].batch \in Batches,
           JobsKnown'
    PROVE  IInv'
<1>1. Batches' = Batches
  BY DEF IInv, Typed, Batches
<1>2. SessionsSound' /\ DOMAIN job' = Session /\ FilledOnce' /\ OpenOrOpening'
  BY <1>1, QuietStep
<1>3. Typed'
  BY <1>1, <1>2 DEF IInv, Typed
<1> QED
  BY <1>2, <1>3 DEF IInv

(* A step that writes no table. *)
LEMMA OnlySession ==
    ASSUME IInv, NEW w \in Session, NEW j, Go(w, j), Sound(batch, j), j.pc \notin {"next", "screen"},
           UNCHANGED <<batch, manual, who>>, JobsKnown'
    PROVE  IInv'
BY TableStep DEF IInv, Typed

LEMMA IdleSound == (\A B : Sound(B, Idle)) /\ Idle.pc = "idle"
<1>1. /\ Idle.pc = "idle" /\ Idle.of = NoJob /\ Idle.was = Nobody /\ Idle.p = NoOne
      /\ Idle.via = "none" /\ Idle.batch = 0 /\ Idle.to = "none" /\ Idle.set = {}
      /\ Idle.closed = FALSE
  BY DEF Idle
<1>2. NoJob \in QueuedJob /\ NoJob.kind = "none" /\ Nobody \in Account
  BY DEF NoJob, QueuedJob, Nobody, Account
<1>3. Idle \in Job
  BY <1>2 DEF Idle, Job, Pc
<1> QED
  BY <1>1, <1>2, <1>3 DEF Sound, Queued

(* The queue after a step. *)
LEMMA QueueKept ==
    ASSUME JobsKnown, Batches \subseteq Batches', BagToSet(queue') \subseteq BagToSet(queue)
    PROVE  JobsKnown'
BY DEF JobsKnown, Queued, Batches

LEMMA QueueGrows ==
    ASSUME JobsKnown, Batches \subseteq Batches', NEW j, Queued(batch', j),
           queue' = queue (+) SetToBag({j})
    PROVE  JobsKnown'
<1>1. BagToSet(queue') = BagToSet(queue) \cup {j}
  BY BagOps
<1>2. \A i \in BagToSet(queue) : Queued(batch', i)
  BY DEF JobsKnown, Queued, Batches
<1> QED
  BY <1>1, <1>2 DEF JobsKnown

LEMMA EnqueueKept ==
    ASSUME JobsKnown, Batches \subseteq Batches', NEW j, Queued(batch', j), Enqueue(j)
    PROVE  JobsKnown'
BY QueueKept, QueueGrows DEF Enqueue

LEMMA CheckQueued == \A B : Queued(B, Check)
BY CohortAssumption DEF Queued, Check, QueuedJob

LEMMA BackfillQueued ==
    ASSUME NEW B, NEW b \in DOMAIN B, b \in Nat, NEW n \in Int
    PROVE  Queued(B, Backfill(b, n))
BY CohortAssumption DEF Queued, Backfill, QueuedJob

(* A count that changes and nothing else of its batch. *)
LEMMA CountRow ==
    ASSUME batch \in Seq(Row), NEW b \in Batches, NEW n \in Int, Count(b, n)
    PROVE  /\ batch' \in Seq(Row) /\ Len(batch') = Len(batch) /\ Batches' = Batches
           /\ \A c \in Batches : batch'[c].status = batch[c].status
           /\ batch'[b].count = batch[b].count + n
           /\ \A c \in Batches : c # b => batch'[c].count = batch[c].count
<1> DEFINE row == [batch[b] EXCEPT !.count = batch[b].count + n]
<1>1. batch[b] \in Row /\ batch' = [batch EXCEPT ![b] = row]
  BY DEF Batches, Count
<1>2. row \in Row /\ row.status = batch[b].status /\ row.count = batch[b].count + n
  BY <1>1 DEF Row
<1> HIDE DEF row
<1>3. batch' \in Seq(Row) /\ Len(batch') = Len(batch) /\ DOMAIN batch' = DOMAIN batch
  BY <1>1, <1>2 DEF Batches
<1>4. batch'[b] = row /\ \A c \in Batches : c # b => batch'[c] = batch[c]
  BY <1>1 DEF Batches
<1> QED
  BY <1>2, <1>3, <1>4 DEF Batches

-----------------------------------------------------------------------------
(* Reads and what changes sessions only. *)

LEMMA ReadFillingKeeps ==
    ASSUME IInv, NEW w \in Session, NEW p \in Person, NEW via \in {"apply", "otp"},
           ReadFilling(w, p, via)
    PROVE  IInv'
<1>1. UNCHANGED <<batch, manual, who, queue>>
  BY DEF ReadFilling, Begin
<1>2. JobsKnown'
  BY <1>1 DEF IInv, JobsKnown, Batches
<1>3. CASE Go(w, [Idle EXCEPT !.pc = "mint", !.p = p, !.via = via])
  <2> DEFINE j == [Idle EXCEPT !.pc = "mint", !.p = p, !.via = via]
  <2>1. Sound(batch, j) /\ j.pc = "mint"
    BY IdleSound DEF Sound, Job, Pc
  <2> HIDE DEF j
  <2>2. Go(w, j)
    BY <1>3 DEF j
  <2> QED
    BY <1>1, <1>2, <2>1, <2>2, OnlySession
<1>4. ASSUME NEW b \in First(Filling),
             Go(w, [Idle EXCEPT !.pc = "join", !.p = p, !.via = via, !.batch = b])
      PROVE  IInv'
  <2> DEFINE j == [Idle EXCEPT !.pc = "join", !.p = p, !.via = via, !.batch = b]
  <2>1. b \in DOMAIN batch /\ b \in Nat
    BY <1>4 DEF First, Filling, Batches, IInv, Typed
  <2>2. Sound(batch, j) /\ j.pc = "join"
    BY <2>1, IdleSound DEF Sound, Job, Pc
  <2> HIDE DEF j
  <2>3. Go(w, j)
    BY <1>4 DEF j
  <2> QED
    BY <1>1, <1>2, <2>2, <2>3, OnlySession
<1> QED
  BY <1>3, <1>4 DEF ReadFilling, Begin

LEMMA PhaseAfter ==
    ASSUME NEW i \in 1 .. (LastPhase - 1)
    PROVE  Phases[i + 1] \in Status \ {"FILLING"}
<1>1. i \in 1 .. 6
  BY CohortAssumption
<1>2. i = 1 \/ i = 2 \/ i = 3 \/ i = 4 \/ i = 5 \/ i = 6
  BY <1>1
<1> QED
  BY <1>2 DEF Phases, Status

LEMMA ReadStatusKeeps ==
    ASSUME IInv, NEW w \in Session, NEW b \in Batches, ReadStatus(w, b)
    PROVE  IInv'
<1>1. PICK i \in 1 .. (LastPhase - 1) :
        Begin(w, [Idle EXCEPT !.pc = "transition", !.batch = b, !.to = Phases[i + 1]])
  BY DEF ReadStatus
<1> DEFINE to == Phases[i + 1]
           j == [Idle EXCEPT !.pc = "transition", !.batch = b, !.to = to]
<1>2. to \in Status \ {"FILLING"} /\ b \in DOMAIN batch /\ b \in Nat
  BY PhaseAfter DEF IInv, Typed, Batches
<1>3. Begin(w, j)
  BY <1>1
<1> HIDE DEF to
<1>4. Sound(batch, j) /\ j.pc = "transition"
  BY <1>2, IdleSound DEF Sound, Job, Pc
<1> HIDE DEF j
<1> QED
  BY <1>3, <1>4, OnlySession DEF IInv, JobsKnown, Batches, Begin

(* A session takes a job. *)
LEMMA TakeKeeps ==
    ASSUME IInv, NEW w \in Session, NEW q \in BagToSet(queue), NEW pc \in {"recount", "move"},
           NEW b \in Batches, NEW set \in SUBSET Person, Take(w, q, pc, b, set)
    PROVE  IInv'
<1> DEFINE j == [Idle EXCEPT !.pc = pc, !.batch = b, !.set = set, !.of = q]
<1>1. Queued(batch, q) /\ q \in QueuedJob /\ b \in DOMAIN batch /\ b \in Nat
  BY DEF IInv, JobsKnown, Queued, Typed, Batches
<1>2. Sound(batch, j) /\ j.pc = pc
  BY <1>1, IdleSound DEF Sound, Job, Pc
<1>3. /\ Go(w, j) /\ UNCHANGED <<batch, manual, who>>
      /\ BagToSet(queue') \subseteq BagToSet(queue)
  BY BagOps DEF Take
<1> HIDE DEF j
<1>4. JobsKnown'
  BY <1>3, QueueKept DEF IInv, Batches
<1> QED
  BY <1>2, <1>3, <1>4, OnlySession

LEMMA CheckCapacityKeeps ==
    ASSUME IInv, NEW w \in Session, NEW q \in BagToSet(queue), NEW b \in Filling, CheckCapacity(w, q, b)
    PROVE  IInv'
BY TakeKeeps DEF CheckCapacity, Filling

LEMMA StartBackfillKeeps ==
    ASSUME IInv, NEW w \in Session, NEW q \in BagToSet(queue), StartBackfill(w, q)
    PROVE  IInv'
<1>1. q.batch \in Batches
  BY DEF StartBackfill, IInv, JobsKnown, Queued, Batches
<1>2. \A S \in Candidates(q) : S \in SUBSET Person
  BY DEF Candidates, Live
<1> QED
  BY <1>1, <1>2, TakeKeeps DEF StartBackfill

LEMMA FindNothingKeeps ==
    ASSUME IInv, NEW w \in Session, NEW q \in BagToSet(queue), FindNothing(w, q)
    PROVE  IInv'
<1>1. UNCHANGED <<batch, manual, who, job>> /\ BagToSet(queue') \subseteq BagToSet(queue)
  BY BagOps DEF FindNothing
<1>2. JobsKnown'
  BY <1>1, QueueKept DEF IInv, Batches
<1> QED
  BY <1>1, <1>2 DEF IInv, Typed, SessionsSound, FilledOnce, OpenOrOpening, Opening, Filling, Batches

(* A session goes on in a state that needs no more than the one before. *)
LEMMA PendingStep ==
    ASSUME IInv, NEW w \in Session, NEW set \in SUBSET Person
    PROVE  /\ Sound(batch, [job[w] EXCEPT !.pc = "verdict", !.set = set])
           /\ [job[w] EXCEPT !.pc = "verdict", !.set = set].pc = "verdict"
<1>1. Sound(batch, job[w])
  BY DEF IInv, SessionsSound
<1>2. ASSUME NEW r, Sound(batch, r)
      PROVE  /\ Sound(batch, [r EXCEPT !.pc = "verdict", !.set = set])
             /\ [r EXCEPT !.pc = "verdict", !.set = set].pc = "verdict"
  BY <1>2 DEF Sound, Job, Pc
<1> QED
  BY <1>1, <1>2

LEMMA ReadPendingKeeps ==
    ASSUME IInv, NEW w \in Session, NEW b, ReadPending(w, b)
    PROVE  IInv'
<1>1. UNCHANGED <<batch, manual, who, queue>> /\ Go(w, [job[w] EXCEPT !.pc = "verdict", !.set = Pending(b)])
  BY DEF ReadPending
<1>2. JobsKnown'
  BY <1>1 DEF IInv, JobsKnown
<1>3. Pending(b) \in SUBSET Person
  BY DEF Pending, Live
<1> QED
  BY <1>1, <1>2, <1>3, PendingStep, OnlySession

LEMMA RecountKeeps ==
    ASSUME IInv, NEW w \in Session, Recount(w)
    PROVE  IInv'
<1>1. UNCHANGED <<batch, manual, who, queue>> /\ Go(w, [job[w] EXCEPT !.pc = "flip"]) /\ job[w].pc = "recount"
  BY DEF Recount
<1>2. JobsKnown' /\ Sound(batch, job[w])
  BY <1>1 DEF IInv, JobsKnown, SessionsSound
<1>3. Sound(batch, [job[w] EXCEPT !.pc = "flip"]) /\ [job[w] EXCEPT !.pc = "flip"].pc = "flip"
  <2>1. ASSUME NEW r, Sound(batch, r), r.pc = "recount"
        PROVE  Sound(batch, [r EXCEPT !.pc = "flip"]) /\ [r EXCEPT !.pc = "flip"].pc = "flip"
    BY <2>1 DEF Sound, Job, Pc
  <2> QED
    BY <1>1, <1>2, <2>1
<1> QED
  BY <1>1, <1>2, <1>3, OnlySession

LEMMA ReadPersonKeeps ==
    ASSUME IInv, NEW w \in Session, NEW p \in Person, ReadMember(w, p) \/ ReadDeleted(w, p)
    PROVE  IInv'
<1>1. who[p].batch \in DOMAIN batch /\ who[p].batch \in Nat /\ who[p] \in Account
  BY DEF IInv, Typed, ReadMember, ReadDeleted, Batches
<1>2. CASE ReadMember(w, p)
  <2> DEFINE closed == who[p].batch \notin Filling
             b == who[p].batch
             j == [Idle EXCEPT !.pc = "remove", !.p = p, !.batch = b, !.closed = closed]
  <2>1. Begin(w, j)
    BY <1>2 DEF ReadMember
  <2>2. closed \in BOOLEAN /\ b \in Nat /\ b \in DOMAIN batch
    BY <1>1
  <2> HIDE DEF closed, b
  <2>3. Sound(batch, j) /\ j.pc = "remove"
    BY <2>2, IdleSound DEF Sound, Job, Pc
  <2> HIDE DEF j
  <2> QED
    BY <2>1, <2>3, OnlySession DEF IInv, JobsKnown, Begin
<1>3. CASE ReadDeleted(w, p)
  <2> DEFINE j == [Idle EXCEPT !.pc = "delete", !.p = p, !.was = who[p]]
  <2>1. Begin(w, j)
    BY <1>3 DEF ReadDeleted
  <2>2. Sound(batch, j) /\ j.pc = "delete"
    BY <1>1, IdleSound DEF Sound, Job, Pc
  <2> HIDE DEF j
  <2> QED
    BY <2>1, <2>2, OnlySession DEF IInv, JobsKnown, Begin
<1> QED
  BY <1>2, <1>3

LEMMA ReadNonRespondersKeeps ==
    ASSUME IInv, NEW w \in Session, NEW b \in Batches, NEW set \in SUBSET Person,
           ReadNonResponders(w, b, set)
    PROVE  IInv'
<1> DEFINE j == [Idle EXCEPT !.pc = "purge", !.batch = b, !.set = set]
<1>1. Begin(w, j)
  BY DEF ReadNonResponders
<1>2. Sound(batch, j) /\ j.pc = "purge"
  <2>1. b \in DOMAIN batch /\ b \in Nat
    BY DEF IInv, Typed, Batches
  <2> QED
    BY <2>1, IdleSound DEF Sound, Job, Pc
<1> HIDE DEF j
<1> QED
  BY <1>1, <1>2, OnlySession DEF IInv, JobsKnown, Begin

LEMMA ReleaseKeeps ==
    ASSUME IInv, NEW w \in Session, Release(w), JobsKnown'
    PROVE  IInv'
BY IdleSound, OnlySession DEF Release

LEMMA FailKeeps ==
    ASSUME IInv, NEW w \in Session, Fail(w)
    PROVE  IInv'
<1> DEFINE again == [job[w].of EXCEPT !.left = job[w].of.left - 1]
<1>1. Sound(batch, job[w]) /\ UNCHANGED batch
  BY DEF IInv, SessionsSound, Fail, Release
<1>2. Queued(batch', again)
  <2>1. ASSUME NEW r, Queued(batch, r)
        PROVE  Queued(batch, [r EXCEPT !.left = r.left - 1])
    BY <2>1 DEF Queued, QueuedJob
  <2> QED
    BY <1>1, <2>1 DEF Sound
<1>3. queue' = queue \/ queue' = queue (+) SetToBag({again})
  BY DEF Fail
<1> HIDE DEF again
<1>4. JobsKnown'
  BY <1>1, <1>2, <1>3, QueueKept, QueueGrows DEF IInv, Batches
<1> QED
  BY <1>4, ReleaseKeeps DEF Fail

LEMMA RefuseKeeps ==
    ASSUME IInv, NEW w \in Session, Refuse(w)
    PROVE  IInv'
<1>1. JobsKnown'
  BY DEF IInv, JobsKnown, Refuse, Release
<1> QED
  BY <1>1, ReleaseKeeps DEF Refuse

-----------------------------------------------------------------------------
(* Batches that are closed and opened. *)

LEMMA NewRow ==
    ASSUME IInv, batch' = Append(batch, NewBatch)
    PROVE  /\ batch' \in Seq(Row) /\ Len(batch') = Len(batch) + 1
           /\ Batches' = Batches \cup {Len(batch) + 1} /\ Len(batch) + 1 \notin Batches
           /\ batch'[Len(batch) + 1] = NewBatch
           /\ \A b \in Batches : batch'[b] = batch[b]
           /\ Filling' = Filling \cup {Len(batch) + 1}
           /\ Cardinality(Filling') = Cardinality(Filling) + 1
<1>1. NewBatch \in Row /\ NewBatch.status = "FILLING" /\ batch \in Seq(Row)
  BY DEF NewBatch, Row, Status, IInv, Typed
<1>2. /\ batch' \in Seq(Row) /\ Len(batch') = Len(batch) + 1
      /\ DOMAIN batch' = DOMAIN batch \cup {Len(batch) + 1} /\ Len(batch) + 1 \notin DOMAIN batch
      /\ batch'[Len(batch) + 1] = NewBatch
      /\ \A b \in DOMAIN batch : batch'[b] = batch[b]
  BY <1>1
<1>3. Filling' = Filling \cup {Len(batch) + 1} /\ Len(batch) + 1 \notin Filling
  BY <1>1, <1>2 DEF Filling, Batches
<1>4. IsFiniteSet(Filling)
  BY FiniteBatches DEF IInv
<1>5. Cardinality(Filling') = Cardinality(Filling) + 1
  BY <1>3, <1>4, FS_AddElement
<1> QED
  BY <1>2, <1>3, <1>5 DEF Batches

(* No session follows up a batch that is only now made. *)
LEMMA NotYet ==
    ASSUME IInv, batch' = Append(batch, NewBatch),
           \A v \in Session : job'[v].pc = "next" => job'[v].batch \in Batches
    PROVE  ~Opening'
<1>1. Len(batch') = Len(batch) + 1 /\ Len(batch) + 1 \notin Batches
  BY NewRow
<1> QED
  BY <1>1 DEF Opening

LEMMA NewTables ==
    ASSUME IInv, batch' = Append(batch, NewBatch), who' = who, queue' = queue,
           manual' \subseteq Batches', DOMAIN job' = Session
    PROVE  Typed' /\ JobsKnown'
<1>1. batch' \in Seq(Row) /\ Batches \subseteq Batches'
  BY NewRow
<1>2. Typed'
  BY <1>1 DEF IInv, Typed
<1>3. JobsKnown'
  BY <1>1, QueueKept DEF IInv
<1> QED
  BY <1>2, <1>3

LEMMA CreateBatchKeeps ==
    ASSUME IInv, CreateBatch
    PROVE  IInv'
<1>1. /\ batch' = Append(batch, NewBatch) /\ manual' = manual \cup {Len(batch) + 1}
      /\ UNCHANGED <<who, queue, job>>
  BY DEF CreateBatch
<1>2. /\ Batches' = Batches \cup {Len(batch) + 1} /\ Len(batch) + 1 \notin Batches
      /\ \A b \in Batches : batch'[b] = batch[b]
      /\ Cardinality(Filling') = Cardinality(Filling) + 1
  BY <1>1, NewRow
<1>3. Typed' /\ JobsKnown'
  BY <1>1, <1>2, NewTables DEF IInv, Typed
<1>4. SessionsSound'
  <2>1. ASSUME NEW v \in Session PROVE Sound(batch', job[v])
    BY <1>2, SoundStays DEF IInv, SessionsSound
  <2> QED
    BY <1>1, <2>1 DEF SessionsSound
<1>5. ~Opening'
  BY <1>1, NotYet DEF IInv, SessionsSound, Sound, Batches
<1>6. Cardinality(manual') = Cardinality(manual) + 1
  BY <1>1, <1>2, FiniteBatches, FS_AddElement DEF IInv, Typed
<1>7. OpenOrOpening'
  BY <1>2, <1>5, <1>6, FiniteBatches DEF IInv, OpenOrOpening
<1> QED
  BY <1>1, <1>3, <1>4, <1>7 DEF IInv, FilledOnce

LEMMA MintKeeps ==
    ASSUME IInv, NEW w \in Session, Mint(w)
    PROVE  IInv'
<1>1. Sound(batch, job[w]) /\ job[w].pc = "mint" /\ UNCHANGED <<manual, who, queue>>
  BY DEF IInv, SessionsSound, Mint
<1>2. ASSUME NEW B, NEW b \in DOMAIN B, b \in Nat, DOMAIN batch \subseteq DOMAIN B
      PROVE  /\ Sound(B, [job[w] EXCEPT !.pc = "join", !.batch = b])
             /\ [job[w] EXCEPT !.pc = "join", !.batch = b].pc = "join"
  <2>1. ASSUME NEW r, Sound(batch, r), r.pc = "mint"
        PROVE  /\ Sound(B, [r EXCEPT !.pc = "join", !.batch = b])
               /\ [r EXCEPT !.pc = "join", !.batch = b].pc = "join"
    BY <1>2, <2>1 DEF Sound, Queued, Job, Pc
  <2> QED
    BY <1>1, <2>1
<1>3. ASSUME NEW b \in First(Filling), Go(w, [job[w] EXCEPT !.pc = "join", !.batch = b]), batch' = batch
      PROVE  IInv'
  <2>1. b \in DOMAIN batch /\ b \in Nat
    BY DEF First, Filling, Batches, IInv, Typed
  <2>2. /\ Sound(batch, [job[w] EXCEPT !.pc = "join", !.batch = b])
        /\ [job[w] EXCEPT !.pc = "join", !.batch = b].pc = "join"
    BY <1>2, <2>1
  <2>3. JobsKnown'
    BY <1>1, <1>3, QueueKept DEF IInv, Batches
  <2> QED
    BY <1>1, <1>3, <2>2, <2>3, OnlySession
<1>4. ASSUME Filling = {}, batch' = Append(batch, NewBatch),
             Go(w, [job[w] EXCEPT !.pc = "join", !.batch = Len(batch) + 1])
      PROVE  IInv'
  <2> DEFINE j == [job[w] EXCEPT !.pc = "join", !.batch = Len(batch) + 1]
  <2>1. /\ Batches' = Batches \cup {Len(batch) + 1} /\ Len(batch) + 1 \notin Batches
        /\ \A b \in Batches : batch'[b] = batch[b]
        /\ Cardinality(Filling') = Cardinality(Filling) + 1
    BY <1>4, NewRow
  <2>2. Len(batch) + 1 \in DOMAIN batch' /\ Len(batch) + 1 \in Nat /\ DOMAIN batch \subseteq DOMAIN batch'
    BY <2>1, FiniteBatches DEF Batches, IInv
  <2>3. Sound(batch', j) /\ j.pc = "join"
    BY <1>2, <2>2
  <2>4. Go(w, j)
    BY <1>4
  <2> HIDE DEF j
  <2>5. SessionsSound' /\ DOMAIN job' = Session
    BY <2>1, <2>3, <2>4, SessionStep
  <2>6. job'[w] = j /\ \A v \in Session : v # w => job'[v] = job[v]
    BY <2>4 DEF IInv, Typed, Go
  <2>7. Typed' /\ JobsKnown'
    BY <1>1, <1>4, <2>1, <2>5, NewTables DEF IInv, Typed
  <2>8. \A v \in Session : job'[v].pc = "next" => job'[v].batch \in Batches
    BY <2>3, <2>6 DEF IInv, SessionsSound, Sound, Batches
  <2>9. ~Opening'
    BY <1>4, <2>8, NotYet
  <2>10. Cardinality(Filling) = 0
    BY <1>4, FS_EmptySet
  <2>11. OpenOrOpening'
    BY <1>1, <2>1, <2>9, <2>10, FiniteBatches DEF IInv, OpenOrOpening
  <2>12. FilledOnce'
    BY <2>3, <2>6 DEF IInv, FilledOnce
  <2> QED
    BY <2>5, <2>7, <2>11, <2>12 DEF IInv
<1> QED
  BY <1>3, <1>4 DEF Mint, OpenUnderLock

(* The record of a session that goes on with the follow-up of its batch. *)
LEMMA FollowUp ==
    ASSUME NEW r, Sound(batch, r), r.pc \in {"flip", "next"}, NEW pc \in {"next", "screen"},
           DOMAIN batch \subseteq DOMAIN batch', batch'[r.batch].status # "FILLING"
    PROVE  /\ Sound(batch', [r EXCEPT !.pc = pc])
           /\ [r EXCEPT !.pc = pc].pc = pc /\ [r EXCEPT !.pc = pc].batch = r.batch
BY DEF Sound, Queued, Job, Pc

LEMMA FlipFullKeeps ==
    ASSUME IInv, NEW w \in Session, FlipFull(w)
    PROVE  IInv'
<1> DEFINE b == job[w].batch
           j == [job[w] EXCEPT !.pc = "next"]
<1>1. /\ Sound(batch, job[w]) /\ job[w].pc = "flip" /\ b \in Batches
      /\ UNCHANGED <<manual, who, queue>>
  BY DEF IInv, SessionsSound, FlipFull, Sound, Batches
<1>2. CASE Go(w, Idle) /\ UNCHANGED batch
  <2>1. JobsKnown'
    BY <1>1, <1>2, QueueKept DEF IInv, Batches
  <2> QED
    BY <1>1, <1>2, <2>1, IdleSound, OnlySession
<1>3. ASSUME b \in Filling, batch' = [batch EXCEPT ![b].status = "SCREENING"], Go(w, j)
      PROVE  IInv'
  <2>1. batch \in Seq(Row) /\ batch[b] \in Row /\ batch[b].status = "FILLING" /\ DOMAIN job = Session
    BY <1>1, <1>3 DEF IInv, Typed, Filling, Batches
  <2> DEFINE row == [batch[b] EXCEPT !.status = "SCREENING"]
  <2>2. row \in Row /\ row.status = "SCREENING" /\ batch' = [batch EXCEPT ![b] = row]
    BY <1>3, <2>1 DEF Row, Status
  <2> HIDE DEF row
  <2>3. /\ batch' \in Seq(Row) /\ Len(batch') = Len(batch) /\ Batches' = Batches
        /\ DOMAIN batch' = DOMAIN batch
        /\ batch'[b] = row /\ \A c \in Batches : c # b => batch'[c] = batch[c]
    BY <1>1, <2>1, <2>2 DEF Batches
  <2>4. Sound(batch', j) /\ j.pc = "next" /\ j.batch = b
    BY <1>1, <2>2, <2>3, FollowUp
  <2> HIDE DEF j
  <2>5. SessionsSound' /\ DOMAIN job' = Session
    BY <1>3, <2>1, <2>2, <2>3, <2>4, SessionStep
  <2>6. job'[w] = j /\ \A v \in Session : v # w => job'[v] = job[v]
    BY <1>3, <2>1 DEF Go
  <2>7. \A v \in Session : job[v].pc \in {"next", "screen"} => job[v].batch # b
    BY <2>1 DEF IInv, SessionsSound, Sound
  <2>8. FilledOnce'
    BY <2>4, <2>6, <2>7 DEF IInv, FilledOnce
  <2>9. Filling' = Filling \ {b}
    BY <2>2, <2>3 DEF Filling
  <2>10. Cardinality(Filling') = Cardinality(Filling) - 1
    BY <1>3, <2>9, FiniteBatches, FS_RemoveElement DEF IInv
  <2>11. OpenOrOpening'
    BY <1>1, <2>10, FiniteBatches DEF IInv, OpenOrOpening
  <2>12. Typed'
    BY <1>1, <2>3, <2>5 DEF IInv, Typed
  <2>13. JobsKnown'
    BY <1>1, <2>3, QueueKept DEF IInv
  <2> QED
    BY <2>5, <2>8, <2>11, <2>12, <2>13 DEF IInv
<1> QED
  BY <1>2, <1>3 DEF FlipFull, StillFilling

LEMMA MakeNextKeeps ==
    ASSUME IInv, NEW w \in Session, MakeNext(w)
    PROVE  IInv'
<1> DEFINE b == job[w].batch
           j == [job[w] EXCEPT !.pc = "screen"]
<1>1. /\ Sound(batch, job[w]) /\ job[w].pc = "next" /\ b \in Batches /\ batch[b].status # "FILLING"
      /\ UNCHANGED <<manual, who, queue>> /\ Go(w, j)
  BY DEF IInv, SessionsSound, MakeNext, Sound, Batches
<1>2. \/ Len(batch) = b /\ batch' = Append(batch, NewBatch)
      \/ batch' = batch
  BY DEF MakeNext, NoneAfter
<1>3. /\ Batches \subseteq Batches' /\ DOMAIN batch \subseteq DOMAIN batch'
      /\ \A c \in Batches : batch'[c] = batch[c]
  BY <1>2, NewRow DEF Batches
<1>4. Sound(batch', j) /\ j.pc = "screen" /\ j.batch = b
  BY <1>1, <1>3, FollowUp
<1> HIDE DEF j
<1>5. SessionsSound' /\ DOMAIN job' = Session
  BY <1>1, <1>3, <1>4, SessionStep
<1>6. job'[w] = j /\ \A v \in Session : v # w => job'[v] = job[v]
  BY <1>1 DEF IInv, Typed, Go
<1>7. FilledOnce'
  BY <1>1, <1>4, <1>6 DEF IInv, FilledOnce
<1>8. CASE Len(batch) = b /\ batch' = Append(batch, NewBatch)
  <2>1. Opening
    BY <1>1, <1>8 DEF Opening
  <2>2. \A v \in Session : job'[v].pc = "next" => job'[v].batch \in Batches
    BY <1>4, <1>6 DEF IInv, SessionsSound, Sound, Batches
  <2>3. ~Opening' /\ Cardinality(Filling') = Cardinality(Filling) + 1
    BY <1>8, <2>2, NotYet, NewRow
  <2>4. OpenOrOpening'
    BY <1>1, <2>1, <2>3, FiniteBatches DEF IInv, OpenOrOpening
  <2>5. Typed' /\ JobsKnown'
    BY <1>1, <1>3, <1>5, <1>8, NewTables DEF IInv, Typed
  <2> QED
    BY <1>5, <1>7, <2>4, <2>5 DEF IInv
<1>9. CASE batch' = batch
  <2>1. Opening' => Opening
    BY <1>4, <1>6, <1>9 DEF Opening
  <2>2. Filling' = Filling
    BY <1>9 DEF Filling, Batches
  <2>3. OpenOrOpening'
    BY <1>1, <2>1, <2>2, FiniteBatches DEF IInv, OpenOrOpening
  <2>4. Typed'
    BY <1>1, <1>5, <1>9 DEF IInv, Typed, Batches
  <2>5. JobsKnown'
    BY <1>1, <1>3, QueueKept DEF IInv
  <2> QED
    BY <1>5, <1>7, <2>3, <2>4, <2>5 DEF IInv
<1> QED
  BY <1>2, <1>8, <1>9

LEMMA TransitionStatusKeeps ==
    ASSUME IInv, NEW w \in Session, TransitionStatus(w)
    PROVE  IInv'
<1> DEFINE b == job[w].batch
           row == [batch[b] EXCEPT !.status = job[w].to]
<1>1. /\ b \in Batches /\ job[w].to \in Status \ {"FILLING"} /\ batch \in Seq(Row) /\ batch[b] \in Row
      /\ UNCHANGED <<manual, who, queue>> /\ Go(w, Idle)
  BY DEF IInv, SessionsSound, Typed, TransitionStatus, Sound, Batches
<1>2. row \in Row /\ row.status # "FILLING" /\ batch' = [batch EXCEPT ![b] = row]
  BY <1>1 DEF Row, TransitionStatus
<1> HIDE DEF row, b
<1>3. /\ batch' \in Seq(Row) /\ Len(batch') = Len(batch) /\ Batches' = Batches
      /\ \A c \in Batches : batch'[c].status = "FILLING" => batch[c].status = "FILLING"
  BY <1>1, <1>2 DEF Batches
<1>4. JobsKnown'
  BY <1>1, <1>3, QueueKept DEF IInv
<1> QED
  BY <1>1, <1>3, <1>4, IdleSound, TableStep DEF IInv, Typed

-----------------------------------------------------------------------------
(* Applicants that come, are decided on and go.  Each step also keeps the counters. *)

(* One more lives in b than the count said, and everything else is as before. *)
LEMMA OneMore ==
    ASSUME NEW b, NEW p \in Person, p \notin Live(b), Live(b)' = Live(b) \cup {p}
    PROVE  Cardinality(Live(b)') = Cardinality(Live(b)) + 1
BY FiniteLive, FS_AddElement

LEMMA FewerBy ==
    ASSUME NEW b, NEW S \in SUBSET Live(b), Live(b)' = Live(b) \ S
    PROVE  Cardinality(Live(b)') = Cardinality(Live(b)) - Cardinality(S)
<1>1. IsFiniteSet(Live(b)) /\ IsFiniteSet(S) /\ Cardinality(S) \in Nat
  BY FiniteLive, FS_Subset, FS_CardinalityType
<1>2. IsFiniteSet(Live(b) \ S) /\ Cardinality(Live(b) \ S) \in Nat
  BY <1>1, FS_Subset, FS_CardinalityType
<1>3. Live(b) = (Live(b) \ S) \cup S /\ (Live(b) \ S) \cap S = {}
  OBVIOUS
<1>4. Cardinality(Live(b)) = Cardinality(Live(b) \ S) + Cardinality(S) - 0
  BY <1>1, <1>2, <1>3, FS_Union, FS_EmptySet
<1> QED
  BY <1>1, <1>2, <1>4

(* The counter of a batch moves with those who come or go. *)
LEMMA Arrival ==
    ASSUME IInv, CountersAddUp, drift = {}, NEW b \in Batches, NEW p \in Person, p \notin Live(b),
           Count(b, 1), Live(b)' = Live(b) \cup {p},
           \A c \in Batches : c # b => Live(c)' = Live(c)
    PROVE  CountersAddUp'
<1>1. /\ Batches' = Batches /\ batch'[b].count = batch[b].count + 1
      /\ \A c \in Batches : c # b => batch'[c].count = batch[c].count
  BY CountRow DEF IInv, Typed
<1>2. Cardinality(Live(b)') = Cardinality(Live(b)) + 1
  BY OneMore
<1> QED
  BY <1>1, <1>2 DEF CountersAddUp

LEMMA Departure ==
    ASSUME IInv, CountersAddUp, drift = {}, NEW b \in Batches, NEW S \in SUBSET Live(b),
           NEW n \in Int, n = -Cardinality(S),
           Count(b, n), Live(b)' = Live(b) \ S,
           \A c \in Batches : c # b => Live(c)' = Live(c)
    PROVE  CountersAddUp'
<1>1. /\ Batches' = Batches /\ batch'[b].count = batch[b].count + n
      /\ \A c \in Batches : c # b => batch'[c].count = batch[c].count
  BY CountRow DEF IInv, Typed
<1>2. Cardinality(Live(b)') = Cardinality(Live(b)) - Cardinality(S)
  BY FewerBy
<1>3. Cardinality(Live(b)) \in Nat /\ Cardinality(S) \in Nat
  BY FiniteLive, FS_Subset, FS_CardinalityType
<1>4. batch[b].count = Cardinality(Live(b))
  BY DEF CountersAddUp
<1>5. batch'[b].count = Cardinality(Live(b)')
  BY <1>1, <1>2, <1>3, <1>4
<1> QED
  BY <1>1, <1>5 DEF CountersAddUp

LEMMA JoinKeeps ==
    ASSUME IInv, NEW w \in Session, Join(w)
    PROVE  IInv' /\ (CountersAddUp => CountersAddUp')
<1>1. PICK p \in Person, b \in Batches :
        /\ b \in Nat /\ who[p].status = "NONE"
        /\ who' = [who EXCEPT ![p] = [status |-> "PENDING", batch |-> b]]
        /\ \/ Count(b, 1) /\ Enqueue(Check) /\ drift' = drift
           \/ drift' = drift \cup {"otp"} /\ UNCHANGED <<batch, queue>>
  <2>1. job[w].p \in Person /\ job[w].batch \in Batches /\ job[w].batch \in Nat
    BY DEF IInv, SessionsSound, Typed, Join, Sound, Batches
  <2>2. /\ who[job[w].p].status = "NONE"
        /\ who' = [who EXCEPT ![job[w].p] = [status |-> "PENDING", batch |-> job[w].batch]]
        /\ \/ Count(job[w].batch, 1) /\ Enqueue(Check) /\ drift' = drift
           \/ drift' = drift \cup {"otp"} /\ UNCHANGED <<batch, queue>>
    BY DEF Join
  <2> QED
    BY <2>1, <2>2
<1>2. batch \in Seq(Row) /\ who \in [Person -> Account] /\ UNCHANGED manual /\ Go(w, Idle)
  BY DEF IInv, Typed, Join
<1>3. /\ batch' \in Seq(Row) /\ Len(batch') = Len(batch) /\ Batches' = Batches
      /\ \A c \in Batches : batch'[c].status = batch[c].status
  BY <1>1, <1>2, CountRow DEF Batches
<1>4. JobsKnown'
  BY <1>1, <1>3, CheckQueued, EnqueueKept, QueueKept DEF IInv
<1>5. /\ who' \in [Person -> Account]
      /\ \A q \in Person : who'[q].status # "NONE" => who'[q].batch \in Batches
  BY <1>1, <1>2 DEF IInv, Typed, Account
<1>6. IInv'
  BY <1>2, <1>3, <1>4, <1>5, IdleSound, TableStep
<1>7. ASSUME CountersAddUp PROVE CountersAddUp'
  <2>1. CASE drift' # {}
    BY <2>1 DEF CountersAddUp
  <2>2. CASE drift' = {}
    <3>1. Count(b, 1) /\ drift = {}
      BY <1>1, <2>2
    <3>2. Live(b)' = Live(b) \cup {p} /\ p \notin Live(b)
      BY <1>1, <1>2 DEF Live
    <3>3. \A c \in Batches : c # b => Live(c)' = Live(c)
      BY <1>1, <1>2 DEF Live
    <3> QED
      BY <1>7, <3>1, <3>2, <3>3, Arrival
  <2> QED
    BY <2>1, <2>2
<1> QED
  BY <1>6, <1>7

(* Statuses are written and nobody moves. *)
LEMMA StatusesKeep ==
    ASSUME Typed, UNCHANGED <<batch, drift>>, CountersAddUp,
           \A p \in Person : /\ who'[p].batch = who[p].batch
                             /\ who'[p].status \notin {"NONE", "REMOVED"} <=>
                                    who[p].status \notin {"NONE", "REMOVED"}
    PROVE  CountersAddUp'
<1>1. \A b : Live(b)' = Live(b)
  BY DEF Live
<1> QED
  BY <1>1 DEF CountersAddUp, Batches

LEMMA ScreenBatchKeeps ==
    ASSUME IInv, NEW w \in Session, ScreenBatch(w)
    PROVE  IInv' /\ (CountersAddUp => CountersAddUp')
<1> DEFINE set == {p \in job[w].set : who[p].status # "NONE"}
<1>1. /\ UNCHANGED <<batch, manual, queue>> /\ Go(w, Idle) /\ who \in [Person -> Account]
      /\ who' = [p \in Person |-> IF p \in set THEN [who[p] EXCEPT !.status = "DECIDED"] ELSE who[p]]
      /\ drift' = IF \E p \in set : who[p].status = "REMOVED" THEN drift \cup {"revived"} ELSE drift
  BY DEF ScreenBatch, IInv, Typed
<1>2. \A p \in set : who[p].status # "NONE"
  OBVIOUS
<1> HIDE DEF set
<1>3. \A p \in Person : /\ who'[p] \in Account /\ who'[p].batch = who[p].batch
                        /\ (who'[p].status = "NONE") = (who[p].status = "NONE")
  BY <1>1, <1>2 DEF Account
<1>4. who' \in [Person -> Account]
  BY <1>1, <1>3
<1>5. JobsKnown'
  BY <1>1, QueueKept DEF IInv, Batches
<1>6. IInv'
  BY <1>1, <1>3, <1>4, <1>5, IdleSound, TableStep DEF IInv, Typed, Batches
<1>7. ASSUME CountersAddUp PROVE CountersAddUp'
  <2>1. CASE \E p \in set : who[p].status = "REMOVED"
    BY <1>1, <2>1 DEF CountersAddUp
  <2>2. CASE ~ \E p \in set : who[p].status = "REMOVED"
    <3>1. \A p \in Person : who'[p].status \notin {"NONE", "REMOVED"} <=>
                                    who[p].status \notin {"NONE", "REMOVED"}
      BY <1>1, <1>2, <2>2 DEF Account
    <3> QED
      BY <1>1, <1>3, <1>7, <2>2, <3>1, StatusesKeep DEF IInv
  <2> QED
    BY <2>1, <2>2
<1> QED
  BY <1>6, <1>7

LEMMA SetStatusKeeps ==
    ASSUME IInv, NEW p \in Person, NEW status \in {"PENDING", "DECIDED"}, SetStatus(p, status)
    PROVE  IInv' /\ (CountersAddUp => CountersAddUp')
<1>1. /\ UNCHANGED <<batch, manual, queue, job>> /\ who \in [Person -> Account]
      /\ who[p].status # "NONE" /\ who' = [who EXCEPT ![p].status = status]
      /\ drift' = IF who[p].status = "REMOVED" THEN drift \cup {"revived"} ELSE drift
  BY DEF SetStatus, IInv, Typed
<1>2. \A q \in Person : /\ who'[q] \in Account /\ who'[q].batch = who[q].batch
                        /\ (who'[q].status = "NONE") = (who[q].status = "NONE")
                        /\ q # p => who'[q] = who[q]
  BY <1>1 DEF Account
<1>3. who'[p].status = status
  BY <1>1 DEF Account
<1>4. who' \in [Person -> Account]
  BY <1>1, <1>2
<1>5. Typed' /\ JobsKnown'
  BY <1>1, <1>2, <1>4 DEF IInv, Typed, JobsKnown, Batches
<1>6. IInv'
  BY <1>1, <1>5 DEF IInv, SessionsSound, FilledOnce, OpenOrOpening, Opening, Filling, Batches
<1>7. ASSUME CountersAddUp PROVE CountersAddUp'
  <2>1. CASE who[p].status = "REMOVED"
    BY <1>1, <2>1 DEF CountersAddUp
  <2>2. CASE who[p].status # "REMOVED"
    <3>1. \A q \in Person : who'[q].status \notin {"NONE", "REMOVED"} <=>
                                    who[q].status \notin {"NONE", "REMOVED"}
      BY <1>1, <1>2, <1>3, <2>2
    <3> QED
      BY <1>1, <1>2, <1>7, <2>2, <3>1, StatusesKeep DEF IInv
  <2> QED
    BY <2>1, <2>2
<1> QED
  BY <1>6, <1>7

LEMMA RemoveApplicantKeeps ==
    ASSUME IInv, NEW w \in Session, RemoveApplicant(w)
    PROVE  IInv' /\ (CountersAddUp => CountersAddUp')
<1>1. PICK p \in Person, b \in Batches :
        /\ b \in Nat
        /\ \/ /\ StillIn(p) /\ who' = [who EXCEPT ![p].status = "REMOVED"] /\ Count(b, -1)
              /\ queue' = queue \/ Enqueue(Backfill(b, 1))
              /\ drift' = IF who[p].batch = b THEN drift ELSE drift \cup {"moved"}
           \/ UNCHANGED <<who, batch, queue, drift>>
  BY DEF IInv, SessionsSound, Typed, RemoveApplicant, Sound, Batches
<1>2. batch \in Seq(Row) /\ who \in [Person -> Account] /\ UNCHANGED manual /\ Go(w, Idle)
  BY DEF IInv, Typed, RemoveApplicant
<1>3. /\ batch' \in Seq(Row) /\ Len(batch') = Len(batch) /\ Batches' = Batches
      /\ \A c \in Batches : batch'[c].status = batch[c].status
  BY <1>1, <1>2, CountRow DEF Batches
<1>4. JobsKnown'
  <2>1. Queued(batch', Backfill(b, 1))
    <3>1. b \in DOMAIN batch' /\ b \in Nat
      BY <1>1, <1>3 DEF Batches
    <3> QED
      BY <3>1, BackfillQueued
  <2> QED
    BY <1>1, <1>3, <2>1, EnqueueKept, QueueKept DEF IInv
<1>5. /\ who' \in [Person -> Account]
      /\ \A q \in Person : who'[q].status # "NONE" => who'[q].batch \in Batches
  BY <1>1, <1>2 DEF IInv, Typed, Account, StillIn
<1>6. IInv'
  BY <1>2, <1>3, <1>4, <1>5, IdleSound, TableStep
<1>7. ASSUME CountersAddUp PROVE CountersAddUp'
  <2>1. CASE drift' # {}
    BY <2>1 DEF CountersAddUp
  <2>2. CASE UNCHANGED <<who, batch, queue, drift>>
    BY <1>7, <2>2 DEF CountersAddUp, Live, Batches
  <2>3. CASE /\ drift' = {} /\ StillIn(p) /\ who' = [who EXCEPT ![p].status = "REMOVED"] /\ Count(b, -1)
             /\ drift' = IF who[p].batch = b THEN drift ELSE drift \cup {"moved"}
    <3>1. who[p].batch = b /\ drift = {}
      BY <2>3
    <3>2. who'[p].status = "REMOVED" /\ \A q \in Person : q # p => who'[q] = who[q]
      BY <1>2, <2>3 DEF Account
    <3>3. Live(b)' = Live(b) \ {p} /\ {p} \in SUBSET Live(b)
      BY <2>3, <3>1, <3>2 DEF Live, StillIn
    <3>4. \A c \in Batches : c # b => Live(c)' = Live(c)
      BY <1>2, <2>3, <3>1, <3>2 DEF Live, Account
    <3>5. Cardinality({p}) = 1
      BY FS_Singleton
    <3> QED
      BY <1>7, <2>3, <3>1, <3>3, <3>4, <3>5, Departure
  <2> QED
    BY <1>1, <2>1, <2>2, <2>3
<1> QED
  BY <1>6, <1>7

LEMMA HardDeleteKeeps ==
    ASSUME IInv, NEW w \in Session, HardDelete(w)
    PROVE  IInv' /\ (CountersAddUp => CountersAddUp')
<1>1. PICK p \in Person, b \in Batches, removed \in BOOLEAN :
        /\ b \in Nat /\ who[p].status # "NONE" /\ who' = [who EXCEPT ![p] = Nobody]
        /\ IF removed THEN batch' = batch ELSE Count(b, -1)
        /\ drift' = IF who[p].batch = b /\ (who[p].status = "REMOVED") = removed
                    THEN drift ELSE drift \cup {"delete"}
  <2>1. job[w].p \in Person /\ job[w].was.batch \in Batches /\ job[w].was.batch \in Nat
    BY DEF IInv, SessionsSound, Typed, HardDelete, Sound, Batches
  <2>2. (job[w].was.status = "REMOVED") \in BOOLEAN
    OBVIOUS
  <2>3. /\ who[job[w].p].status # "NONE" /\ who' = [who EXCEPT ![job[w].p] = Nobody]
        /\ IF job[w].was.status = "REMOVED" THEN batch' = batch ELSE Count(job[w].was.batch, -1)
        /\ drift' = IF /\ who[job[w].p].batch = job[w].was.batch
                       /\ (who[job[w].p].status = "REMOVED") = (job[w].was.status = "REMOVED")
                    THEN drift ELSE drift \cup {"delete"}
    BY DEF HardDelete
  <2> QED
    BY <2>1, <2>2, <2>3
<1>2. /\ batch \in Seq(Row) /\ who \in [Person -> Account] /\ UNCHANGED <<manual, queue>>
      /\ Go(w, Idle)
  BY DEF IInv, Typed, HardDelete
<1>3. /\ batch' \in Seq(Row) /\ Len(batch') = Len(batch) /\ Batches' = Batches
      /\ \A c \in Batches : batch'[c].status = batch[c].status
  BY <1>1, <1>2, CountRow DEF Batches
<1>4. JobsKnown'
  BY <1>2, <1>3, QueueKept DEF IInv
<1>5. /\ who' \in [Person -> Account]
      /\ \A q \in Person : who'[q].status # "NONE" => who'[q].batch \in Batches
  BY <1>1, <1>2 DEF IInv, Typed, Account, Nobody
<1>6. IInv'
  BY <1>2, <1>3, <1>4, <1>5, IdleSound, TableStep
<1>7. ASSUME CountersAddUp PROVE CountersAddUp'
  <2>1. CASE drift' # {}
    BY <2>1 DEF CountersAddUp
  <2>2. CASE drift' = {}
    <3>1. who[p].batch = b /\ (who[p].status = "REMOVED") = removed /\ drift = {}
      BY <1>1, <2>2
    <3>2. who'[p].status = "NONE" /\ \A q \in Person : q # p => who'[q] = who[q]
      BY <1>1, <1>2 DEF Nobody
    <3>3. \A c \in Batches : c # b => Live(c)' = Live(c)
      BY <1>1, <1>2, <3>1, <3>2 DEF Live
    <3>4. CASE removed
      <4>1. Live(b)' = Live(b)
        BY <3>1, <3>2, <3>4 DEF Live
      <4> QED
        BY <1>1, <1>3, <1>7, <3>1, <3>3, <3>4, <4>1 DEF CountersAddUp
    <3>5. CASE ~removed
      <4>1. Live(b)' = Live(b) \ {p} /\ {p} \in SUBSET Live(b)
        BY <1>1, <3>1, <3>2, <3>5 DEF Live
      <4>2. Cardinality({p}) = 1
        BY FS_Singleton
      <4> QED
        BY <1>1, <1>7, <3>1, <3>3, <3>5, <4>1, <4>2, Departure
    <3> QED
      BY <3>4, <3>5
  <2> QED
    BY <2>1, <2>2
<1> QED
  BY <1>6, <1>7

LEMMA RemoveNonRespondersKeeps ==
    ASSUME IInv, NEW w \in Session, RemoveNonResponders(w)
    PROVE  IInv' /\ (CountersAddUp => CountersAddUp')
<1>1. PICK b \in Batches, S \in SUBSET Person :
        /\ b \in Nat
        /\ who' = [p \in Person |-> IF p \in S /\ who[p].status # "NONE"
                                    THEN [who[p] EXCEPT !.status = "REMOVED"] ELSE who[p]]
        /\ Count(b, -Cardinality(S)) /\ Enqueue(Backfill(b, Cardinality(S)))
        /\ drift' = IF S \subseteq Live(b) THEN drift ELSE drift \cup {"purge"}
  <2>1. job[w].batch \in Batches /\ job[w].batch \in Nat /\ job[w].set \in SUBSET Person
    BY DEF IInv, SessionsSound, Typed, RemoveNonResponders, Sound, Job, Batches
  <2> QED
    BY <2>1 DEF RemoveNonResponders
<1>2. batch \in Seq(Row) /\ who \in [Person -> Account] /\ UNCHANGED manual /\ Go(w, Idle)
  BY DEF IInv, Typed, RemoveNonResponders
<1>3. Cardinality(S) \in Nat
  BY CohortAssumption, FS_Subset, FS_CardinalityType
<1>4. /\ batch' \in Seq(Row) /\ Len(batch') = Len(batch) /\ Batches' = Batches
      /\ \A c \in Batches : batch'[c].status = batch[c].status
  BY <1>1, <1>2, <1>3, CountRow
<1>5. JobsKnown'
  <2>1. Queued(batch', Backfill(b, Cardinality(S)))
    <3>1. b \in DOMAIN batch' /\ b \in Nat
      BY <1>1, <1>4 DEF Batches
    <3>2. Cardinality(S) \in Int
      BY <1>3
    <3> QED
      BY <3>1, <3>2, BackfillQueued
  <2> QED
    BY <1>1, <1>4, <2>1, EnqueueKept DEF IInv
<1>6. \A p \in Person :
        /\ who'[p] \in Account /\ who'[p].batch = who[p].batch
        /\ who'[p].status = IF p \in S /\ who[p].status # "NONE" THEN "REMOVED" ELSE who[p].status
  BY <1>1, <1>2 DEF Account
<1>7. /\ who' \in [Person -> Account]
      /\ \A q \in Person : who'[q].status # "NONE" => who'[q].batch \in Batches
  BY <1>1, <1>6 DEF IInv, Typed
<1>8. IInv'
  BY <1>2, <1>4, <1>5, <1>7, IdleSound, TableStep
<1>9. ASSUME CountersAddUp PROVE CountersAddUp'
  <2>1. CASE drift' # {}
    BY <2>1 DEF CountersAddUp
  <2>2. CASE drift' = {}
    <3>1. S \in SUBSET Live(b) /\ drift = {}
      BY <1>1, <2>2
    <3>2. Live(b)' = Live(b) \ S
      BY <1>6, <3>1 DEF Live
    <3>3. \A c \in Batches : c # b => Live(c)' = Live(c)
      BY <1>6, <3>1 DEF Live
    <3> QED
      BY <1>1, <1>3, <1>9, <3>1, <3>2, <3>3, Departure
  <2> QED
    BY <2>1, <2>2
<1> QED
  BY <1>8, <1>9

(* A transaction that no session read for, and that leaves the statuses of the batches. *)
LEMMA ServerStep ==
    ASSUME IInv, UNCHANGED <<manual, job>>,
           batch' \in Seq(Row), Len(batch') = Len(batch), Batches' = Batches,
           \A c \in Batches : batch'[c].status = batch[c].status,
           who' \in [Person -> Account],
           \A p \in Person : who'[p].status # "NONE" => who'[p].batch \in Batches,
           JobsKnown'
    PROVE  IInv'
<1>1. Typed'
  BY DEF IInv, Typed
<1>2. SessionsSound'
  <2>1. \A w \in Session : Sound(batch, job[w])
    BY DEF IInv, SessionsSound
  <2> QED
    BY <2>1, SoundStays DEF SessionsSound
<1>3. FilledOnce' /\ OpenOrOpening'
  <2>1. Filling' = Filling
    BY DEF Filling
  <2> QED
    BY <2>1 DEF IInv, FilledOnce, OpenOrOpening, Opening
<1> QED
  BY <1>1, <1>2, <1>3 DEF IInv

LEMMA RecordDecisionKeeps ==
    ASSUME IInv, NEW p \in Person, RecordDecision(p)
    PROVE  IInv' /\ (CountersAddUp => CountersAddUp')
<1>1. /\ UNCHANGED <<batch, manual, job>> /\ who \in [Person -> Account]
      /\ who[p].status # "NONE" /\ who' = [who EXCEPT ![p].status = "REMOVED"]
      /\ drift' = IF StillIn(p) THEN drift \cup {"interview"} ELSE drift
      /\ Enqueue(Backfill(who[p].batch, 1))
  BY DEF RecordDecision, IInv, Typed
<1>2. \A q \in Person : /\ who'[q] \in Account /\ who'[q].batch = who[q].batch
                        /\ (who'[q].status = "NONE") = (who[q].status = "NONE")
                        /\ q # p => who'[q] = who[q]
  BY <1>1 DEF Account
<1>3. /\ who' \in [Person -> Account]
      /\ \A q \in Person : who'[q].status # "NONE" => who'[q].batch \in Batches
  BY <1>1, <1>2 DEF IInv, Typed
<1>4. batch \in Seq(Row) /\ batch' = batch /\ Batches' = Batches
  BY <1>1 DEF IInv, Typed, Batches
<1>5. JobsKnown'
  <2>1. who[p].batch \in DOMAIN batch' /\ who[p].batch \in Nat
    BY <1>1, <1>4 DEF IInv, Typed, Account, Batches
  <2>2. Queued(batch', Backfill(who[p].batch, 1))
    BY <2>1, BackfillQueued
  <2> QED
    BY <1>1, <1>4, <2>2, EnqueueKept DEF IInv
<1>6. IInv'
  BY <1>1, <1>3, <1>4, <1>5, ServerStep
<1>7. ASSUME CountersAddUp PROVE CountersAddUp'
  <2>1. CASE StillIn(p)
    BY <1>1, <2>1 DEF CountersAddUp
  <2>2. CASE ~StillIn(p)
    <3>1. who'[p].status = "REMOVED" /\ who[p].status = "REMOVED"
      BY <1>1, <2>2 DEF StillIn, Account
    <3>2. \A q \in Person : who'[q].status \notin {"NONE", "REMOVED"} <=>
                                    who[q].status \notin {"NONE", "REMOVED"}
      BY <1>2, <3>1
    <3> QED
      BY <1>1, <1>2, <1>7, <2>2, <3>2, StatusesKeep DEF IInv
  <2> QED
    BY <2>1, <2>2
<1> QED
  BY <1>6, <1>7

(* The decrement is clamped at the counter, which is no less than the members while no *)
(* counter has drifted.                                                                *)
LEMMA RemoveTeamKeeps ==
    ASSUME IInv, NEW b \in Batches, NEW members \in SUBSET Person, RemoveTeam(b, members)
    PROVE  IInv' /\ (CountersAddUp => CountersAddUp')
<1> DEFINE S == StillMembers(members)
           n == Least(Cardinality(S), batch[b].count)
<1>1. /\ S \in SUBSET Person /\ S # {} /\ UNCHANGED <<manual, queue, job>>
      /\ who' = [p \in Person |-> IF p \in S THEN [who[p] EXCEPT !.status = "REMOVED"] ELSE who[p]]
      /\ IF n > 0 THEN Count(b, -n) ELSE batch' = batch
      /\ drift' = IF S \subseteq Live(b) THEN drift ELSE drift \cup {"strayed"}
      /\ \A p \in S : who[p].status \notin {"NONE", "REMOVED"}
  BY DEF RemoveTeam, StillMembers, StillIn
<1>2. batch \in Seq(Row) /\ who \in [Person -> Account]
  BY DEF IInv, Typed
<1>3. /\ IsFiniteSet(S) /\ Cardinality(S) \in Nat /\ n \in Int
      /\ n = IF Cardinality(S) < batch[b].count THEN Cardinality(S) ELSE batch[b].count
  <2>1. IsFiniteSet(S) /\ Cardinality(S) \in Nat
    BY <1>1, CohortAssumption, FS_Subset, FS_CardinalityType
  <2>2. batch[b] \in Row
    BY <1>2 DEF Batches
  <2>3. batch[b].count \in Int
    BY <2>2 DEF Row
  <2> QED
    BY <2>1, <2>3 DEF Least
<1> HIDE DEF S, n
<1>4. /\ batch' \in Seq(Row) /\ Len(batch') = Len(batch) /\ Batches' = Batches
      /\ \A c \in Batches : batch'[c].status = batch[c].status
  <2>1. CASE Count(b, -n)
    BY <1>2, <1>3, <2>1, CountRow
  <2>2. CASE batch' = batch
    BY <1>2, <2>2 DEF Batches
  <2> QED
    BY <1>1, <2>1, <2>2
<1>5. \A p \in Person :
        /\ who'[p] \in Account /\ who'[p].batch = who[p].batch
        /\ who'[p].status = IF p \in S THEN "REMOVED" ELSE who[p].status
  BY <1>1, <1>2 DEF Account
<1>6. /\ who' \in [Person -> Account]
      /\ \A q \in Person : who'[q].status # "NONE" => who'[q].batch \in Batches
  BY <1>1, <1>5 DEF IInv, Typed
<1>7. JobsKnown'
  BY <1>1, <1>4, QueueKept DEF IInv
<1>8. IInv'
  BY <1>1, <1>4, <1>6, <1>7, ServerStep
<1>9. ASSUME CountersAddUp PROVE CountersAddUp'
  <2>1. CASE drift' # {}
    BY <2>1 DEF CountersAddUp
  <2>2. CASE drift' = {}
    <3>1. S \in SUBSET Live(b) /\ drift = {}
      BY <1>1, <2>2
    <3>2. Live(b)' = Live(b) \ S
      BY <1>5, <3>1 DEF Live
    <3>3. \A c \in Batches : c # b => Live(c)' = Live(c)
      BY <1>5, <3>1 DEF Live
    <3>4. Cardinality(S) > 0 /\ Cardinality(S) <= Cardinality(Live(b))
      BY <1>1, <1>3, <3>1, FiniteLive, FS_Subset, FS_EmptySet
    <3>5. batch[b].count = Cardinality(Live(b)) /\ Cardinality(Live(b)) \in Nat
      BY <1>9, <3>1, FiniteLive DEF CountersAddUp
    <3>6. n = Cardinality(S) /\ n > 0
      BY <1>3, <3>4, <3>5
    <3>7. Count(b, -n) /\ -n \in Int /\ -n = -Cardinality(S)
      BY <1>1, <1>3, <3>6
    <3> QED
      BY <1>9, <3>1, <3>2, <3>3, <3>7, Departure
  <2> QED
    BY <2>1, <2>2
<1> QED
  BY <1>8, <1>9

(* One unit of a count moves from a batch to another. *)
LEMMA MovedRow ==
    ASSUME batch \in Seq(Row), NEW b \in Batches, NEW c \in Batches, b # c,
           Shift(c, b)
    PROVE  /\ batch' \in Seq(Row) /\ Len(batch') = Len(batch) /\ Batches' = Batches
           /\ \A d \in Batches : batch'[d].status = batch[d].status
           /\ batch'[b].count = batch[b].count + 1 /\ batch'[c].count = batch[c].count - 1
           /\ \A d \in Batches : d # b /\ d # c => batch'[d].count = batch[d].count
<1> DEFINE up == [batch[b] EXCEPT !.count = batch[b].count + 1]
           down == [batch[c] EXCEPT !.count = batch[c].count - 1]
<1>1. batch[b] \in Row /\ batch[c] \in Row
  BY DEF Batches
<1>2. /\ up \in Row /\ up.status = batch[b].status /\ up.count = batch[b].count + 1
      /\ down \in Row /\ down.status = batch[c].status /\ down.count = batch[c].count - 1
  BY <1>1 DEF Row
<1>3. batch' = [[batch EXCEPT ![b] = up] EXCEPT ![c] = down]
  BY DEF Shift, Batches
<1> HIDE DEF up, down
<1>4. /\ batch' \in Seq(Row) /\ Len(batch') = Len(batch) /\ DOMAIN batch' = DOMAIN batch
  BY <1>3, <1>2 DEF Batches
<1>5. /\ batch'[b] = up /\ batch'[c] = down
      /\ \A d \in Batches : d # b /\ d # c => batch'[d] = batch[d]
  BY <1>3 DEF Batches
<1> QED
  BY <1>2, <1>4, <1>5 DEF Batches

LEMMA MoveOneKeeps ==
    ASSUME IInv, NEW w \in Session, NEW p \in Person, MoveOne(w, p)
    PROVE  IInv' /\ (CountersAddUp => CountersAddUp')
<1>1. PICK b \in Batches, S \in SUBSET Person :
        /\ b \in Nat /\ job[w].batch = b /\ job[w].set = S /\ job[w].pc = "move"
        /\ Sound(batch, job[w])
  BY DEF IInv, SessionsSound, Typed, MoveOne, Sound, Job, Batches
<1>2. \/ /\ p \in Live(b + 1) /\ who' = [who EXCEPT ![p] = [status |-> "DECIDED", batch |-> b]]
         /\ Shift(b + 1, b)
      \/ UNCHANGED <<who, batch>>
  BY <1>1 DEF MoveOne, StillThere
<1>3. PICK j : Go(w, j) /\ Sound(batch, j) /\ j.pc \notin {"next", "screen"}
  <2>1. S \ {p} \in SUBSET Person
    OBVIOUS
  <2>2. ASSUME NEW r, Sound(batch, r), r.pc = "move"
        PROVE  /\ Sound(batch, [r EXCEPT !.set = S \ {p}])
               /\ [r EXCEPT !.set = S \ {p}].pc = "move"
    BY <2>1, <2>2 DEF Sound, Job, Pc
  <2>3. \/ Go(w, Idle)
        \/ Go(w, [job[w] EXCEPT !.set = S \ {p}])
    BY <1>1 DEF MoveOne
  <2> QED
    BY <1>1, <2>2, <2>3, IdleSound
<1>4. /\ batch \in Seq(Row) /\ who \in [Person -> Account] /\ UNCHANGED <<manual, queue, drift>>
      /\ p \in Live(b + 1) => b + 1 \in Batches
  BY DEF IInv, Typed, MoveOne, Live
<1>5. /\ batch' \in Seq(Row) /\ Len(batch') = Len(batch) /\ Batches' = Batches
      /\ \A c \in Batches : batch'[c].status = batch[c].status
  <2>1. CASE p \in Live(b + 1) /\ Shift(b + 1, b)
    BY <1>1, <1>4, <2>1, MovedRow
  <2>2. CASE UNCHANGED batch
    BY <1>4, <2>2 DEF Batches
  <2> QED
    BY <1>2, <2>1, <2>2
<1>6. Sound(batch', j)
  BY <1>3, <1>5, SoundStays
<1>7. /\ who' \in [Person -> Account]
      /\ \A q \in Person : who'[q].status # "NONE" => who'[q].batch \in Batches
  <2>1. [status |-> "DECIDED", batch |-> b] \in Account
    BY <1>1 DEF Account
  <2>2. /\ who \in [Person -> Account]
        /\ \A q \in Person : who[q].status # "NONE" => who[q].batch \in Batches
    BY DEF IInv, Typed
  <2>3. CASE UNCHANGED who
    BY <2>2, <2>3
  <2>4. CASE who' = [who EXCEPT ![p] = [status |-> "DECIDED", batch |-> b]]
    BY <1>1, <2>1, <2>2, <2>4
  <2> QED
    BY <1>2, <2>3, <2>4
<1>8. JobsKnown'
  BY <1>4, <1>5, QueueKept DEF IInv
<1>9. IInv'
  BY <1>3, <1>4, <1>5, <1>6, <1>7, <1>8, TableStep
<1>10. ASSUME CountersAddUp PROVE CountersAddUp'
  <2>1. CASE drift # {}
    BY <1>4, <2>1 DEF CountersAddUp
  <2>2. CASE UNCHANGED <<who, batch>>
    BY <1>4, <1>10, <2>2 DEF CountersAddUp, Live, Batches
  <2>3. CASE /\ drift = {} /\ p \in Live(b + 1)
             /\ who' = [who EXCEPT ![p] = [status |-> "DECIDED", batch |-> b]]
             /\ Shift(b + 1, b)
    <3>1. b + 1 \in Batches /\ b # b + 1 /\ b + 1 \in Nat
      BY <1>1, <1>4, <2>3
    <3>2. /\ batch'[b].count = batch[b].count + 1 /\ batch'[b + 1].count = batch[b + 1].count - 1
          /\ \A d \in Batches : d # b /\ d # b + 1 => batch'[d].count = batch[d].count
      BY <1>4, <2>3, <3>1, MovedRow
    <3>3. who'[p].status = "DECIDED" /\ who'[p].batch = b /\ \A q \in Person : q # p => who'[q] = who[q]
      BY <1>4, <2>3
    <3>4. Live(b)' = Live(b) \cup {p} /\ p \notin Live(b)
      BY <1>1, <2>3, <3>3 DEF Live
    <3>5. Live(b + 1)' = Live(b + 1) \ {p}
      BY <1>1, <2>3, <3>3 DEF Live
    <3>6. \A d \in Batches : d # b /\ d # b + 1 => Live(d)' = Live(d)
      BY <2>3, <3>3 DEF Live
    <3>7. Cardinality(Live(b)') = Cardinality(Live(b)) + 1
      BY <3>4, OneMore
    <3>8. Cardinality(Live(b + 1)') = Cardinality(Live(b + 1)) - 1
      BY <2>3, <3>5, FiniteLive, FS_RemoveElement
    <3>9. /\ batch'[b].count = Cardinality(Live(b)')
          /\ batch'[b + 1].count = Cardinality(Live(b + 1)')
      BY <1>10, <2>3, <3>1, <3>2, <3>7, <3>8 DEF CountersAddUp
    <3>10. \A d \in Batches : d # b /\ d # b + 1 => batch'[d].count = Cardinality(Live(d)')
      BY <1>10, <2>3, <3>2, <3>6 DEF CountersAddUp
    <3> QED
      BY <1>5, <3>9, <3>10 DEF CountersAddUp
  <2> QED
    BY <1>2, <2>1, <2>2, <2>3
<1> QED
  BY <1>9, <1>10

-----------------------------------------------------------------------------
(* The invariant is inductive, and so are the counters under it. *)

LEMMA InitIInv == Init => IInv /\ CountersAddUp
<1> SUFFICES ASSUME Init PROVE IInv /\ CountersAddUp
  OBVIOUS
<1>1. Batches = {} /\ Filling = {} /\ BagToSet(queue) = {} /\ Len(batch) = 0
  BY DEF Init, Batches, Filling, EmptyBag, SetToBag, BagToSet
<1>2. Nobody \in Account /\ Nobody.status = "NONE"
  BY DEF Nobody, Account
<1>3. Typed
  BY <1>1, <1>2 DEF Init, Typed
<1>4. \A w \in Session : job[w] = Idle
  BY DEF Init
<1>5. JobsKnown /\ SessionsSound /\ FilledOnce
  BY <1>1, <1>4, IdleSound DEF JobsKnown, SessionsSound, FilledOnce
<1>6. ~Opening
  BY <1>4, IdleSound DEF Opening
<1>7. OpenOrOpening
  BY <1>1, <1>6, FS_EmptySet DEF Init, OpenOrOpening
<1> QED
  BY <1>1, <1>3, <1>5, <1>7 DEF IInv, CountersAddUp

(* Steps that write neither counts nor applicants nor drift. *)
LEMMA CountersStay ==
    ASSUME CountersAddUp, UNCHANGED <<who, drift>>,
           Batches' = Batches, \A b \in Batches : batch'[b].count = batch[b].count
    PROVE  CountersAddUp'
<1>1. \A b : Live(b)' = Live(b)
  BY DEF Live
<1> QED
  BY <1>1 DEF CountersAddUp

(* A batch that is only now made has nobody. *)
LEMMA CountersOfNew ==
    ASSUME IInv, CountersAddUp, UNCHANGED <<who, drift>>, batch' = Append(batch, NewBatch)
    PROVE  CountersAddUp'
<1> DEFINE new == Len(batch) + 1
<1>1. /\ Batches' = Batches \cup {new} /\ new \notin Batches /\ batch'[new] = NewBatch
      /\ \A b \in Batches : batch'[b] = batch[b]
  BY NewRow
<1> HIDE DEF new
<1>2. \A b : Live(b)' = Live(b)
  BY DEF Live
<1>3. Live(new) = {}
  BY <1>1 DEF Live, IInv, Typed
<1>4. Cardinality(Live(new)) = 0
  BY <1>3, FS_EmptySet
<1>5. batch'[new].count = 0
  <2>1. NewBatch.count = 0
    BY DEF NewBatch
  <2> QED
    BY <1>1, <2>1
<1>6. ASSUME drift = {} PROVE \A b \in Batches' : batch'[b].count = Cardinality(Live(b))
  BY <1>1, <1>4, <1>5, <1>6 DEF CountersAddUp
<1> QED
  BY <1>2, <1>6 DEF CountersAddUp

(* The status of a batch that is written leaves its count. *)
LEMMA CountersOfStatus ==
    ASSUME IInv, CountersAddUp, UNCHANGED <<who, drift>>, NEW b \in Batches, NEW s,
           batch' = [batch EXCEPT ![b].status = s]
    PROVE  CountersAddUp'
<1> DEFINE row == [batch[b] EXCEPT !.status = s]
<1>1. batch \in Seq(Row) /\ batch[b] \in Row
  BY DEF IInv, Typed, Batches
<1>2. batch' = [batch EXCEPT ![b] = row] /\ row.count = batch[b].count
  BY <1>1 DEF Row
<1> HIDE DEF row
<1>3. Batches' = Batches /\ \A c \in Batches : batch'[c].count = batch[c].count
  BY <1>1, <1>2 DEF Batches
<1> QED
  BY <1>3, CountersStay

LEMMA NextKeeps == IInv /\ [Next]_vars => IInv'
<1> SUFFICES ASSUME IInv, [Next]_vars PROVE IInv'
  OBVIOUS
<1>1. CASE CreateBatch
  BY <1>1, CreateBatchKeeps
<1>2. CASE \E p \in Person, status \in {"PENDING", "DECIDED"} : SetStatus(p, status)
  BY <1>2, SetStatusKeeps
<1>0. CASE \/ \E p \in Person : RecordDecision(p)
           \/ \E b \in Batches, S \in SUBSET Person : RemoveTeam(b, S)
  BY <1>0, RecordDecisionKeeps, RemoveTeamKeeps
<1>3. ASSUME NEW w \in Session, NEW p \in Person,
             \/ \E via \in {"apply", "otp"} : ReadFilling(w, p, via)
             \/ ReadMember(w, p) \/ ReadDeleted(w, p)
      PROVE  IInv'
  BY <1>3, ReadFillingKeeps, ReadPersonKeeps
<1>4. ASSUME NEW w \in Session, NEW b \in Batches,
             \/ ReadStatus(w, b) \/ ReadPending(w, b)
             \/ \E S \in SUBSET Person : ReadNonResponders(w, b, S)
      PROVE  IInv'
  BY <1>4, ReadStatusKeeps, ReadPendingKeeps, ReadNonRespondersKeeps
<1>5. ASSUME NEW w \in Session, NEW q \in BagToSet(queue),
             \/ \E b \in Filling : CheckCapacity(w, q, b)
             \/ StartBackfill(w, q) \/ FindNothing(w, q)
      PROVE  IInv'
  BY <1>5, CheckCapacityKeeps, StartBackfillKeeps, FindNothingKeeps
<1>6. ASSUME NEW w \in Session, Step(w) PROVE IInv'
  BY <1>6, MintKeeps, JoinKeeps, TransitionStatusKeeps, RecountKeeps, FlipFullKeeps, MakeNextKeeps,
     ScreenBatchKeeps, RemoveApplicantKeeps, HardDeleteKeeps, RemoveNonRespondersKeeps,
     MoveOneKeeps, RefuseKeeps DEF Step
<1>7. ASSUME NEW w \in Session, Fail(w) PROVE IInv'
  BY <1>7, FailKeeps
<1>8. CASE UNCHANGED vars
  <2>1. UNCHANGED <<batch, manual, who, queue, job>>
    BY <1>8 DEF vars
  <2> QED
    BY <2>1 DEF IInv, Typed, JobsKnown, SessionsSound, FilledOnce, OpenOrOpening, Opening,
                Filling, Batches
<1>9. CASE Next
  BY <1>0, <1>1, <1>2, <1>3, <1>4, <1>5, <1>6, <1>7, <1>9 DEF Next
<1> QED
  BY <1>8, <1>9

LEMMA CountersKept ==
    ASSUME IInv, CountersAddUp, [Next]_vars
    PROVE  CountersAddUp'
<1>1. ASSUME UNCHANGED <<batch, who, drift>> PROVE CountersAddUp'
  BY <1>1, CountersStay DEF Batches
<1>2. CASE CreateBatch
  BY <1>2, CountersOfNew DEF CreateBatch
<1>3. CASE \E p \in Person, status \in {"PENDING", "DECIDED"} : SetStatus(p, status)
  BY <1>3, SetStatusKeeps
<1>0. CASE \/ \E p \in Person : RecordDecision(p)
           \/ \E b \in Batches, S \in SUBSET Person : RemoveTeam(b, S)
  BY <1>0, RecordDecisionKeeps, RemoveTeamKeeps
<1>4. ASSUME NEW w \in Session, NEW p \in Person,
             \/ \E via \in {"apply", "otp"} : ReadFilling(w, p, via)
             \/ ReadMember(w, p) \/ ReadDeleted(w, p)
      PROVE  CountersAddUp'
  BY <1>1, <1>4 DEF ReadFilling, ReadMember, ReadDeleted, Begin
<1>5. ASSUME NEW w \in Session, NEW b \in Batches,
             \/ ReadStatus(w, b) \/ ReadPending(w, b)
             \/ \E S \in SUBSET Person : ReadNonResponders(w, b, S)
      PROVE  CountersAddUp'
  BY <1>1, <1>5 DEF ReadStatus, ReadPending, ReadNonResponders, Begin
<1>6. ASSUME NEW w \in Session, NEW q \in BagToSet(queue),
             \/ \E b \in Filling : CheckCapacity(w, q, b)
             \/ StartBackfill(w, q) \/ FindNothing(w, q)
      PROVE  CountersAddUp'
  BY <1>1, <1>6 DEF CheckCapacity, StartBackfill, FindNothing, Take
<1>7. ASSUME NEW w \in Session, Recount(w) \/ Refuse(w) \/ Fail(w)
      PROVE  CountersAddUp'
  BY <1>1, <1>7 DEF Recount, Refuse, Fail, Release
<1>8. ASSUME NEW w \in Session, Mint(w) \/ MakeNext(w)
      PROVE  CountersAddUp'
  <2>1. UNCHANGED <<who, drift>> /\ (batch' = batch \/ batch' = Append(batch, NewBatch))
    BY <1>8 DEF Mint, MakeNext
  <2> QED
    BY <1>1, <2>1, CountersOfNew
<1>9. ASSUME NEW w \in Session, FlipFull(w) \/ TransitionStatus(w)
      PROVE  CountersAddUp'
  <2>1. job[w].batch \in Batches
    BY <1>9 DEF IInv, SessionsSound, Sound, FlipFull, TransitionStatus, Batches
  <2>2. /\ UNCHANGED <<who, drift>>
        /\ \/ batch' = batch
           \/ \E s : batch' = [batch EXCEPT ![job[w].batch].status = s]
    BY <1>9 DEF FlipFull, TransitionStatus
  <2> QED
    BY <1>1, <2>1, <2>2, CountersOfStatus
<1>10. ASSUME NEW w \in Session,
              \/ Join(w) \/ ScreenBatch(w) \/ RemoveApplicant(w) \/ HardDelete(w)
              \/ RemoveNonResponders(w) \/ \E p \in Person : MoveOne(w, p)
       PROVE  CountersAddUp'
  BY <1>10, JoinKeeps, ScreenBatchKeeps, RemoveApplicantKeeps, HardDeleteKeeps,
     RemoveNonRespondersKeeps, MoveOneKeeps
<1>11. CASE UNCHANGED vars
  BY <1>1, <1>11 DEF vars
<1>12. ASSUME NEW w \in Session, Step(w) PROVE CountersAddUp'
  BY <1>7, <1>8, <1>9, <1>10, <1>12 DEF Step
<1>13. CASE Next
  BY <1>0, <1>2, <1>3, <1>4, <1>5, <1>6, <1>7, <1>12, <1>13 DEF Next
<1> QED
  BY <1>11, <1>13

-----------------------------------------------------------------------------
(* The theorems. *)

(* However many sessions hold a job that closes a full batch, the notifications, the next *)
(* batch and the screening that follow are run by one of them.                              *)
THEOREM FollowedUpOnce == Spec => []FilledOnce
<1>1. IInv => FilledOnce
  BY DEF IInv
<1> QED
  BY <1>1, InitIInv, NextKeeps, PTL DEF Spec

(* However sign-ups and capacity checks race to open a batch, one is open, but for those *)
(* an admin opened.                                                                        *)
THEOREM OneOpenBatch == Spec => []OneFilling
<1>1. IInv => OneFilling
  BY FiniteBatches DEF IInv, OpenOrOpening, OneFilling
<1> QED
  BY <1>1, InitIInv, NextKeeps, PTL DEF Spec

(* Through every race of sign-ups, removals, cascades and their retries a counter is the *)
(* number of those who are in, as long as none of the known causes of a drift has happened. *)
THEOREM CountersTrue == Spec => []CountersAddUp
<1>1. IInv /\ CountersAddUp /\ [Next]_vars => CountersAddUp'
  BY CountersKept
<1> QED
  BY <1>1, InitIInv, NextKeeps, PTL DEF Spec

=============================================================================
