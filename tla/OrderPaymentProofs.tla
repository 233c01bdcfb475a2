------------------------- MODULE OrderPaymentProofs -------------------------
(***************************************************************************)
(* What is proved of OrderPayment, for any lines, sessions, targets and     *)
(* times: a reservation ends with PENDING_PAYMENT, a line is sold once, a   *)
(* paid order loses only what had expired, and a cancel of a paid order     *)
(* returns its units.                                                       *)
(***************************************************************************)
EXTENDS OrderPayment, FiniteSetTheorems, TLAPS

-----------------------------------------------------------------------------
(* The inductive invariant.                                                *)

Order == [status : Status, paymentStatus : {"UNPAID", "PAID"}, linked : BOOLEAN]

Hold == {"ACTIVE", "CONSUMED", "RELEASED", "EXPIRED"}

(* What a session has noted of some of the lines. *)
Noted(V) == UNION {[L -> V] : L \in SUBSET Line}

Action == {"commit", "release", "restock"}

Ended == {"CONSUMED", "RELEASED", "EXPIRED"}

Unit == {0, 1}

Pc == {"idle", "cas", "lock", "read", "list", "lines", "flip", "write", "end"}

Job == [kind : {"none", "captured", "failed", "transition", "expire"}, pc : Pc,
        to : Targets \cup {"CANCELLED", "none"}, read : Status \cup {"none"},
        todo : Noted(Action), line : SUBSET Line,
        newOrder : SUBSET Order, newHold : Noted(Ended), newTaken : Noted(Unit),
        by : {"webhook", "admin", "cron", "none"}]

Typed ==
    /\ order \in Order
    /\ hold \in [Line -> Hold]
    /\ taken \in [Line -> {0, 1}]
    /\ cancelledBy \in {"nobody", "webhook", "admin", "cron"}
    /\ age \in 0 .. MaxAge
    /\ statusLock \subseteq Worker /\ stockLock \in [Line -> SUBSET Worker]
    /\ job \in [Worker -> Job]

(* What the committed rows say of one another. *)
Rows ==
    /\ HoldsEndWithPending /\ SoldOnce /\ PaidLosesOnlyExpired
    /\ order.paymentStatus = "PAID" => order.status # "PENDING_PAYMENT"
    /\ \A l \in Line : hold[l] = "CONSUMED" => order.status # "PENDING_PAYMENT"
    /\ \A l \in Line : hold[l] = "RELEASED" => order.status = "CANCELLED"

Webhook(j) == j.kind \in {"captured", "failed"}

Cancel(j) == j.kind = "transition" /\ j.to = "CANCELLED"

(* The lines with which a session has changed something. *)
Changed(j) == DOMAIN j.newHold \cup DOMAIN j.newTaken

Promoted(kind) ==
    IF kind = "captured" THEN [order EXCEPT !.status = "CONFIRMED", !.paymentStatus = "PAID"]
    ELSE [order EXCEPT !.status = "CANCELLED"]

(* A session's place in its program, and what it may have written there. *)
Shape(j) ==
    /\ j.pc \in {"idle", "cas", "lock", "read", "list"} => DOMAIN j.todo = {} /\ Changed(j) = {}
    /\ j.pc \in {"write", "end"} => DOMAIN j.todo = {}
    /\ j.pc = "flip" => \E l \in DOMAIN j.todo : j.line = {l}
    /\ j.pc = "cas" => Webhook(j)
    /\ j.pc \in {"lock", "read", "write"} => j.kind = "transition"
    /\ j.pc = "list" => Webhook(j) \/ Cancel(j)
    /\ j.kind = "transition" /\ (j.pc \in {"lines", "flip"} \/ Changed(j) # {}) => Cancel(j)
    /\ j.pc # "idle" => j.kind # "none" /\ j.by # "none"

(* The row of the order: who has written it, and from which status. *)
Written(j) ==
    /\ Webhook(j) /\ j.pc \in {"list", "lines", "flip", "end"} =>
            order.status = "PENDING_PAYMENT" /\ j.newOrder = {Promoted(j.kind)}
    /\ j.kind = "transition" /\ j.pc = "end" => j.newOrder = {[order EXCEPT !.status = j.to]}
    /\ j.newOrder # {} => \/ Webhook(j) /\ j.pc \in {"list", "lines", "flip", "end"}
                          \/ j.kind = "transition" /\ j.pc = "end"

(* What a transition has read is still so, unless a webhook has moved an unpaid order. *)
StillRead(j) ==
    j.kind = "transition" /\ j.pc \in {"list", "lines", "flip", "write", "end"} =>
        /\ j.read \in Status /\ j.to \in Allowed[j.read]
        /\ j.read # "PENDING_PAYMENT" => order.status = j.read
        /\ j.read = "PENDING_PAYMENT" => order.status \in {"PENDING_PAYMENT", "CONFIRMED", "CANCELLED"}
        /\ j.read = "PENDING_PAYMENT" /\ order.status = "CANCELLED" =>
            \A l \in Line : hold[l] # "CONSUMED"

(* The notes of a session agree with the rows. *)
NotesAgree(j) ==
    /\ \A l \in DOMAIN j.newHold :
        /\ hold[l] = "ACTIVE"
        /\ j.newHold[l] = CASE j.kind = "captured" -> "CONSUMED"
                            [] j.kind = "expire" -> "EXPIRED"
                            [] OTHER -> "RELEASED"
        /\ j.kind = "captured" => l \in DOMAIN j.newTaken
    /\ \A l \in DOMAIN j.newTaken :
        \/ j.kind = "captured" /\ l \in DOMAIN j.newHold /\ j.newTaken[l] = 1
        \/ /\ Cancel(j) /\ hold[l] = "CONSUMED" /\ j.newTaken[l] = 0
           /\ order.status \notin {"PENDING_PAYMENT", "CANCELLED"}
    /\ \A l \in DOMAIN j.todo :
        /\ l \notin Changed(j)
        /\ j.todo[l] = "commit" <=> j.kind = "captured"
        /\ j.todo[l] = "restock" => /\ Cancel(j) /\ hold[l] = "CONSUMED"
                                    /\ order.status \notin {"PENDING_PAYMENT", "CANCELLED"}

(* No line is forgotten: neither one that is held, nor, by a cancel of a paid order, one *)
(* that was sold.                                                                        *)
Complete(j) ==
    j.pc \in {"lines", "flip", "write", "end"} =>
        /\ Webhook(j) \/ Cancel(j) =>
            \A l \in Line : hold[l] = "ACTIVE" => l \in DOMAIN j.todo \cup DOMAIN j.newHold
        /\ Cancel(j) /\ j.read # "PENDING_PAYMENT" =>
            \A l \in Line : hold[l] = "CONSUMED" => \/ l \in DOMAIN j.todo /\ j.todo[l] = "restock"
                                                    \/ l \in DOMAIN j.newTaken

Sound(j) == Shape(j) /\ Written(j) /\ StillRead(j) /\ NotesAgree(j) /\ Complete(j)

(* One session at most has written the order, runs a transition beyond its lock, or has *)
(* changed a line.                                                                       *)
Exclusive ==
    /\ \A v, w \in Worker : job[v].newOrder # {} /\ job[w].newOrder # {} => v = w
    /\ \A v, w \in statusLock : v = w
    /\ \A w \in Worker : job[w].kind = "transition" /\ job[w].pc # "lock" => w \in statusLock
    /\ \A w \in Worker : \A l \in Changed(job[w]) : stockLock[l] = {w}

IInv == Typed /\ Rows /\ Exclusive /\ \A w \in Worker : Sound(job[w])

-----------------------------------------------------------------------------
(* Notes about lines. *)

LEMMA WithNoted ==
    ASSUME NEW V, NEW f \in Noted(V), NEW l \in Line, NEW v \in V
    PROVE  With(f, l, v) \in Noted(V)
<1>1. PICK L \in SUBSET Line : f \in [L -> V]
  BY DEF Noted
<1>2. With(f, l, v) \in [L \cup {l} -> V] /\ L \cup {l} \in SUBSET Line
  BY <1>1 DEF With
<1> QED
  BY <1>2 DEF Noted

LEMMA WithoutNoted ==
    ASSUME NEW V, NEW f \in Noted(V), NEW l
    PROVE  Without(f, l) \in Noted(V)
<1>1. PICK L \in SUBSET Line : f \in [L -> V]
  BY DEF Noted
<1>2. Without(f, l) \in [L \ {l} -> V] /\ L \ {l} \in SUBSET Line
  BY <1>1 DEF Without
<1> QED
  BY <1>2 DEF Noted

LEMMA NotedAt ==
    ASSUME NEW V, NEW f \in Noted(V)
    PROVE  DOMAIN f \subseteq Line /\ \A x \in DOMAIN f : f[x] \in V
BY DEF Noted

LEMMA NoteAll ==
    ASSUME NEW V, NEW L \in SUBSET Line, NEW f \in [L -> V]
    PROVE  f \in Noted(V)
BY DEF Noted

LEMMA IdleSound ==
    /\ Idle \in Job /\ Sound(Idle) /\ Idle.newOrder = {} /\ Changed(Idle) = {}
    /\ Idle.kind = "none" /\ Idle.pc = "idle" /\ Idle.todo = Empty /\ DOMAIN Empty = {}
    /\ Idle.newHold = Empty /\ Idle.newTaken = Empty /\ Idle.line = {}
<1>1. /\ \A V : Empty \in Noted(V)
      /\ DOMAIN Empty = {}
  <2>1. DOMAIN Empty = {} /\ \A V : Empty \in [{} -> V]
    BY DEF Empty
  <2> QED
    BY <2>1 DEF Noted
<1>2. Idle \in Job
  BY <1>1 DEF Idle, Job, Pc
<1>3. /\ Idle.newOrder = {} /\ Idle.kind = "none" /\ Idle.pc = "idle" /\ Idle.todo = Empty
      /\ Idle.newHold = Empty /\ Idle.newTaken = Empty /\ Idle.line = {}
  BY DEF Idle
<1>4. Changed(Idle) = {}
  BY <1>1, <1>3 DEF Changed
<1>5. Sound(Idle)
  BY <1>1, <1>3, <1>4
     DEF Sound, Shape, Written, StillRead, NotesAgree, Complete, Webhook, Cancel
<1> QED
  BY <1>1, <1>2, <1>3, <1>4, <1>5

-----------------------------------------------------------------------------
(* A step of one session that commits nothing. *)

(* The locks after a step of w: it has given some back, or has taken some that were free. *)
LocksOf(w) ==
    /\ statusLock' \ {w} = statusLock \ {w} /\ statusLock' \in SUBSET Worker
    /\ w \in statusLock' => statusLock \subseteq {w}
    /\ stockLock' \in [Line -> SUBSET Worker]
    /\ \A l \in Line : \/ stockLock'[l] = stockLock[l]
                       \/ stockLock'[l] = stockLock[l] \ {w}
                       \/ stockLock[l] \subseteq {w} /\ stockLock'[l] = {w}

LEMMA ExclusiveStep ==
    ASSUME IInv, NEW w \in Worker, NEW j \in Job, job' = [job EXCEPT ![w] = j], LocksOf(w),
           j.newOrder # {} => \A v \in Worker \ {w} : job[v].newOrder = {},
           j.kind = "transition" /\ j.pc # "lock" => w \in statusLock',
           \A l \in Changed(j) : stockLock'[l] = {w}
    PROVE  Exclusive' /\ job' \in [Worker -> Job]
<1>1. job' \in [Worker -> Job] /\ job'[w] = j /\ \A v \in Worker \ {w} : job'[v] = job[v]
  BY DEF IInv, Typed
<1>2. \A v \in Worker : Changed(job[v]) \subseteq Line
  BY NotedAt DEF IInv, Typed, Job, Changed
<1>3. \A u, v \in Worker : job'[u].newOrder # {} /\ job'[v].newOrder # {} => u = v
  BY <1>1 DEF IInv, Exclusive
<1>4. \A u, v \in statusLock' : u = v
  BY DEF IInv, Exclusive, LocksOf
<1>5. \A v \in Worker : job'[v].kind = "transition" /\ job'[v].pc # "lock" => v \in statusLock'
  BY <1>1 DEF IInv, Exclusive, LocksOf
<1>6. ASSUME NEW v \in Worker, NEW l \in Changed(job'[v]) PROVE stockLock'[l] = {v}
  <2>1. CASE v = w
    BY <1>1, <1>6, <2>1
  <2>2. CASE v # w
    <3>1. l \in Changed(job[v]) /\ l \in Line /\ stockLock[l] = {v}
      BY <1>1, <1>2, <1>6, <2>2 DEF IInv, Exclusive
    <3> QED
      BY <2>2, <3>1 DEF LocksOf
  <2> QED
    BY <2>1, <2>2
<1>7. \A v \in Worker : \A l \in Changed(job'[v]) : stockLock'[l] = {v}
  BY <1>6
<1> QED
  BY <1>1, <1>3, <1>4, <1>5, <1>7 DEF Exclusive, Changed

LEMMA StepKeeps ==
    ASSUME IInv, NEW w \in Worker, NEW j \in Job, job' = [job EXCEPT ![w] = j], LocksOf(w),
           j.newOrder # {} => \A v \in Worker \ {w} : job[v].newOrder = {},
           j.kind = "transition" /\ j.pc # "lock" => w \in statusLock',
           \A l \in Changed(j) : stockLock'[l] = {w},
           UNCHANGED <<order, hold, taken, cancelledBy, age>>, Sound(j)
    PROVE  IInv'
<1>1. Exclusive' /\ job' \in [Worker -> Job]
  BY ExclusiveStep
<1>2. Typed'
  BY <1>1 DEF IInv, Typed, LocksOf
<1>3. Rows'
  BY DEF IInv, Rows, HoldsEndWithPending, SoldOnce, PaidLosesOnlyExpired
<1>4. \A v \in Worker : job'[v] = IF v = w THEN j ELSE job[v]
  BY DEF IInv, Typed
<1>5. ASSUME NEW v \in Worker PROVE Sound(job[v])'
  <2>1. PICK i : i = job'[v]
    OBVIOUS
  <2>2. Sound(i)
    BY <1>4, <2>1 DEF IInv
  <2>3. Sound(i)'
    BY <2>2 DEF Sound, Shape, Written, StillRead, NotesAgree, Complete, Promoted
  <2> QED
    BY <2>1, <2>3
<1> QED
  BY <1>1, <1>2, <1>3, <1>5 DEF IInv

LEMMA NoLocks ==
    ASSUME IInv, NEW w \in Worker, UNCHANGED <<statusLock, stockLock>> \/ FreeLocks(w)
    PROVE  LocksOf(w)
BY DEF IInv, Typed, Exclusive, LocksOf, FreeLocks

LEMMA GoKeeps ==
    ASSUME IInv, NEW w \in Worker, NEW j \in Job, Go(w, j), UNCHANGED age, Sound(j),
           j.newOrder # {} => \A v \in Worker \ {w} : job[v].newOrder = {},
           j.kind = "transition" /\ j.pc # "lock" => w \in statusLock,
           Changed(j) \subseteq Changed(job[w])
    PROVE  IInv'
<1>1. /\ job' = [job EXCEPT ![w] = j] /\ UNCHANGED <<order, hold, taken, cancelledBy>>
      /\ UNCHANGED <<statusLock, stockLock>>
  BY DEF Go
<1>2. \A l \in Changed(j) : stockLock'[l] = {w}
  BY <1>1 DEF IInv, Exclusive
<1> QED
  BY <1>1, <1>2, NoLocks, StepKeeps

LEMMA RollbackKeeps ==
    ASSUME IInv, NEW w \in Worker, Rollback(w), UNCHANGED age
    PROVE  IInv'
<1>1. /\ job' = [job EXCEPT ![w] = Idle] /\ UNCHANGED <<order, hold, taken, cancelledBy>>
      /\ FreeLocks(w)
  BY DEF Rollback
<1>2. \A l \in Changed(Idle) : stockLock'[l] = {w}
  BY IdleSound
<1> QED
  BY <1>1, <1>2, IdleSound, NoLocks, StepKeeps

-----------------------------------------------------------------------------
(* The steps of a session. *)

LEMMA StartKeeps ==
    ASSUME IInv, NEW w \in Worker, NEW j \in Job, Start(w, j), j.newOrder = {}, Sound(j),
           Changed(j) = {}, j.kind = "transition" => j.pc = "lock"
    PROVE  IInv'
<1>1. Go(w, j) /\ UNCHANGED age
  BY DEF Start, Go, env
<1> QED
  BY <1>1, GoKeeps

LEMMA StartWebhookKeeps ==
    ASSUME IInv, NEW w \in Worker, NEW event \in {"captured", "failed"}, StartWebhook(w, event)
    PROVE  IInv'
<1> DEFINE j == [Idle EXCEPT !.kind = event, !.pc = "cas", !.by = "webhook"]
<1>1. j \in Job /\ j.pc = "cas" /\ j.kind = event /\ j.by = "webhook" /\ j.newOrder = {} /\ j.todo = Empty
  BY IdleSound DEF Job, Pc
<1>2. j.newHold = Empty /\ j.newTaken = Empty
  BY IdleSound DEF Job
<1>3. Start(w, j)
  BY DEF StartWebhook
<1> HIDE DEF j
<1>4. Changed(j) = {}
  BY <1>2, IdleSound DEF Changed
<1>5. Sound(j)
  BY <1>1, <1>2, <1>4, IdleSound
     DEF Sound, Shape, Written, StillRead, NotesAgree, Complete, Webhook, Cancel
<1> QED
  BY <1>1, <1>3, <1>4, <1>5, StartKeeps

(* An admin and the cron ask for a transition alike. *)
LEMMA AskedKeeps ==
    ASSUME IInv, NEW w \in Worker, NEW to \in Targets \cup {"CANCELLED"}, NEW by \in {"admin", "cron"},
           Start(w, [Idle EXCEPT !.kind = "transition", !.pc = "lock", !.to = to, !.by = by])
    PROVE  IInv'
<1> DEFINE j == [Idle EXCEPT !.kind = "transition", !.pc = "lock", !.to = to, !.by = by]
<1>1. j \in Job /\ j.pc = "lock" /\ j.kind = "transition" /\ j.by = by /\ j.newOrder = {}
      /\ j.todo = Empty
  BY IdleSound DEF Job, Pc
<1>2. j.newHold = Empty /\ j.newTaken = Empty
  BY IdleSound DEF Job
<1> HIDE DEF j
<1>3. Changed(j) = {}
  BY <1>2, IdleSound DEF Changed
<1>4. Sound(j)
  BY <1>1, <1>2, <1>3, IdleSound
     DEF Sound, Shape, Written, StillRead, NotesAgree, Complete, Webhook, Cancel
<1> QED
  BY <1>1, <1>3, <1>4, StartKeeps DEF j

LEMMA StartExpireKeeps ==
    ASSUME IInv, NEW w \in Worker, NEW l \in Line, StartExpire(w, l)
    PROVE  IInv'
<1> DEFINE f == [x \in {l} |-> "release"]
           j == [Idle EXCEPT !.kind = "expire", !.pc = "lines", !.by = "cron", !.todo = f]
<1>1. f \in Noted(Action) /\ DOMAIN f = {l} /\ f[l] = "release"
  BY NoteAll DEF Action
<1>2. Start(w, j)
  BY DEF StartExpire
<1> HIDE DEF f
<1>3. j \in Job /\ j.pc = "lines" /\ j.kind = "expire" /\ j.by = "cron" /\ j.newOrder = {}
      /\ j.todo = f
  BY <1>1, IdleSound DEF Job, Pc
<1>4. j.newHold = Empty /\ j.newTaken = Empty
  BY IdleSound DEF Job
<1> HIDE DEF j
<1>5. Changed(j) = {}
  BY <1>4, IdleSound DEF Changed
<1>6. Sound(j)
  BY <1>1, <1>3, <1>4, <1>5, IdleSound
     DEF Sound, Shape, Written, StillRead, NotesAgree, Complete, Webhook, Cancel
<1> QED
  BY <1>2, <1>3, <1>5, <1>6, StartKeeps

(* What is known of the job of a session. *)
LEMMA JobKnown ==
    ASSUME IInv, NEW w \in Worker
    PROVE  /\ job[w] \in Job /\ Sound(job[w]) /\ order \in Order /\ hold \in [Line -> Hold]
           /\ DOMAIN job[w].todo \subseteq Line /\ Changed(job[w]) \subseteq Line
<1>1. job[w] \in Job /\ Sound(job[w]) /\ order \in Order /\ hold \in [Line -> Hold]
  BY DEF IInv, Typed
<1>2. /\ job[w].todo \in Noted(Action)
      /\ job[w].newHold \in Noted(Ended) /\ job[w].newTaken \in Noted(Unit)
  BY <1>1 DEF Job
<1>3. /\ DOMAIN job[w].todo \subseteq Line /\ DOMAIN job[w].newHold \subseteq Line
      /\ DOMAIN job[w].newTaken \subseteq Line
  BY <1>2, NotedAt
<1> QED
  BY <1>1, <1>3 DEF Changed

LEMMA WebhookCasKeeps ==
    ASSUME IInv, NEW w \in Worker, WebhookCas(w), UNCHANGED age
    PROVE  IInv'
<1>1. CASE Rollback(w)
  BY <1>1, RollbackKeeps
<1>2. CASE order.status = "PENDING_PAYMENT" /\ ~Rollback(w)
  <2> DEFINE j == [job[w] EXCEPT !.pc = "list", !.newOrder = {Promoted(job[w].kind)}]
  <2>1. Promoted(job[w].kind) \in Order
    BY JobKnown DEF Promoted, Order, Status
  <2>2. /\ j \in Job /\ j.pc = "list" /\ j.kind = job[w].kind /\ j.by = job[w].by /\ j.todo = job[w].todo
        /\ j.newOrder = {Promoted(j.kind)} /\ j.newHold = job[w].newHold
        /\ j.newTaken = job[w].newTaken
    BY <2>1, JobKnown DEF Job, Pc
  <2>3. Go(w, j) /\ RowFree(w) /\ job[w].pc = "cas"
    BY <1>2 DEF WebhookCas, Promoted
  <2> HIDE DEF j
  <2>4. /\ Changed(j) = Changed(job[w]) /\ Changed(j) = {} /\ DOMAIN j.todo = {} /\ Webhook(j)
        /\ j.by # "none"
    BY <2>2, <2>3, JobKnown DEF Changed, Sound, Shape, Webhook
  <2>5. Sound(j)
    BY <1>2, <2>2, <2>4
       DEF Sound, Shape, Written, StillRead, NotesAgree, Complete, Webhook, Cancel, Changed
  <2> QED
    BY <2>2, <2>3, <2>4, <2>5, GoKeeps DEF RowFree, Webhook
<1> QED
  BY <1>1, <1>2 DEF WebhookCas

LEMMA TransitionLockKeeps ==
    ASSUME IInv, NEW w \in Worker, TransitionLock(w), UNCHANGED age
    PROVE  IInv'
<1> DEFINE j == [job[w] EXCEPT !.pc = "read"]
<1>1. /\ j \in Job /\ j.pc = "read" /\ j.kind = job[w].kind /\ j.by = job[w].by /\ j.todo = job[w].todo
      /\ j.newOrder = job[w].newOrder /\ j.newHold = job[w].newHold
      /\ j.newTaken = job[w].newTaken
  BY JobKnown DEF Job, Pc
<1>2. /\ job[w].pc = "lock" /\ statusLock \subseteq {w} /\ statusLock' = {w}
      /\ job' = [job EXCEPT ![w] = j]
      /\ UNCHANGED <<order, hold, taken, cancelledBy, stockLock>>
  BY DEF TransitionLock
<1> HIDE DEF j
<1>3. /\ Changed(j) = {} /\ DOMAIN j.todo = {} /\ j.kind = "transition" /\ j.newOrder = {}
      /\ j.by # "none"
  BY <1>1, <1>2, JobKnown DEF Changed, Sound, Shape, Written, Webhook
<1>4. Sound(j)
  BY <1>1, <1>3
     DEF Sound, Shape, Written, StillRead, NotesAgree, Complete, Webhook, Cancel, Changed
<1>5. LocksOf(w)
  BY <1>2 DEF LocksOf, IInv, Typed
<1> QED
  BY <1>1, <1>2, <1>3, <1>4, <1>5, StepKeeps

LEMMA TransitionReadKeeps ==
    ASSUME IInv, NEW w \in Worker, TransitionRead(w), UNCHANGED age
    PROVE  IInv'
<1>1. CASE Rollback(w)
  BY <1>1, RollbackKeeps
<1>2. CASE job[w].to \in Allowed[order.status]
  <2> DEFINE pc == IF job[w].to = "CANCELLED" /\ order.status \in PreShipped
                   THEN "list" ELSE "write"
             j == [job[w] EXCEPT !.read = order.status, !.pc = pc]
  <2>1. /\ j \in Job /\ j.pc = pc /\ j.kind = job[w].kind /\ j.by = job[w].by /\ j.todo = job[w].todo
        /\ j.newOrder = job[w].newOrder /\ j.newHold = job[w].newHold
        /\ j.newTaken = job[w].newTaken /\ j.read = order.status /\ j.to = job[w].to
    BY JobKnown DEF Job, Pc, Order
  <2>2. Go(w, j) /\ job[w].pc = "read"
    BY <1>2 DEF TransitionRead
  <2>3. order.status \in Status
    BY JobKnown DEF Order
  <2>4. job[w].to = "CANCELLED" => order.status \in PreShipped
    BY <1>2, <2>3 DEF Allowed, PreShipped, Status
  <2>5. pc \in {"list", "write"} /\ (pc = "list" <=> job[w].to = "CANCELLED")
    BY <2>4
  <2> HIDE DEF pc, j
  <2>6. /\ Changed(j) = {} /\ DOMAIN j.todo = {} /\ j.kind = "transition" /\ j.newOrder = {}
        /\ j.by # "none"
    BY <2>1, <2>2, JobKnown DEF Changed, Sound, Shape, Written, Webhook
  <2>7. Sound(j)
    BY <1>2, <2>1, <2>3, <2>5, <2>6
       DEF Sound, Shape, Written, StillRead, NotesAgree, Complete, Webhook, Cancel, Changed
  <2>8. w \in statusLock
    BY <2>1, <2>2, <2>6 DEF IInv, Exclusive
  <2> QED
    BY <2>1, <2>2, <2>6, <2>7, <2>8, GoKeeps
<1> QED
  BY <1>1, <1>2 DEF TransitionRead

LEMMA ListHoldsKeeps ==
    ASSUME IInv, NEW w \in Worker, ListHolds(w), UNCHANGED age
    PROVE  IInv'
<1> DEFINE found == {l \in Line : \/ hold[l] = "ACTIVE"
                                  \/ job[w].kind = "transition" /\ hold[l] = "CONSUMED"}
           f == [l \in found |-> IF hold[l] = "CONSUMED" THEN "restock"
                                 ELSE IF job[w].kind = "captured" THEN "commit" ELSE "release"]
           j == [job[w] EXCEPT !.pc = "lines", !.todo = f]
<1>1. /\ f \in Noted(Action) /\ DOMAIN f = found
      /\ \A l \in found : f[l] = IF hold[l] = "CONSUMED" THEN "restock"
                                 ELSE IF job[w].kind = "captured" THEN "commit" ELSE "release"
  BY NoteAll DEF Action
<1>2. Go(w, j) /\ job[w].pc = "list"
  BY DEF ListHolds
<1> HIDE DEF f
<1>3. /\ j \in Job /\ j.pc = "lines" /\ j.kind = job[w].kind /\ j.by = job[w].by /\ j.todo = f
      /\ j.newOrder = job[w].newOrder /\ j.newHold = job[w].newHold
      /\ j.newTaken = job[w].newTaken /\ j.read = job[w].read /\ j.to = job[w].to
  BY <1>1, JobKnown DEF Job, Pc
<1> HIDE DEF j
<1>4. /\ Changed(job[w]) = {} /\ Changed(j) = {}
      /\ \/ Webhook(j) /\ j.kind # "transition"
         \/ Cancel(j) /\ ~Webhook(j)
  BY <1>2, <1>3, JobKnown DEF Changed, Sound, Shape, Webhook, Cancel
<1>5. Shape(j) /\ Written(j) /\ StillRead(j)
  BY <1>2, <1>3, <1>4, JobKnown DEF Sound, Shape, Written, StillRead, Webhook, Cancel
<1>6. Complete(j)
  BY <1>1, <1>3, <1>4 DEF Complete, Cancel
<1>7. ASSUME NEW l \in Line, hold[l] = "CONSUMED", Cancel(j)
      PROVE  order.status \notin {"PENDING_PAYMENT", "CANCELLED"}
  <2>1. order.status # "PENDING_PAYMENT"
    BY <1>7 DEF IInv, Rows
  <2>2. j.kind = "transition" /\ j.pc = "lines" /\ j.to = "CANCELLED"
    BY <1>3, <1>7 DEF Cancel
  <2>3. CASE j.read = "PENDING_PAYMENT"
    BY <1>5, <1>7, <2>1, <2>2, <2>3 DEF StillRead
  <2>4. CASE j.read # "PENDING_PAYMENT"
    BY <1>5, <2>1, <2>2, <2>4 DEF StillRead, Allowed
  <2> QED
    BY <2>3, <2>4
<1>8. NotesAgree(j)
  <2>1. ASSUME NEW l \in DOMAIN j.todo
        PROVE  /\ j.todo[l] = "commit" <=> j.kind = "captured"
               /\ j.todo[l] = "restock" => Cancel(j) /\ hold[l] = "CONSUMED"
    <3>1. l \in Line /\ (hold[l] = "ACTIVE" \/ (j.kind = "transition" /\ hold[l] = "CONSUMED"))
      BY <1>1, <1>3, <2>1
    <3>2. j.todo[l] = IF hold[l] = "CONSUMED" THEN "restock"
                      ELSE IF j.kind = "captured" THEN "commit" ELSE "release"
      BY <1>1, <1>3, <2>1
    <3> QED
      BY <1>4, <3>1, <3>2 DEF Cancel
  <2> QED
    BY <1>1, <1>3, <1>4, <1>7, <2>1 DEF NotesAgree, Changed
<1>9. Sound(j)
  BY <1>5, <1>6, <1>8 DEF Sound
<1>10. /\ j.newOrder # {} => \A v \in Worker \ {w} : job[v].newOrder = {}
       /\ j.kind = "transition" => w \in statusLock
  BY <1>2, <1>3 DEF IInv, Exclusive
<1> QED
  BY <1>2, <1>3, <1>4, <1>9, <1>10, GoKeeps

LEMMA ReadHoldKeeps ==
    ASSUME IInv, NEW w \in Worker, NEW l \in Line, ReadHold(w, l), UNCHANGED age
    PROVE  IInv'
<1>1. /\ job[w].pc = "lines" /\ l \in DOMAIN job[w].todo
      /\ job[w] \in Job /\ Sound(job[w])
      /\ job[w].newOrder # {} => \A v \in Worker \ {w} : job[v].newOrder = {}
      /\ job[w].kind = "transition" => w \in statusLock
  BY JobKnown DEF ReadHold, IInv, Exclusive
<1>2. CASE /\ job[w].todo[l] # "restock" /\ hold[l] # "ACTIVE"
           /\ Go(w, [job[w] EXCEPT !.todo = Without(job[w].todo, l)])
  <2> DEFINE f == Without(job[w].todo, l)
             j == [job[w] EXCEPT !.todo = f]
  <2>1. /\ f \in Noted(Action) /\ DOMAIN f = DOMAIN job[w].todo \ {l}
        /\ \A x \in DOMAIN f : f[x] = job[w].todo[x]
    <3>1. job[w].todo \in Noted(Action)
      BY <1>1 DEF Job
    <3>2. f \in Noted(Action)
      BY <3>1, WithoutNoted
    <3> QED
      BY <3>2 DEF Without
  <2> HIDE DEF f
  <2>2. /\ j \in Job /\ j.pc = job[w].pc /\ j.kind = job[w].kind /\ j.by = job[w].by /\ j.todo = f
        /\ j.newOrder = job[w].newOrder /\ j.newHold = job[w].newHold
        /\ j.newTaken = job[w].newTaken /\ j.read = job[w].read /\ j.to = job[w].to
    BY <1>1, <2>1 DEF Job
  <2>3. Go(w, j)
    BY <1>2 DEF f
  <2> HIDE DEF j
  <2>4. Changed(j) = Changed(job[w])
    BY <2>2 DEF Changed
  <2>5. Shape(j) /\ Written(j) /\ StillRead(j)
    BY <1>1, <2>2, <2>4 DEF Sound, Shape, Written, StillRead, Webhook, Cancel
  <2>6. NotesAgree(j)
    BY <1>1, <2>1, <2>2, <2>4 DEF Sound, NotesAgree, Cancel
  <2>7. Complete(j)
    BY <1>1, <1>2, <2>1, <2>2 DEF Sound, Complete, Webhook, Cancel
  <2> QED
    BY <1>1, <2>2, <2>3, <2>4, <2>5, <2>6, <2>7, GoKeeps DEF Sound
<1>3. CASE Go(w, [job[w] EXCEPT !.pc = "flip", !.line = {l}])
  <2> DEFINE j == [job[w] EXCEPT !.pc = "flip", !.line = {l}]
  <2>1. /\ j \in Job /\ j.pc = "flip" /\ j.kind = job[w].kind /\ j.by = job[w].by /\ j.todo = job[w].todo
        /\ j.newOrder = job[w].newOrder /\ j.newHold = job[w].newHold /\ j.line = {l}
        /\ j.newTaken = job[w].newTaken /\ j.read = job[w].read /\ j.to = job[w].to
    BY <1>1 DEF Job, Pc
  <2>2. Go(w, j)
    BY <1>3
  <2> HIDE DEF j
  <2>3. Changed(j) = Changed(job[w])
    BY <2>1 DEF Changed
  <2>4. Shape(j) /\ Written(j) /\ StillRead(j)
    BY <1>1, <2>1, <2>3 DEF Sound, Shape, Written, StillRead, Webhook, Cancel
  <2>5. NotesAgree(j) /\ Complete(j)
    BY <1>1, <2>1, <2>3 DEF Sound, NotesAgree, Complete, Webhook, Cancel
  <2> QED
    BY <1>1, <2>1, <2>2, <2>3, <2>4, <2>5, GoKeeps DEF Sound
<1> QED
  BY <1>1, <1>2, <1>3 DEF ReadHold

(* What a session notes when it changes a line of which it holds the lock. *)
HoldNoted(j, l, h, t) ==
    \/ h = j.newHold
    \/ /\ DOMAIN h = DOMAIN j.newHold \cup {l} /\ hold[l] = "ACTIVE"
       /\ \A x \in DOMAIN j.newHold \ {l} : h[x] = j.newHold[x]
       /\ h[l] = CASE j.kind = "captured" -> "CONSUMED"
                   [] j.kind = "expire" -> "EXPIRED"
                   [] OTHER -> "RELEASED"
       /\ j.kind = "captured" => l \in DOMAIN t

TakenNoted(j, l, h, t) ==
    \/ t = j.newTaken
    \/ /\ DOMAIN t = DOMAIN j.newTaken \cup {l}
       /\ \A x \in DOMAIN j.newTaken \ {l} : t[x] = j.newTaken[x]
       /\ \/ j.kind = "captured" /\ l \in DOMAIN h /\ t[l] = 1
          \/ j.todo[l] = "restock" /\ t[l] = 0

Flipped(j, l, h, t) ==
    [j EXCEPT !.pc = "lines", !.line = {}, !.todo = Without(j.todo, l),
              !.newHold = h, !.newTaken = t]

LEMMA FlipStep ==
    ASSUME IInv, NEW w \in Worker, NEW l \in Line, job[w].pc = "flip", l \in DOMAIN job[w].todo,
           stockLock[l] \subseteq {w}, stockLock' = [stockLock EXCEPT ![l] = {w}],
           NEW h \in Noted(Ended), NEW t \in Noted(Unit),
           job' = [job EXCEPT ![w] = Flipped(job[w], l, h, t)],
           UNCHANGED <<order, hold, taken, cancelledBy, statusLock, age>>,
           HoldNoted(job[w], l, h, t), TakenNoted(job[w], l, h, t),
           job[w].todo[l] = "restock" => l \in DOMAIN t,
           hold[l] = "ACTIVE" => l \in DOMAIN h
    PROVE  IInv'
<1> DEFINE f == Without(job[w].todo, l)
           j == [job[w] EXCEPT !.pc = "lines", !.line = {}, !.todo = f, !.newHold = h, !.newTaken = t]
<1>1. /\ job[w] \in Job /\ Sound(job[w])
      /\ job[w].newOrder # {} => \A v \in Worker \ {w} : job[v].newOrder = {}
      /\ job[w].kind = "transition" => w \in statusLock
  BY JobKnown DEF IInv, Exclusive
<1>2. /\ f \in Noted(Action) /\ DOMAIN f = DOMAIN job[w].todo \ {l}
      /\ \A x \in DOMAIN f : f[x] = job[w].todo[x]
  <2>1. job[w].todo \in Noted(Action)
    BY <1>1 DEF Job
  <2>2. f \in Noted(Action)
    BY <2>1, WithoutNoted
  <2> QED
    BY <2>2 DEF Without
<1> HIDE DEF f
<1>3. /\ j \in Job /\ j.pc = "lines" /\ j.kind = job[w].kind /\ j.by = job[w].by /\ j.todo = f
      /\ j.newOrder = job[w].newOrder /\ j.newHold = h
      /\ j.newTaken = t /\ j.read = job[w].read /\ j.to = job[w].to
  BY <1>1, <1>2 DEF Job, Pc
<1>4. job' = [job EXCEPT ![w] = j]
  BY DEF f, Flipped
<1> HIDE DEF j
<1>5. /\ Changed(j) \subseteq Changed(job[w]) \cup {l} /\ Changed(job[w]) \subseteq Changed(j)
      /\ l \notin Changed(job[w])
  BY <1>1, <1>3 DEF Changed, Sound, NotesAgree, HoldNoted, TakenNoted
<1>6. Shape(j) /\ Written(j) /\ StillRead(j)
  BY <1>1, <1>3, <1>5 DEF Sound, Shape, Written, StillRead, Webhook, Cancel
<1>7. Complete(j)
  BY <1>1, <1>2, <1>3 DEF Sound, Complete, Webhook, Cancel, HoldNoted, TakenNoted
<1>8. ASSUME NEW x \in DOMAIN j.newHold
      PROVE  /\ hold[x] = "ACTIVE"
             /\ j.newHold[x] = CASE j.kind = "captured" -> "CONSUMED"
                                 [] j.kind = "expire" -> "EXPIRED"
                                 [] OTHER -> "RELEASED"
             /\ j.kind = "captured" => x \in DOMAIN j.newTaken
  BY <1>1, <1>3, <1>5, <1>8 DEF Sound, NotesAgree, Changed, HoldNoted, TakenNoted
<1>9. ASSUME NEW x \in DOMAIN j.newTaken
      PROVE  \/ j.kind = "captured" /\ x \in DOMAIN j.newHold /\ j.newTaken[x] = 1
             \/ /\ Cancel(j) /\ hold[x] = "CONSUMED" /\ j.newTaken[x] = 0
                /\ order.status \notin {"PENDING_PAYMENT", "CANCELLED"}
  BY <1>1, <1>3, <1>5, <1>9 DEF Sound, NotesAgree, Changed, Cancel, HoldNoted, TakenNoted
<1>10. ASSUME NEW x \in DOMAIN j.todo
       PROVE  /\ x \notin Changed(j)
              /\ j.todo[x] = "commit" <=> j.kind = "captured"
              /\ j.todo[x] = "restock" => /\ Cancel(j) /\ hold[x] = "CONSUMED"
                                          /\ order.status \notin {"PENDING_PAYMENT", "CANCELLED"}
  BY <1>1, <1>2, <1>3, <1>5, <1>10 DEF Sound, NotesAgree, Cancel
<1>11. Sound(j)
  BY <1>6, <1>7, <1>8, <1>9, <1>10 DEF Sound, NotesAgree
<1>12. stockLock' \in [Line -> SUBSET Worker] /\ LocksOf(w)
  BY DEF LocksOf, IInv, Typed, Exclusive
<1>13. \A x \in Changed(j) : stockLock'[x] = {w}
  BY <1>5, JobKnown DEF IInv, Typed, Exclusive
<1> QED
  BY <1>1, <1>3, <1>4, <1>11, <1>12, <1>13, StepKeeps

LEMMA FlipHoldKeeps ==
    ASSUME IInv, NEW w \in Worker, NEW l \in Line, FlipHold(w, l), UNCHANGED age
    PROVE  IInv'
<1>1. CASE Rollback(w)
  BY <1>1, RollbackKeeps
<1>2. CASE ~Rollback(w)
  <2> DEFINE J == job[w]
             i == [J EXCEPT !.pc = "lines", !.line = {}, !.todo = Without(J.todo, l)]
  <2>1. /\ J.pc = "flip" /\ l \in DOMAIN J.todo /\ stockLock[l] \subseteq {w}
        /\ stockLock' = [stockLock EXCEPT ![l] = {w}]
        /\ UNCHANGED <<order, hold, taken, cancelledBy, statusLock, age>>
        /\ J \in Job /\ NotesAgree(J) /\ (J.todo[l] = "restock" \/ hold[l] = "ACTIVE")
    BY <1>2, JobKnown DEF FlipHold, Sound, Shape
  <2>2. /\ J.newHold \in Noted(Ended) /\ J.newTaken \in Noted(Unit)
        /\ J.todo[l] \in {"commit", "release", "restock"}
    BY <2>1, NotedAt DEF Job, Action
  <2>3. taken[l] \in {0, 1} /\ (taken[l] = 1 => hold[l] = "CONSUMED")
        /\ (hold[l] = "CONSUMED" /\ order.status # "CANCELLED" => taken[l] = 1)
    BY DEF IInv, Typed, Rows, SoldOnce
  <2>4. CASE J.todo[l] = "commit"
    <3> DEFINE h == With(J.newHold, l, "CONSUMED")
               t == With(J.newTaken, l, 1)
    <3>1. J.kind = "captured" /\ taken[l] + 1 = 1
      BY <2>1, <2>3, <2>4 DEF NotesAgree
    <3>2. job' = [job EXCEPT ![w] = [i EXCEPT !.newHold = With(i.newHold, l, "CONSUMED"),
                                              !.newTaken = With(i.newTaken, l, 1)]]
      BY <1>2, <2>4, <3>1 DEF FlipHold
    <3>3. i.newHold = J.newHold /\ i.newTaken = J.newTaken
      BY <2>1 DEF Job
    <3>4. job' = [job EXCEPT ![w] = Flipped(J, l, h, t)]
      BY <3>2, <3>3 DEF Flipped
    <3>5. /\ h \in Noted(Ended) /\ DOMAIN h = DOMAIN J.newHold \cup {l} /\ h[l] = "CONSUMED"
          /\ \A x \in DOMAIN J.newHold \ {l} : h[x] = J.newHold[x]
      <4>1. "CONSUMED" \in Ended
        BY DEF Ended
      <4>2. h \in Noted(Ended)
        BY <2>2, <4>1, WithNoted
      <4> QED
        BY <4>2 DEF With
    <3>6. /\ t \in Noted(Unit) /\ DOMAIN t = DOMAIN J.newTaken \cup {l} /\ t[l] = 1
          /\ \A x \in DOMAIN J.newTaken \ {l} : t[x] = J.newTaken[x]
      <4>1. 0 \in Unit /\ 1 \in Unit
        BY DEF Unit
      <4>2. t \in Noted(Unit)
        BY <2>2, <4>1, WithNoted
      <4> QED
        BY <4>2 DEF With
    <3> HIDE DEF h, t
    <3> QED
      BY <2>1, <2>4, <3>1, <3>4, <3>5, <3>6, FlipStep DEF HoldNoted, TakenNoted
  <2>5. CASE J.todo[l] = "release"
    <3> DEFINE h == With(J.newHold, l, FinishedAs(w))
               t == J.newTaken
    <3>1. J.kind # "captured" /\ FinishedAs(w) = IF J.kind = "expire" THEN "EXPIRED" ELSE "RELEASED"
      BY <2>1, <2>5 DEF NotesAgree, FinishedAs
    <3>2. job' = [job EXCEPT ![w] = [i EXCEPT !.newHold = With(i.newHold, l, FinishedAs(w))]]
      BY <1>2, <2>5 DEF FlipHold
    <3>3. i.newHold = J.newHold /\ J.newTaken = t
      BY <2>1 DEF Job
    <3>4. job' = [job EXCEPT ![w] = Flipped(J, l, h, t)]
      BY <2>1, <3>2, <3>3 DEF Job, Flipped
    <3>5. /\ h \in Noted(Ended) /\ DOMAIN h = DOMAIN J.newHold \cup {l} /\ h[l] = FinishedAs(w)
          /\ \A x \in DOMAIN J.newHold \ {l} : h[x] = J.newHold[x]
      <4>1. FinishedAs(w) \in Ended
        BY <3>1 DEF Ended
      <4>2. h \in Noted(Ended)
        BY <2>2, <4>1, WithNoted
      <4> QED
        BY <4>2 DEF With
    <3> HIDE DEF h
    <3> QED
      BY <2>1, <2>2, <2>5, <3>1, <3>4, <3>5, FlipStep DEF HoldNoted, TakenNoted
  <2>6. CASE J.todo[l] = "restock"
    <3> DEFINE h == J.newHold
               t == With(J.newTaken, l, 0)
    <3>1. hold[l] = "CONSUMED" /\ taken[l] - 1 = 0
      BY <2>1, <2>3, <2>6 DEF NotesAgree
    <3>2. job' = [job EXCEPT ![w] = [i EXCEPT !.newTaken = With(i.newTaken, l, 0)]]
      BY <1>2, <2>6, <3>1 DEF FlipHold
    <3>3. i.newTaken = J.newTaken
      BY <2>1 DEF Job
    <3>4. job' = [job EXCEPT ![w] = Flipped(J, l, h, t)]
      BY <2>1, <3>2, <3>3 DEF Job, Flipped
    <3>5. /\ t \in Noted(Unit) /\ DOMAIN t = DOMAIN J.newTaken \cup {l} /\ t[l] = 0
          /\ \A x \in DOMAIN J.newTaken \ {l} : t[x] = J.newTaken[x]
      <4>1. 0 \in Unit /\ 1 \in Unit
        BY DEF Unit
      <4>2. t \in Noted(Unit)
        BY <2>2, <4>1, WithNoted
      <4> QED
        BY <4>2 DEF With
    <3> HIDE DEF t
    <3> QED
      BY <2>1, <2>2, <2>6, <3>1, <3>4, <3>5, FlipStep DEF HoldNoted, TakenNoted
  <2> QED
    BY <2>2, <2>4, <2>5, <2>6
<1> QED
  BY <1>1, <1>2

LEMMA LinesDoneKeeps ==
    ASSUME IInv, NEW w \in Worker, LinesDone(w), UNCHANGED age
    PROVE  IInv'
<1> DEFINE pc == IF job[w].kind = "transition" THEN "write" ELSE "end"
           j == [job[w] EXCEPT !.pc = pc]
<1>1. /\ job[w].pc = "lines" /\ job[w].todo = Empty /\ Go(w, j)
      /\ job[w] \in Job /\ Sound(job[w])
      /\ job[w].newOrder # {} => \A v \in Worker \ {w} : job[v].newOrder = {}
      /\ job[w].kind = "transition" => w \in statusLock
  BY JobKnown DEF LinesDone, IInv, Exclusive
<1>2. /\ j \in Job /\ j.pc = pc /\ j.kind = job[w].kind /\ j.by = job[w].by /\ j.todo = Empty
      /\ j.newOrder = job[w].newOrder /\ j.newHold = job[w].newHold
      /\ j.newTaken = job[w].newTaken /\ j.read = job[w].read /\ j.to = job[w].to
  BY <1>1 DEF Job, Pc
<1>3. pc \in {"write", "end"} /\ (pc = "write" <=> j.kind = "transition")
  BY <1>2
<1> HIDE DEF j, pc
<1>4. Changed(j) = Changed(job[w]) /\ DOMAIN j.todo = {}
  BY <1>2, IdleSound DEF Changed
<1>5. Shape(j) /\ Written(j) /\ StillRead(j)
  BY <1>1, <1>2, <1>3, <1>4 DEF Sound, Shape, Written, StillRead, Webhook, Cancel
<1>6. NotesAgree(j) /\ Complete(j)
  BY <1>1, <1>2, <1>3, <1>4 DEF Sound, NotesAgree, Complete, Webhook, Cancel, Changed
<1> QED
  BY <1>1, <1>2, <1>4, <1>5, <1>6, GoKeeps DEF Sound

LEMMA TransitionWriteKeeps ==
    ASSUME IInv, NEW w \in Worker, TransitionWrite(w), UNCHANGED age
    PROVE  IInv'
<1> DEFINE o == [order EXCEPT !.status = job[w].to]
           j == [job[w] EXCEPT !.pc = "end", !.newOrder = {o}]
<1>1. /\ job[w].pc = "write" /\ RowFree(w) /\ Go(w, j)
      /\ job[w] \in Job /\ Sound(job[w]) /\ order \in Order
      /\ job[w].kind = "transition" => w \in statusLock
  BY JobKnown DEF TransitionWrite, IInv, Exclusive
<1>2. job[w].kind = "transition" /\ job[w].to \in Status
  BY <1>1 DEF Sound, Shape, StillRead, Allowed, Status
<1>3. o \in Order
  BY <1>1, <1>2 DEF Order
<1>4. /\ j \in Job /\ j.pc = "end" /\ j.kind = job[w].kind /\ j.by = job[w].by /\ j.todo = job[w].todo
      /\ j.newOrder = {[order EXCEPT !.status = j.to]} /\ j.newHold = job[w].newHold
      /\ j.newTaken = job[w].newTaken /\ j.read = job[w].read /\ j.to = job[w].to
  BY <1>1, <1>3 DEF Job, Pc
<1> HIDE DEF j, o
<1>5. Changed(j) = Changed(job[w])
  BY <1>4 DEF Changed
<1>6. Shape(j) /\ Written(j) /\ StillRead(j)
  BY <1>1, <1>2, <1>4, <1>5 DEF Sound, Shape, Written, StillRead, Webhook, Cancel
<1>7. NotesAgree(j) /\ Complete(j)
  BY <1>1, <1>2, <1>4, <1>5 DEF Sound, NotesAgree, Complete, Webhook, Cancel, Changed
<1> QED
  BY <1>1, <1>2, <1>4, <1>5, <1>6, <1>7, GoKeeps DEF Sound, RowFree

-----------------------------------------------------------------------------
(* The commit. *)

(* What a commit of w makes of the rows. *)
Row(w, l) == IF l \in DOMAIN job[w].newHold THEN job[w].newHold[l] ELSE hold[l]

Stock(w, l) == IF l \in DOMAIN job[w].newTaken THEN job[w].newTaken[l] ELSE taken[l]

LEMMA CommitRows ==
    ASSUME IInv, NEW w \in Worker, Commit(w)
    PROVE  /\ job[w].pc = "end" /\ Sound(job[w]) /\ job[w] \in Job /\ DOMAIN job[w].todo = {}
           /\ hold' \in [Line -> Hold] /\ \A l \in Line : hold'[l] = Row(w, l)
           /\ taken' \in [Line -> {0, 1}] /\ \A l \in Line : taken'[l] = Stock(w, l)
           /\ \/ job[w].newOrder = {} /\ order' = order
              \/ \E o \in Order : job[w].newOrder = {o} /\ order' = o
<1>1. job[w].pc = "end" /\ Sound(job[w]) /\ job[w] \in Job /\ DOMAIN job[w].todo = {}
  BY JobKnown DEF Commit, Sound, Shape
<1>2. /\ DOMAIN job[w].newHold \subseteq Line /\ \A l \in DOMAIN job[w].newHold : job[w].newHold[l] \in Ended
      /\ DOMAIN job[w].newTaken \subseteq Line /\ \A l \in DOMAIN job[w].newTaken : job[w].newTaken[l] \in Unit
  <2>1. job[w].newHold \in Noted(Ended) /\ job[w].newTaken \in Noted(Unit)
    BY <1>1 DEF Job
  <2> QED
    BY <2>1, NotedAt
<1>3. hold' \in [Line -> Hold] /\ \A l \in Line : hold'[l] = Row(w, l)
  BY <1>2, JobKnown DEF Commit, HoldAs, Row, Hold, Ended
<1>4. taken' \in [Line -> {0, 1}] /\ \A l \in Line : taken'[l] = Stock(w, l)
  <2>1. taken \in [Line -> {0, 1}]
    BY DEF IInv, Typed
  <2> QED
    BY <1>2, <2>1 DEF Commit, Stock, Unit
<1>5. CASE job[w].newOrder = {}
  BY <1>1, <1>3, <1>4, <1>5 DEF Commit, OrderAs
<1>6. CASE job[w].newOrder # {}
  <2>1. PICK o : job[w].newOrder = {o}
    BY <1>1, <1>6 DEF Sound, Written
  <2>2. o \in Order /\ order' = o
    BY <1>1, <2>1 DEF Job, Commit, OrderAs
  <2> QED
    BY <1>1, <1>3, <1>4, <2>1, <2>2
<1> QED
  BY <1>5, <1>6

(* The row of the order changes only by a webhook, out of PENDING_PAYMENT, or by a        *)
(* transition, from the status it read or out of what a webhook made of PENDING_PAYMENT. *)
LEMMA CommitOrder ==
    ASSUME IInv, NEW w \in Worker, Commit(w)
    PROVE  \/ order' = order /\ ~Webhook(job[w]) /\ job[w].kind # "transition"
           \/ /\ Webhook(job[w]) /\ order.status = "PENDING_PAYMENT" /\ order' = Promoted(job[w].kind)
              /\ order'.status = IF job[w].kind = "captured" THEN "CONFIRMED" ELSE "CANCELLED"
              /\ job[w].newOrder # {}
           \/ /\ job[w].kind = "transition" /\ order'.status = job[w].to
              /\ order'.paymentStatus = order.paymentStatus /\ w \in statusLock
              /\ job[w].newOrder # {}
<1>1. /\ job[w].pc = "end" /\ Sound(job[w]) /\ order \in Order
      /\ \/ job[w].newOrder = {} /\ order' = order
         \/ \E o \in Order : job[w].newOrder = {o} /\ order' = o
  BY CommitRows, JobKnown
<1>2. CASE Webhook(job[w])
  <2>1. order.status = "PENDING_PAYMENT" /\ job[w].newOrder = {Promoted(job[w].kind)}
    BY <1>1, <1>2 DEF Sound, Written
  <2>2. order' = Promoted(job[w].kind)
    BY <1>1, <2>1
  <2>3. order'.status = IF job[w].kind = "captured" THEN "CONFIRMED" ELSE "CANCELLED"
    BY <1>1, <2>2 DEF Promoted, Order
  <2> QED
    BY <1>2, <2>1, <2>2, <2>3
<1>3. CASE job[w].kind = "transition"
  <2>1. job[w].newOrder = {[order EXCEPT !.status = job[w].to]}
    BY <1>1, <1>3 DEF Sound, Written
  <2>2. order' = [order EXCEPT !.status = job[w].to]
    BY <1>1, <2>1
  <2>3. order'.status = job[w].to /\ order'.paymentStatus = order.paymentStatus
    BY <1>1, <2>2 DEF Order
  <2>4. w \in statusLock
    BY <1>1, <1>3 DEF IInv, Exclusive
  <2> QED
    BY <1>3, <2>1, <2>3, <2>4
<1>4. CASE ~Webhook(job[w]) /\ job[w].kind # "transition"
  <2>1. job[w].newOrder = {}
    BY <1>1, <1>4 DEF Sound, Written
  <2> QED
    BY <1>1, <1>4, <2>1
<1> QED
  BY <1>2, <1>3, <1>4

(* What the rows say of one line. *)
LineRows(l) ==
    /\ order.status # "PENDING_PAYMENT" => hold[l] # "ACTIVE"
    /\ taken[l] = 1 => hold[l] = "CONSUMED"
    /\ hold[l] = "CONSUMED" /\ order.status # "CANCELLED" => taken[l] = 1
    /\ order.paymentStatus = "PAID" /\ order.status # "CANCELLED" => hold[l] \in {"CONSUMED", "EXPIRED"}
    /\ hold[l] = "CONSUMED" => order.status # "PENDING_PAYMENT"
    /\ hold[l] = "RELEASED" => order.status = "CANCELLED"

LEMMA RowsByLine ==
    Rows <=> /\ order.paymentStatus = "PAID" => order.status # "PENDING_PAYMENT"
             /\ \A l \in Line : LineRows(l)
BY DEF Rows, LineRows, HoldsEndWithPending, SoldOnce, PaidLosesOnlyExpired

LEMMA RowsByLineThen ==
    ASSUME order'.paymentStatus = "PAID" => order'.status # "PENDING_PAYMENT",
           \A l \in Line : LineRows(l)'
    PROVE  Rows'
BY DEF Rows, LineRows, HoldsEndWithPending, SoldOnce, PaidLosesOnlyExpired

LEMMA CommitKeepsRows ==
    ASSUME IInv, NEW w \in Worker, Commit(w)
    PROVE  Rows'
<1> DEFINE j == job[w]
<1>1. /\ j.pc = "end" /\ j \in Job /\ DOMAIN j.todo = {} /\ order \in Order /\ order' \in Order
      /\ Shape(j) /\ StillRead(j) /\ NotesAgree(j) /\ Complete(j)
  BY CommitRows, JobKnown DEF Sound
<1>2. order.paymentStatus = "PAID" => order.status # "PENDING_PAYMENT"
  BY DEF IInv, Rows
<1>3. ASSUME NEW l \in Line
      PROVE  /\ hold'[l] = Row(w, l) /\ taken'[l] = Stock(w, l) /\ LineRows(l)
             /\ hold[l] \in Hold /\ taken[l] \in {0, 1}
  BY CommitRows, JobKnown, RowsByLine DEF IInv, Typed
<1> HIDE DEF j
<1>4. CASE order' = order /\ ~Webhook(j) /\ j.kind # "transition"
  <2>1. j.kind = "expire"
    BY <1>1, <1>4 DEF Job, Shape, Webhook
  <2>2. ASSUME NEW l \in Line PROVE LineRows(l)'
    <3>1. Stock(w, l) = taken[l] /\ (Row(w, l) = hold[l] \/ (hold[l] = "ACTIVE" /\ Row(w, l) = "EXPIRED"))
      BY <1>1, <2>1 DEF Row, Stock, NotesAgree, Cancel, j
    <3> QED
      BY <1>3, <1>4, <3>1 DEF LineRows
  <2> QED
    BY <1>2, <1>4, <2>2, RowsByLineThen
<1>5. CASE Webhook(j) /\ order.status = "PENDING_PAYMENT" /\ order' = Promoted(j.kind)
  <2>1. CASE j.kind = "captured"
    <3>1. order'.status = "CONFIRMED"
      BY <1>1, <1>5, <2>1 DEF Promoted, Order
    <3>2. ASSUME NEW l \in Line PROVE LineRows(l)'
      <4>1. CASE l \in DOMAIN j.newHold
        <5>1. Row(w, l) = "CONSUMED" /\ Stock(w, l) = 1
          BY <1>1, <2>1, <4>1 DEF Row, Stock, NotesAgree, Cancel, j
        <5> QED
          BY <1>3, <3>1, <5>1 DEF LineRows
      <4>2. CASE l \notin DOMAIN j.newHold
        <5>1. Row(w, l) = hold[l] /\ Stock(w, l) = taken[l] /\ hold[l] # "ACTIVE"
          BY <1>1, <2>1, <1>5, <4>2 DEF Row, Stock, NotesAgree, Complete, Cancel, j
        <5>2. hold[l] = "EXPIRED" /\ taken[l] # 1
          BY <1>3, <1>5, <5>1 DEF LineRows, Hold
        <5> QED
          BY <1>3, <3>1, <5>1, <5>2 DEF LineRows
      <4> QED
        BY <4>1, <4>2
    <3> QED
      BY <3>1, <3>2, RowsByLineThen
  <2>2. CASE j.kind = "failed"
    <3>1. order'.status = "CANCELLED"
      BY <1>1, <1>5, <2>2 DEF Promoted, Order
    <3>2. ASSUME NEW l \in Line PROVE LineRows(l)'
      <4>1. /\ Stock(w, l) = taken[l] /\ Row(w, l) # "ACTIVE"
            /\ Row(w, l) = hold[l] \/ (hold[l] = "ACTIVE" /\ Row(w, l) = "RELEASED")
        BY <1>1, <2>2, <1>5 DEF Row, Stock, NotesAgree, Complete, Cancel, Webhook, j
      <4> QED
        BY <1>3, <3>1, <4>1 DEF LineRows
    <3> QED
      BY <3>1, <3>2, RowsByLineThen
  <2> QED
    BY <1>5, <2>1, <2>2 DEF Webhook
<1>6. CASE /\ j.kind = "transition" /\ order'.status = j.to
           /\ order'.paymentStatus = order.paymentStatus
  <2>1. /\ j.read \in Status /\ j.to \in Allowed[j.read]
        /\ j.read # "PENDING_PAYMENT" => order.status = j.read
    BY <1>1, <1>6 DEF StillRead
  <2>2. j.to # "PENDING_PAYMENT" /\ (j.to # "CANCELLED" => j.read \notin {"PENDING_PAYMENT", "CANCELLED"})
    BY <2>1 DEF Allowed
  <2>3. ASSUME NEW l \in Line PROVE LineRows(l)'
    <3>1. CASE j.to = "CANCELLED"
      <4>1. /\ Row(w, l) # "ACTIVE"
            /\ \/ Row(w, l) = hold[l] /\ Stock(w, l) = taken[l]
               \/ hold[l] = "ACTIVE" /\ Row(w, l) = "RELEASED" /\ Stock(w, l) = taken[l]
               \/ hold[l] = "CONSUMED" /\ Row(w, l) = "CONSUMED" /\ Stock(w, l) = 0
        BY <1>1, <1>6, <3>1 DEF Row, Stock, NotesAgree, Complete, Cancel, Webhook, j
      <4> QED
        BY <1>3, <1>6, <3>1, <4>1 DEF LineRows
    <3>2. CASE j.to # "CANCELLED"
      <4>1. Row(w, l) = hold[l] /\ Stock(w, l) = taken[l]
        BY <1>1, <1>6, <3>2 DEF Row, Stock, Shape, Changed, Cancel, j
      <4> QED
        BY <1>3, <1>6, <2>1, <2>2, <3>2, <4>1 DEF LineRows
    <3> QED
      BY <3>1, <3>2
  <2> QED
    BY <1>6, <2>2, <2>3, RowsByLineThen
<1> QED
  BY <1>4, <1>5, <1>6, CommitOrder DEF j

(* What the commit of a session changes is none of the others' business. *)
LEMMA CommitSparesOthers ==
    ASSUME IInv, NEW w \in Worker, Commit(w), NEW v \in Worker, v # w
    PROVE  Sound(job[v])'
<1>1. PICK i : i = job[v] /\ i = job'[v]
  BY DEF Commit, IInv, Typed
<1>2. /\ i \in Job /\ Shape(i) /\ Written(i) /\ StillRead(i) /\ NotesAgree(i) /\ Complete(i)
      /\ DOMAIN i.todo \subseteq Line /\ Changed(i) \subseteq Line
  BY <1>1, JobKnown DEF Sound
<1>3. i.newOrder # {} => order' = order
  BY <1>1, CommitOrder DEF IInv, Exclusive
<1>4. i.kind = "transition" /\ i.pc # "lock" =>
        \/ order' = order
        \/ /\ order.status = "PENDING_PAYMENT" /\ job[w].kind \in {"captured", "failed"}
           /\ order'.status = IF job[w].kind = "captured" THEN "CONFIRMED" ELSE "CANCELLED"
  BY <1>1, CommitOrder DEF IInv, Exclusive, Webhook
<1>5. ASSUME NEW l \in Line
      PROVE  \/ hold'[l] = hold[l]
             \/ /\ hold[l] = "ACTIVE" /\ hold'[l] \in Ended /\ l \in Changed(job[w])
                /\ hold'[l] = "CONSUMED" => /\ job[w].kind = "captured"
                                            /\ order.status = "PENDING_PAYMENT"
                                            /\ order'.status = "CONFIRMED"
  <2>1. CASE l \in DOMAIN job[w].newHold
    <3>1. hold'[l] = job[w].newHold[l] /\ hold[l] = "ACTIVE" /\ l \in Changed(job[w])
          /\ job[w].newHold[l] \in Ended /\ (job[w].newHold[l] = "CONSUMED" => job[w].kind = "captured")
      BY <2>1, CommitRows DEF Row, Sound, NotesAgree, Changed, Ended
    <3>2. job[w].kind = "captured" => order.status = "PENDING_PAYMENT" /\ order'.status = "CONFIRMED"
      BY CommitOrder DEF Webhook
    <3> QED
      BY <3>1, <3>2
  <2>2. CASE l \notin DOMAIN job[w].newHold
    BY <2>2, CommitRows DEF Row
  <2> QED
    BY <2>1, <2>2
<1>6. \A l \in Changed(i) : hold'[l] = hold[l]
  <2>1. \A l \in Changed(i) : l \notin Changed(job[w])
    BY <1>1 DEF IInv, Exclusive
  <2> QED
    BY <1>2, <1>5, <2>1
<1>7. Shape(i)' /\ Written(i)'
  BY <1>2, <1>3 DEF Shape, Written, Promoted, Webhook, Cancel, Changed
<1>8. StillRead(i)'
  <2> SUFFICES ASSUME i.kind = "transition", i.pc \in {"list", "lines", "flip", "write", "end"}
               PROVE  /\ i.read # "PENDING_PAYMENT" => order'.status = i.read
                      /\ i.read = "PENDING_PAYMENT" =>
                            order'.status \in {"PENDING_PAYMENT", "CONFIRMED", "CANCELLED"}
                      /\ i.read = "PENDING_PAYMENT" /\ order'.status = "CANCELLED" =>
                            \A l \in Line : hold'[l] # "CONSUMED"
    BY <1>2 DEF StillRead
  <2>1. CASE order' = order
    BY <1>2, <1>5, <2>1 DEF StillRead
  <2>2. CASE order' # order
    <3>1. \A l \in Line : hold[l] # "CONSUMED"
      BY <1>4, <2>2 DEF IInv, Rows
    <3> QED
      BY <1>2, <1>4, <1>5, <2>2, <3>1 DEF StillRead
  <2> QED
    BY <2>1, <2>2
<1>9. Cancel(i) /\ i.pc # "lock" /\ order.status \notin {"PENDING_PAYMENT", "CANCELLED"} =>
        order'.status \notin {"PENDING_PAYMENT", "CANCELLED"}
  BY <1>4 DEF Cancel
<1>10. NotesAgree(i)'
  <2>1. Changed(i) # {} \/ DOMAIN i.todo # {} => i.pc # "lock"
    BY <1>2 DEF Shape
  <2>2. ASSUME NEW l \in DOMAIN i.newHold
        PROVE  /\ hold'[l] = "ACTIVE"
               /\ i.newHold[l] = CASE i.kind = "captured" -> "CONSUMED"
                                   [] i.kind = "expire" -> "EXPIRED"
                                   [] OTHER -> "RELEASED"
               /\ i.kind = "captured" => l \in DOMAIN i.newTaken
    BY <1>2, <1>6 DEF NotesAgree, Changed
  <2>3. ASSUME NEW l \in DOMAIN i.newTaken
        PROVE  \/ i.kind = "captured" /\ l \in DOMAIN i.newHold /\ i.newTaken[l] = 1
               \/ /\ Cancel(i) /\ hold'[l] = "CONSUMED" /\ i.newTaken[l] = 0
                  /\ order'.status \notin {"PENDING_PAYMENT", "CANCELLED"}
    BY <1>2, <1>6, <1>9, <2>1 DEF NotesAgree, Changed
  <2>4. ASSUME NEW l \in DOMAIN i.todo
        PROVE  /\ l \notin Changed(i)
               /\ i.todo[l] = "commit" <=> i.kind = "captured"
               /\ i.todo[l] = "restock" => /\ Cancel(i) /\ hold'[l] = "CONSUMED"
                                           /\ order'.status \notin {"PENDING_PAYMENT", "CANCELLED"}
    BY <1>2, <1>5, <1>9, <2>1 DEF NotesAgree
  <2> QED
    BY <2>2, <2>3, <2>4 DEF NotesAgree, Cancel, Changed
<1>11. Complete(i)'
  <2> SUFFICES ASSUME i.pc \in {"lines", "flip", "write", "end"}, NEW l \in Line
               PROVE  /\ (Webhook(i) \/ Cancel(i)) /\ hold'[l] = "ACTIVE" =>
                            l \in DOMAIN i.todo \cup DOMAIN i.newHold
                      /\ Cancel(i) /\ i.read # "PENDING_PAYMENT" /\ hold'[l] = "CONSUMED" =>
                            \/ l \in DOMAIN i.todo /\ i.todo[l] = "restock"
                            \/ l \in DOMAIN i.newTaken
    BY DEF Complete, Webhook, Cancel
  <2>1. hold'[l] = "ACTIVE" => hold[l] = "ACTIVE"
    BY <1>5 DEF Ended
  <2>2. Cancel(i) /\ i.read # "PENDING_PAYMENT" => order.status # "PENDING_PAYMENT"
    BY <1>2 DEF StillRead, Cancel
  <2> QED
    BY <1>2, <1>5, <2>1, <2>2 DEF Complete
<1>12. Sound(i)'
  BY <1>7, <1>8, <1>10, <1>11 DEF Sound
<1> QED
  BY <1>1, <1>12

LEMMA CommitKeeps ==
    ASSUME IInv, NEW w \in Worker, Commit(w), UNCHANGED age
    PROVE  IInv'
<1>1. job' = [job EXCEPT ![w] = Idle] /\ FreeLocks(w)
  BY DEF Commit
<1>2. Exclusive' /\ job' \in [Worker -> Job]
  BY <1>1, IdleSound, NoLocks, ExclusiveStep
<1>3. Typed'
  <2>1. order' \in Order /\ hold' \in [Line -> Hold] /\ taken' \in [Line -> {0, 1}]
    BY CommitRows, JobKnown
  <2>2. cancelledBy' \in {"nobody", "webhook", "admin", "cron"}
    <3>1. CASE cancelledBy' = cancelledBy
      BY <3>1 DEF IInv, Typed
    <3>2. CASE cancelledBy' = job[w].by
      BY <3>2, CommitRows DEF Job, Sound, Shape
    <3>3. cancelledBy' = cancelledBy \/ cancelledBy' = job[w].by
      BY DEF Commit
    <3> QED
      BY <3>1, <3>2, <3>3
  <2>3. LocksOf(w)
    BY <1>1, NoLocks
  <2> QED
    BY <1>2, <2>1, <2>2, <2>3 DEF Typed, LocksOf, IInv
<1>4. Rows'
  BY CommitKeepsRows
<1>5. ASSUME NEW v \in Worker PROVE Sound(job[v])'
  <2>1. CASE v # w
    BY <2>1, CommitSparesOthers
  <2>2. CASE v = w
    <3>1. job'[v] = Idle
      BY <1>1, <2>2 DEF IInv, Typed
    <3>2. Sound(Idle)'
      BY IdleSound DEF Sound, Shape, Written, StillRead, NotesAgree, Complete, Webhook, Cancel, Changed
    <3> QED
      BY <3>1, <3>2
  <2> QED
    BY <2>1, <2>2
<1> QED
  BY <1>2, <1>3, <1>4, <1>5 DEF IInv

-----------------------------------------------------------------------------
(* The steps of checkout, the customer, Razorpay and time. *)

(* A step that changes neither a job nor a lock, and no more than the link of the order. *)
LEMMA OutsideKeeps ==
    ASSUME IInv, UNCHANGED <<hold, taken, cancelledBy, statusLock, stockLock, job>>,
           age' \in 0 .. MaxAge,
           \/ order' = order
           \/ order' = [order EXCEPT !.linked = TRUE] /\ \A v \in Worker : job[v].newOrder = {}
    PROVE  IInv'
<1>1. /\ order \in Order /\ order' \in Order
      /\ order'.status = order.status /\ order'.paymentStatus = order.paymentStatus
  BY DEF IInv, Typed, Order
<1>2. Typed'
  BY <1>1 DEF IInv, Typed
<1>3. Rows'
  BY <1>1 DEF IInv, Rows, HoldsEndWithPending, SoldOnce, PaidLosesOnlyExpired
<1>4. Exclusive'
  BY DEF IInv, Exclusive, Changed
<1>5. ASSUME NEW v \in Worker PROVE Sound(job[v])'
  <2>1. PICK j : j = job[v] /\ j = job'[v]
    OBVIOUS
  <2>2. Shape(j) /\ Written(j) /\ StillRead(j) /\ NotesAgree(j) /\ Complete(j)
    BY <2>1, JobKnown DEF Sound
  <2>3. Written(j)'
    BY <2>1, <2>2 DEF Written, Promoted, Webhook
  <2>4. Shape(j)' /\ StillRead(j)'
    BY <1>1, <2>2 DEF Shape, StillRead, Webhook, Cancel, Changed
  <2>5. NotesAgree(j)' /\ Complete(j)'
    BY <1>1, <2>2 DEF NotesAgree, Complete, Webhook, Cancel, Changed
  <2> QED
    BY <2>1, <2>3, <2>4, <2>5 DEF Sound
<1> QED
  BY <1>2, <1>3, <1>4, <1>5 DEF IInv

LEMMA EnvironmentKeeps ==
    ASSUME IInv, \/ CreateRazorpayOrder
                 \/ PatchRazorpayOrderId
                 \/ CheckoutDies
                 \/ \E event \in {"captured", "failed"} : Pay(event)
                 \/ Tick
                 \/ UNCHANGED vars
    PROVE  IInv'
<1>1. age \in 0 .. MaxAge /\ MaxAge \in Nat
  BY OrderPaymentAssumption DEF IInv, Typed
<1>2. age' \in 0 .. MaxAge
  BY <1>1 DEF CreateRazorpayOrder, PatchRazorpayOrderId, CheckoutDies, Pay, Tick, vars
<1>3. UNCHANGED <<hold, taken, cancelledBy, statusLock, stockLock, job>>
  BY DEF CreateRazorpayOrder, PatchRazorpayOrderId, CheckoutDies, Pay, Tick, vars
<1>4. \/ order' = order
      \/ order' = [order EXCEPT !.linked = TRUE] /\ \A v \in Worker : job[v].newOrder = {}
  BY DEF CreateRazorpayOrder, PatchRazorpayOrderId, CheckoutDies, Pay, Tick, vars
<1> QED
  BY <1>2, <1>3, <1>4, OutsideKeeps

-----------------------------------------------------------------------------
(* The invariant. *)

LEMMA StatementKeeps ==
    ASSUME IInv, NEW w \in Worker, Statement(w)
    PROVE  IInv'
<1>1. UNCHANGED age
  BY DEF Statement, env
<1>2. CASE WebhookCas(w)
  BY <1>1, <1>2, WebhookCasKeeps
<1>3. CASE TransitionLock(w)
  BY <1>1, <1>3, TransitionLockKeeps
<1>4. CASE TransitionRead(w)
  BY <1>1, <1>4, TransitionReadKeeps
<1>5. CASE ListHolds(w)
  BY <1>1, <1>5, ListHoldsKeeps
<1>6. ASSUME NEW l \in Line, ReadHold(w, l) PROVE IInv'
  BY <1>1, <1>6, ReadHoldKeeps
<1>7. ASSUME NEW l \in Line, FlipHold(w, l) PROVE IInv'
  BY <1>1, <1>7, FlipHoldKeeps
<1>8. CASE LinesDone(w)
  BY <1>1, <1>8, LinesDoneKeeps
<1>9. CASE TransitionWrite(w)
  BY <1>1, <1>9, TransitionWriteKeeps
<1>10. CASE Commit(w)
  BY <1>1, <1>10, CommitKeeps
<1> QED
  BY <1>2, <1>3, <1>4, <1>5, <1>6, <1>7, <1>8, <1>9, <1>10 DEF Statement

(* Razorpay sends the webhooks that the code knows. *)
Sent == webhooks \subseteq {"captured", "failed"}

LEMMA SentStays ==
    ASSUME Sent, [Next]_vars
    PROVE  Sent'
<1>1. ASSUME NEW w \in Worker, Statement(w) \/ Abort(w) \/ DeadlockVictim(w) PROVE Sent'
  BY <1>1 DEF Statement, Abort, DeadlockVictim, env, Sent
<1>2. ASSUME NEW w \in Worker, NEW j, Start(w, j) PROVE Sent'
  BY <1>2 DEF Start, env, Sent
<1>3. ASSUME NEW w \in Api, \/ \E event \in webhooks : StartWebhook(w, event)
                            \/ \E to \in Targets : StartTransition(w, to)
      PROVE  Sent'
  BY <1>2, <1>3 DEF StartWebhook, StartTransition, Worker
<1>4. ASSUME NEW w \in Cron, (\E l \in Line : StartExpire(w, l)) \/ StartStaleCancel(w)
      PROVE  Sent'
  BY <1>2, <1>4 DEF StartExpire, StartStaleCancel, Worker
<1>5. CASE \/ CreateRazorpayOrder \/ PatchRazorpayOrderId \/ CheckoutDies \/ Tick
           \/ \E event \in {"captured", "failed"} : Pay(event)
           \/ UNCHANGED vars
  BY <1>5 DEF CreateRazorpayOrder, PatchRazorpayOrderId, CheckoutDies, Pay, Tick, vars, Sent
<1> QED
  BY <1>1, <1>3, <1>4, <1>5 DEF Next

LEMMA InitIInv == Init => IInv /\ Sent
<1> SUFFICES ASSUME Init PROVE IInv /\ Sent
  OBVIOUS
<1>1. \A w \in Worker : job[w] = Idle
  BY DEF Init
<1>2. Typed
  BY IdleSound, OrderPaymentAssumption DEF Init, Typed, Order, Status, Hold
<1>3. Rows
  BY DEF Init, Rows, HoldsEndWithPending, SoldOnce, PaidLosesOnlyExpired
<1>4. Exclusive
  BY <1>1, IdleSound DEF Init, Exclusive
<1>5. Sent
  BY DEF Init, Sent
<1> QED
  BY <1>1, <1>2, <1>3, <1>4, <1>5, IdleSound DEF IInv

LEMMA NextIInv == IInv /\ Sent /\ [Next]_vars => (IInv /\ Sent)'
<1> SUFFICES ASSUME IInv, Sent, [Next]_vars PROVE IInv'
  BY SentStays
<1>1. ASSUME NEW w \in Api, NEW event \in webhooks, StartWebhook(w, event) PROVE IInv'
  <2>1. w \in Worker /\ event \in {"captured", "failed"}
    BY <1>1 DEF Worker, Sent
  <2> QED
    BY <1>1, <2>1, StartWebhookKeeps
<1>2. ASSUME NEW w \in Api, NEW to \in Targets, StartTransition(w, to) PROVE IInv'
  BY <1>2, AskedKeeps DEF Worker, StartTransition
<1>3. ASSUME NEW w \in Cron, NEW l \in Line, StartExpire(w, l) PROVE IInv'
  BY <1>3, StartExpireKeeps DEF Worker
<1>4. ASSUME NEW w \in Cron, StartStaleCancel(w) PROVE IInv'
  BY <1>4, AskedKeeps DEF Worker, StartStaleCancel
<1>5. ASSUME NEW w \in Worker, Statement(w) PROVE IInv'
  BY <1>5, StatementKeeps
<1>6. ASSUME NEW w \in Worker, Abort(w) \/ DeadlockVictim(w) PROVE IInv'
  BY <1>6, RollbackKeeps DEF Abort, DeadlockVictim, env
<1> QED
  BY <1>1, <1>2, <1>3, <1>4, <1>5, <1>6, EnvironmentKeeps DEF Next

THEOREM Invariance == Spec => [](IInv /\ Sent)
<1> QED
  BY InitIInv, NextIInv, PTL DEF Spec

-----------------------------------------------------------------------------
(* What follows from it. *)

(* Every row and job holds values it can have, whatever sessions interleave: at most one *)
(* uncommitted write of the order per session, and notes of lines of the order only.     *)
THEOREM TypeCorrect == Spec => []TypeOK
<1>1. ASSUME IInv PROVE TypeOK
  <2>1. ASSUME NEW w \in Worker
        PROVE  DOMAIN job[w].todo \subseteq Line /\ Cardinality(job[w].newOrder) <= 1
    <3>1. job[w].newOrder = {} \/ \E o : job[w].newOrder = {o}
      BY <1>1, JobKnown DEF Sound, Written
    <3>2. Cardinality(job[w].newOrder) \in {0, 1}
      BY <3>1, FS_EmptySet, FS_Singleton
    <3> QED
      BY <1>1, <3>2, JobKnown
  <2> QED
    BY <1>1, <2>1 DEF IInv, Typed, TypeOK, Order, Hold
<1> QED
  BY <1>1, Invariance, PTL

(* When the order leaves PENDING_PAYMENT, by a webhook, an admin or the cron, none of its *)
(* reservations is left ACTIVE.                                                           *)
THEOREM HoldsEnd == Spec => []HoldsEndWithPending
<1>1. IInv => HoldsEndWithPending
  BY DEF IInv, Rows
<1> QED
  BY <1>1, Invariance, PTL

(* No reservation is finished twice and no line of a live order is put back. *)
THEOREM OnceSold == Spec => []SoldOnce
<1>1. IInv => SoldOnce
  BY DEF IInv, Rows
<1> QED
  BY <1>1, Invariance, PTL

(* A paid order that is not cancelled lacks only lines whose reservation had expired. *)
THEOREM PaidKeepsLines == Spec => []PaidLosesOnlyExpired
<1>1. IInv => PaidLosesOnlyExpired
  BY DEF IInv, Rows
<1> QED
  BY <1>1, Invariance, PTL

-----------------------------------------------------------------------------
(* Steps. *)

(* A session goes idle from "end" only by its commit or a rollback, and no other session *)
(* ends its job for it.                                                                   *)
LEMMA WhoEnds ==
    ASSUME IInv, [Next]_vars, NEW w \in Worker, job[w].pc = "end", job'[w] = Idle
    PROVE  Commit(w) \/ (Rollback(w) /\ UNCHANGED env)
<1>1. job[w] # Idle /\ job \in [Worker -> Job]
  BY IdleSound DEF IInv, Typed
<1>2. ASSUME NEW v \in Worker, NEW j, job' = [job EXCEPT ![v] = j] PROVE v = w
  BY <1>1, <1>2
<1>3. ASSUME NEW v \in Worker, NEW j, Start(v, j) PROVE FALSE
  <2>1. v = w
    BY <1>2, <1>3 DEF Start
  <2> QED
    BY <1>3, <2>1 DEF Start
<1>4. ASSUME NEW v \in Worker, Statement(v) PROVE v = w
  <2>1. \E j : job' = [job EXCEPT ![v] = j]
    BY <1>4 DEF Statement, WebhookCas, TransitionLock, TransitionRead, ListHolds, ReadHold,
                FlipHold, LinesDone, TransitionWrite, Commit, Go, Rollback
  <2> QED
    BY <1>2, <2>1
<1>5. Statement(w) => Commit(w)
  BY DEF Statement, WebhookCas, TransitionLock, TransitionRead, ListHolds, ReadHold,
         FlipHold, LinesDone, TransitionWrite
<1>6. ASSUME NEW v \in Worker, Abort(v) \/ DeadlockVictim(v) PROVE Rollback(w) /\ UNCHANGED env
  <2>1. Rollback(v) /\ UNCHANGED env
    BY <1>6 DEF Abort, DeadlockVictim
  <2>2. v = w
    BY <1>2, <2>1 DEF Rollback
  <2> QED
    BY <2>1, <2>2
<1>7. CASE \E v \in Worker : Statement(v) \/ Abort(v) \/ DeadlockVictim(v)
  BY <1>4, <1>5, <1>6, <1>7
<1>8. CASE \/ CreateRazorpayOrder \/ PatchRazorpayOrderId \/ CheckoutDies \/ Tick
           \/ \E event \in {"captured", "failed"} : Pay(event)
           \/ UNCHANGED vars
  BY <1>1, <1>8 DEF CreateRazorpayOrder, PatchRazorpayOrderId, CheckoutDies, Pay, Tick, vars
<1>9. CASE \/ \E v \in Api : \/ \E event \in webhooks : StartWebhook(v, event)
                             \/ \E to \in Targets : StartTransition(v, to)
           \/ \E v \in Cron : (\E l \in Line : StartExpire(v, l)) \/ StartStaleCancel(v)
  BY <1>3, <1>9 DEF StartWebhook, StartTransition, StartExpire, StartStaleCancel, Worker
<1> QED
  BY <1>7, <1>8, <1>9 DEF Next

(* A cancel of an order that its session read as paid puts every line back on stock. *)
THEOREM CancelRestocks == Spec => PaidCancelReturnsStock
<1>1. ASSUME IInv, [Next]_vars, NEW w \in Worker, job[w].kind = "transition", job[w].pc = "end",
             job'[w] = Idle, job[w].read # "PENDING_PAYMENT", order'.status = "CANCELLED",
             NEW l \in Line
      PROVE  taken'[l] = 0
  <2>1. /\ job[w].to \in Allowed[job[w].read] /\ job[w].read \in Status
        /\ order.status = job[w].read
    BY <1>1, JobKnown DEF Sound, StillRead
  <2>2. Commit(w)
    <3>1. CASE Rollback(w)
      BY <1>1, <2>1, <3>1 DEF Rollback, Allowed
    <3> QED
      BY <1>1, <3>1, WhoEnds
  <2>3. job[w].to = "CANCELLED"
    BY <1>1, <2>2, CommitOrder DEF Webhook
  <2>4. /\ taken'[l] = Stock(w, l) /\ taken[l] \in {0, 1} /\ (taken[l] = 1 => hold[l] = "CONSUMED")
        /\ NotesAgree(job[w]) /\ Complete(job[w]) /\ DOMAIN job[w].todo = {}
    BY <1>1, <2>2, CommitRows DEF IInv, Typed, Rows, SoldOnce, Sound
  <2>5. CASE l \in DOMAIN job[w].newTaken
    BY <1>1, <2>4, <2>5 DEF NotesAgree, Stock
  <2>6. CASE l \notin DOMAIN job[w].newTaken
    <3>1. hold[l] # "CONSUMED"
      BY <1>1, <2>3, <2>4, <2>6 DEF Complete, Cancel
    <3> QED
      BY <2>4, <2>6, <3>1 DEF Stock
  <2> QED
    BY <2>5, <2>6
<1>2. IInv /\ [Next]_vars =>
        [\A w \in Worker :
            (/\ job[w].kind = "transition" /\ job[w].pc = "end" /\ job'[w] = Idle
             /\ job[w].read # "PENDING_PAYMENT" /\ order'.status = "CANCELLED")
                => \A l \in Line : taken'[l] = 0]_vars
  BY <1>1
<1> QED
  BY <1>2, Invariance, PTL DEF Spec, PaidCancelReturnsStock

(* Only a commit moves the status. *)
LEMMA WhoMoves ==
    ASSUME IInv, [Next]_vars, order'.status # order.status
    PROVE  \E w \in Worker : Commit(w)
<1>1. ASSUME NEW w \in Worker, Statement(w) PROVE Commit(w)
  BY <1>1 DEF Statement, WebhookCas, TransitionLock, TransitionRead, ListHolds, ReadHold,
              FlipHold, LinesDone, TransitionWrite, Go, Rollback
<1>2. CASE \E w \in Worker : Abort(w) \/ DeadlockVictim(w)
  BY <1>2 DEF Abort, DeadlockVictim, Rollback
<1>3. CASE PatchRazorpayOrderId
  BY <1>3 DEF PatchRazorpayOrderId, IInv, Typed, Order
<1>4. CASE \/ CreateRazorpayOrder \/ CheckoutDies \/ Tick \/ UNCHANGED vars
           \/ \E event \in {"captured", "failed"} : Pay(event)
  BY <1>4 DEF CreateRazorpayOrder, CheckoutDies, Pay, Tick, vars
<1>5. CASE \/ \E v \in Api : \/ \E event \in webhooks : StartWebhook(v, event)
                             \/ \E to \in Targets : StartTransition(v, to)
           \/ \E v \in Cron : (\E l \in Line : StartExpire(v, l)) \/ StartStaleCancel(v)
  BY <1>5 DEF StartWebhook, StartTransition, StartExpire, StartStaleCancel, Start
<1> QED
  BY <1>1, <1>2, <1>3, <1>4, <1>5 DEF Next

(* Whatever sessions interleave, the status moves along ALLOWED_TRANSITIONS or by the *)
(* capture of an unpaid order.                                                        *)
THEOREM LegalMoves == Spec => LegalTransitions
<1> DEFINE Legal == \/ order'.status = order.status
                    \/ order'.status \in Allowed[order.status]
                    \/ /\ order.status = "PENDING_PAYMENT" /\ order'.status = "CONFIRMED"
                       /\ order'.paymentStatus = "PAID"
<1>1. ASSUME IInv, [Next]_vars PROVE Legal
  <2>1. ASSUME NEW w \in Worker, Commit(w) PROVE Legal
    <3>1. CASE order' = order
      BY <3>1
    <3>2. CASE Webhook(job[w]) /\ order.status = "PENDING_PAYMENT" /\ order' = Promoted(job[w].kind)
      BY <1>1, <3>2, JobKnown DEF Promoted, Order, Allowed, Status
    <3>3. CASE job[w].kind = "transition" /\ order'.status = job[w].to
      <4>1. StillRead(job[w]) /\ job[w].pc = "end"
        BY <1>1, <2>1, CommitRows DEF Sound
      <4> QED
        BY <3>3, <4>1 DEF StillRead, Allowed, Status
    <3> QED
      BY <1>1, <2>1, <3>1, <3>2, <3>3, CommitOrder
  <2> QED
    BY <1>1, <2>1, WhoMoves
<1>2. IInv /\ [Next]_vars => [Legal]_vars
  BY <1>1
<1> QED
  BY <1>2, Invariance, PTL DEF Spec, LegalTransitions

=============================================================================
