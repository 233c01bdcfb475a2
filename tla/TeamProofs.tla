----------------------------- MODULE TeamProofs ------------------------------
(***************************************************************************)
(* What holds of Team for any number of members, teams, sessions and          *)
(* requests.  The argument is the advisory lock of the source team: whoever   *)
(* is between a claim and its commit, or between the look at a team and its   *)
(* locking, holds that team's lock, so that the request stays PENDING and the *)
(* team unlocked until the claim commits.                                     *)
(*                                                                         *)
(* A move has no lock of its target.  It is SERIALIZABLE: who joins the       *)
(* target after its snapshot dooms it, so a move that commits had room.       *)
(***************************************************************************)
EXTENDS Team, FiniteSetTheorems, TLAPS

Asks(w) == job[w].pc \in {"review", "reject", "claim", "approve"}

(* A session decides about a request that exists. *)
Named == \A w \in Session : Asks(w) => job[w].r \in DOMAIN requests

(* Who is about to commit under a team's lock holds it. *)
Holding ==
    \A w \in Session :
        /\ job[w].pc = "approve" => latch[requests[job[w].r].from] = w
        /\ job[w].pc = "lock" => latch[job[w].t] = w

(* What was claimed is still PENDING, and its team still open. *)
ClaimStands ==
    \A w \in Session : job[w].pc = "approve" =>
        /\ requests[job[w].r].status = "PENDING"
        /\ requests[job[w].r].from \notin locked

IInv == TypeOK /\ Named /\ Holding /\ ClaimStands /\ RequestMovesOnce

(* Steps that no approval and no locking takes part in leave requests, locks and the *)
(* sessions at an approval or a locking as they are.                                  *)
Aside(w) ==
    /\ UNCHANGED <<locked, requests, latch>>
    /\ \A x \in Session : x # w =>
        \/ job'[x] = job[x]
        \/ job[x].pc = "moving" /\ job'[x].pc = "doomed"
    /\ w \in Session => job'[w].pc \notin {"review", "reject", "claim", "approve", "lock"}

(* The tables and the sessions start with the values they can have. *)
LEMMA InitIInv == Init => IInv
<1> SUFFICES ASSUME Init PROVE IInv
  OBVIOUS
<1>1. \A t \in Teams : Size(t) \in Int
  BY TeamAssumption, FS_Subset, FS_CardinalityType DEF Size, Members
<1>2. requests = <<>> /\ requests \in Seq(Request) /\ DOMAIN requests = {}
  BY DEF Init
<1>3. \A w \in Session : job[w] = [pc |-> "idle"]
  BY DEF Init, Idle
<1>4. [pc |-> "idle"] \in Job
  BY DEF Job
<1>5. TypeOK
  BY <1>1, <1>2, <1>4 DEF Init, TypeOK, Idle
<1>6. Named /\ Holding /\ ClaimStands
  BY <1>3 DEF Named, Asks, Holding, ClaimStands
<1>7. RequestMovesOnce
  BY <1>2 DEF RequestMovesOnce
<1> QED
  BY <1>5, <1>6, <1>7 DEF IInv

(* A step aside keeps the invariant. *)
LEMMA AsideKeeps ==
    ASSUME IInv, NEW w, Aside(w), TypeOK'
    PROVE  IInv'
<1>1. ASSUME NEW x \in Session, job'[x].pc \in {"review", "reject", "claim", "approve", "lock"}
      PROVE  job'[x] = job[x]
  BY <1>1 DEF Aside
<1>2. Named'
  BY <1>1 DEF IInv, Named, Asks, Aside
<1>3. Holding'
  BY <1>1 DEF IInv, Holding, Aside
<1>4. ClaimStands'
  BY <1>1 DEF IInv, ClaimStands, Aside
<1>5. RequestMovesOnce'
  BY DEF IInv, RequestMovesOnce, Aside
<1> QED
  BY <1>2, <1>3, <1>4, <1>5 DEF IInv

(* The write of a session keeps the type of the sessions' records. *)
LEMMA WriteTypes ==
    ASSUME TypeOK, NEW w, NEW j \in Job, NEW rows, Write(w, j, rows)
    PROVE  /\ job' \in [Session -> Job]
           /\ w \in Session => job'[w] = j
           /\ \A x \in Session : x # w => \/ job'[x] = job[x]
                                          \/ job[x].pc = "moving" /\ job'[x].pc = "doomed"
<1>1. ASSUME NEW x \in Session, job[x].pc = "moving"
      PROVE  [job[x] EXCEPT !.pc = "doomed"] \in Job
  BY <1>1 DEF TypeOK, Job
<1> QED
  BY <1>1 DEF TypeOK, Write

LEMMA RecountedType ==
    ASSUME TypeOK, NEW from, NEW to
    PROVE  Recounted(from, to) \in [Teams -> Int]
  BY DEF TypeOK, Recounted

(* Matches, moves and departments, and the removals, are steps aside. *)
LEMMA MatchAside ==
    ASSUME IInv, NEW w \in Session, NEW m \in Member, NEW t \in Teams,
           StartMatch(w, m, t) \/ Recount(w) \/ Join(w)
    PROVE  TypeOK' /\ Aside(w)
<1>1. TypeOK
  BY DEF IInv
<1>2. CASE StartMatch(w, m, t)
  <2>1. [pc |-> "match", m |-> m, to |-> t] \in Job
    BY DEF Job
  <2> QED
    BY <1>1, <1>2, <2>1 DEF StartMatch, Begin, TypeOK, Aside
<1>3. CASE Recount(w)
  <2>1. [job[w] EXCEPT !.pc = "join"] \in Job /\ [job[w] EXCEPT !.pc = "join"].pc = "join"
    BY <1>1, <1>3 DEF Recount, TypeOK, Job
  <2> QED
    BY <1>1, <1>3, <2>1 DEF Recount, Go, TypeOK, Aside
<1>4. CASE Join(w)
  <2>1. job[w].m \in Member /\ job[w].to \in Teams
    BY <1>1, <1>4 DEF Join, TypeOK, Job
  <2>2. Idle \in Job /\ Idle.pc = "idle"
    BY DEF Job, Idle
  <2>3. Write(w, Idle, {job[w].m, job[w].to})
    BY <1>4 DEF Join
  <2>4. /\ job' \in [Session -> Job] /\ job'[w] = Idle
        /\ \A x \in Session : x # w => \/ job'[x] = job[x]
                                       \/ job[x].pc = "moving" /\ job'[x].pc = "doomed"
    BY <1>1, <2>2, <2>3, WriteTypes
  <2>5. count' \in [Teams -> Int]
    BY <1>1, <1>4, RecountedType DEF Join
  <2> QED
    BY <1>1, <1>4, <2>1, <2>2, <2>4, <2>5 DEF Join, TypeOK, Aside
<1> QED
  BY <1>2, <1>3, <1>4

LEMMA MoveAside ==
    ASSUME IInv, NEW w \in Session, NEW m \in Member, NEW t \in Teams,
           ReadMove(w, m, t) \/ BeginMove(w) \/ CommitMove(w)
    PROVE  TypeOK' /\ Aside(w)
<1>1. TypeOK
  BY DEF IInv
<1>2. CASE ReadMove(w, m, t)
  <2>1. [pc |-> "move", m |-> m, old |-> team[m], to |-> t] \in Job
    BY <1>1 DEF Job, TypeOK
  <2> QED
    BY <1>1, <1>2, <2>1 DEF ReadMove, Begin, TypeOK, Aside
<1>3. CASE BeginMove(w)
  <2>1. [job[w] EXCEPT !.pc = "moving"] \in Job /\ [job[w] EXCEPT !.pc = "moving"].pc = "moving"
    BY <1>1, <1>3 DEF BeginMove, TypeOK, Job
  <2> QED
    BY <1>1, <1>3, <2>1 DEF BeginMove, Go, TypeOK, Aside
<1>4. CASE CommitMove(w)
  <2>1. job[w].m \in Member /\ job[w].to \in Teams
    BY <1>1, <1>4 DEF CommitMove, SinceSnapshot, TypeOK, Job
  <2>2. Idle \in Job /\ Idle.pc = "idle"
    BY DEF Job, Idle
  <2>3. Write(w, Idle, {job[w].m, job[w].old, job[w].to})
    BY <1>4 DEF CommitMove
  <2>4. /\ job' \in [Session -> Job] /\ job'[w] = Idle
        /\ \A x \in Session : x # w => \/ job'[x] = job[x]
                                       \/ job[x].pc = "moving" /\ job'[x].pc = "doomed"
    BY <1>1, <2>2, <2>3, WriteTypes
  <2>5. count' \in [Teams -> Int]
    BY <1>1, <1>4, RecountedType DEF CommitMove
  <2> QED
    BY <1>1, <1>4, <2>1, <2>2, <2>4, <2>5 DEF CommitMove, TypeOK, Aside
<1> QED
  BY <1>2, <1>3, <1>4

LEMMA DepartmentAside ==
    ASSUME IInv, NEW w \in Session, NEW m \in Member, NEW d \in Dept,
           ReadDepartment(w, m, d) \/ SetMemberDepartment(w)
    PROVE  TypeOK' /\ Aside(w)
<1>1. TypeOK
  BY DEF IInv
<1>2. CASE ReadDepartment(w, m, d)
  <2>1. [pc |-> "dept", m |-> m, dept |-> d] \in Job
    BY DEF Job
  <2> QED
    BY <1>1, <1>2, <2>1 DEF ReadDepartment, Begin, TypeOK, Aside
<1>3. CASE SetMemberDepartment(w)
  <2>1. job[w].m \in Member /\ job[w].dept \in Dept
    BY <1>1, <1>3 DEF SetMemberDepartment, TypeOK, Job
  <2>2. Idle \in Job /\ Idle.pc = "idle"
    BY DEF Job, Idle
  <2>3. Write(w, Idle, {job[w].m})
    BY <1>3 DEF SetMemberDepartment
  <2>4. /\ job' \in [Session -> Job] /\ job'[w] = Idle
        /\ \A x \in Session : x # w => \/ job'[x] = job[x]
                                       \/ job[x].pc = "moving" /\ job'[x].pc = "doomed"
    BY <1>1, <2>2, <2>3, WriteTypes
  <2> QED
    BY <1>1, <1>3, <2>1, <2>2, <2>4 DEF SetMemberDepartment, TypeOK, Aside
<1> QED
  BY <1>2, <1>3

LEMMA RemovalAside ==
    ASSUME IInv, NEW m \in Member, NEW S \in SUBSET Member,
           RemoveApplicant(m) \/ RemoveByStatus(m) \/ RemoveSome(S)
    PROVE  TypeOK' /\ Aside(NoOne)
<1>1. TypeOK
  BY DEF IInv
<1>2. Idle \in Job
  BY DEF Job, Idle
<1>3. PICK rows : Write(NoOne, Idle, rows)
  BY DEF RemoveApplicant, RemoveByStatus, RemoveSome
<1>4. \A w : Write(w, Idle, rows) =>
          /\ job' \in [Session -> Job]
          /\ \A x \in Session : x # w => \/ job'[x] = job[x]
                                         \/ job[x].pc = "moving" /\ job'[x].pc = "doomed"
  BY <1>1, <1>2, WriteTypes
<1>5. count' \in [Teams -> Int]
  BY <1>1, RecountedType DEF RemoveApplicant, RemoveByStatus, RemoveSome, TypeOK
<1>6. /\ team' \in [Member -> Teams \cup {NoTeam}] /\ removed' \subseteq Member
      /\ UNCHANGED <<dept, locked, requests, latch>>
  BY <1>1 DEF RemoveApplicant, RemoveByStatus, RemoveSome, TypeOK
<1> QED
  BY <1>1, <1>3, <1>4, <1>5, <1>6, TeamAssumption DEF TypeOK, Aside

(* A request that exists is a request, and comes from a team. *)
LEMMA RequestType ==
    ASSUME TypeOK, NEW r \in DOMAIN requests
    PROVE  /\ r \in Nat /\ requests[r] \in Request
           /\ requests[r].from \in Teams /\ requests[r].moves \in Nat
<1>1. r \in Nat /\ requests[r] \in Request
  BY DEF TypeOK
<1> QED
  BY <1>1 DEF Request

LEMMA ApprovalType ==
    ASSUME IInv, NEW x \in Session, Asks(x)
    PROVE  /\ job[x].r \in DOMAIN requests /\ requests[job[x].r] \in Request
           /\ requests[job[x].r].from \in Teams
<1>1. TypeOK /\ job[x].r \in DOMAIN requests
  BY DEF IInv, Named
<1> QED
  BY <1>1, RequestType

-----------------------------------------------------------------------------
(* The steps of a request, of its approval, and of a locking.              *)

(* A new request is PENDING and has moved nobody; the others are as they were. *)
LEMMA CreateKeeps ==
    ASSUME IInv, NEW m \in Member, NEW to \in Teams \cup {NoTeam}, CreateRequest(m, to)
    PROVE  IInv'
<1> DEFINE new == [by |-> m, from |-> team[m], to |-> to,
                   mentor |-> "PENDING", status |-> "PENDING", moves |-> 0]
<1>1. TypeOK /\ requests \in Seq(Request) /\ new \in Request
  BY DEF IInv, TypeOK, CreateRequest, Request, Verdict
<1>2. /\ requests' = Append(requests, new)
      /\ UNCHANGED <<team, removed, dept, count, locked, latch, job>>
  BY DEF CreateRequest
<1> HIDE DEF new
<1>3. /\ requests' \in Seq(Request)
      /\ DOMAIN requests' = DOMAIN requests \cup {Len(requests) + 1}
      /\ requests'[Len(requests) + 1] = new
      /\ \A r \in DOMAIN requests : requests'[r] = requests[r]
  BY <1>1, <1>2
<1>4. TypeOK'
  BY <1>1, <1>2, <1>3 DEF TypeOK
<1>5. Named'
  BY <1>2, <1>3 DEF IInv, Named, Asks
<1>6. Holding' /\ ClaimStands'
  BY <1>2, <1>3 DEF IInv, Named, Asks, Holding, ClaimStands
<1>7. RequestMovesOnce'
  <2>1. new.moves = 0 /\ new.status = "PENDING"
    BY DEF new
  <2> QED
    BY <1>3, <2>1 DEF IInv, RequestMovesOnce
<1> QED
  BY <1>4, <1>5, <1>6, <1>7 DEF IInv

(* A session that only reads, and is then at a review, a rejection or before a claim. *)
LEMMA ReadKeeps ==
    ASSUME IInv, NEW w \in Session, NEW j \in Job, NEW r \in DOMAIN requests,
           Begin(w, j), j.pc \in {"review", "reject", "claim"}, j.r = r
    PROVE  IInv'
<1>1. /\ job' = [job EXCEPT ![w] = j] /\ job \in [Session -> Job]
      /\ UNCHANGED <<team, removed, dept, count, locked, requests, latch>>
  BY DEF Begin, IInv, TypeOK
<1>2. TypeOK'
  BY <1>1 DEF IInv, TypeOK
<1>3. \A x \in Session : job'[x] = IF x = w THEN j ELSE job[x]
  BY <1>1
<1>4. Named'
  BY <1>1, <1>3 DEF IInv, Named, Asks
<1>5. Holding' /\ ClaimStands'
  BY <1>1, <1>3 DEF IInv, Holding, ClaimStands
<1>6. RequestMovesOnce'
  BY <1>1 DEF IInv, RequestMovesOnce
<1> QED
  BY <1>2, <1>4, <1>5, <1>6 DEF IInv

LEMMA ReadSteps ==
    ASSUME IInv, NEW w \in Session, NEW r \in DOMAIN requests,
           NEW verdict \in {"APPROVED", "REJECTED"},
           ReadReview(w, r, verdict) \/ ReadReject(w, r) \/ ReadApproval(w, r)
    PROVE  IInv'
<1>1. r \in Nat
  BY DEF IInv, TypeOK
<1>2. CASE ReadReview(w, r, verdict)
  <2>1. [pc |-> "review", r |-> r, verdict |-> verdict] \in Job
    BY <1>1 DEF Job, Verdict
  <2> QED
    BY <1>2, <2>1, ReadKeeps DEF ReadReview
<1>3. CASE ReadReject(w, r)
  <2>1. [pc |-> "reject", r |-> r] \in Job
    BY <1>1 DEF Job
  <2> QED
    BY <1>3, <2>1, ReadKeeps DEF ReadReject
<1>4. CASE ReadApproval(w, r)
  <2>1. [pc |-> "claim", r |-> r] \in Job
    BY <1>1 DEF Job
  <2> QED
    BY <1>4, <2>1, ReadKeeps DEF ReadApproval
<1> QED
  BY <1>2, <1>3, <1>4

(* A review or a rejection waits for a claim of its request, and counts no move. *)
LEMMA VerdictKeeps ==
    ASSUME IInv, NEW w \in Session, Review(w) \/ Reject(w)
    PROVE  IInv'
<1> DEFINE r == job[w].r
<1>1. r \in DOMAIN requests /\ ~Claimed(r) /\ job[w].pc \in {"review", "reject"}
  BY DEF IInv, Named, Asks, Review, Reject
<1>2. PICK q \in Request :
        /\ requests' = [requests EXCEPT ![r] = q]
        /\ q.from = requests[r].from /\ q.moves = requests[r].moves
        /\ q.status = requests[r].status \/ q.status = "REJECTED"
  <2>1. requests \in Seq(Request) /\ requests[r] \in Request /\ job[w] \in Job
    BY <1>1 DEF IInv, TypeOK
  <2>2. CASE Review(w)
    <3> DEFINE verdict == job[w].verdict
               q == [requests[r] EXCEPT !.mentor = verdict,
                        !.status = IF verdict = "REJECTED" THEN verdict ELSE requests[r].status]
    <3>1. verdict \in Verdict
      BY <2>1, <2>2 DEF Review, Job
    <3>2. /\ q \in Request /\ q.from = requests[r].from /\ q.moves = requests[r].moves
          /\ q.status = requests[r].status \/ q.status = "REJECTED"
      BY <2>1, <3>1 DEF Request, Verdict
    <3>3. requests' = [requests EXCEPT ![r] = q]
      BY <2>1, <2>2 DEF Review, Request
    <3> QED
      BY <3>2, <3>3
  <2>3. CASE Reject(w)
    <3> DEFINE q == [requests[r] EXCEPT !.status = "REJECTED"]
    <3>1. /\ q \in Request /\ q.from = requests[r].from /\ q.moves = requests[r].moves
          /\ q.status = "REJECTED"
      BY <2>1 DEF Request, Verdict
    <3>2. requests' = [requests EXCEPT ![r] = q]
      BY <2>1, <2>3 DEF Reject, Request
    <3> QED
      BY <3>1, <3>2
  <2> QED
    BY <2>2, <2>3
<1>3. /\ requests' \in Seq(Request) /\ DOMAIN requests' = DOMAIN requests
      /\ \A s \in DOMAIN requests : requests'[s] = IF s = r THEN q ELSE requests[s]
  BY <1>1, <1>2 DEF IInv, TypeOK
<1>4. /\ UNCHANGED <<team, removed, dept, count, locked, latch>>
      /\ job' = [job EXCEPT ![w] = Idle] /\ Idle \in Job /\ Idle.pc = "idle"
  BY DEF Review, Reject, Go, Idle, Job
<1>5. TypeOK'
  BY <1>3, <1>4 DEF IInv, TypeOK
<1>6. \A x \in Session : job'[x] = IF x = w THEN Idle ELSE job[x]
  BY <1>4 DEF IInv, TypeOK
<1> HIDE DEF r
<1>7. Named'
  BY <1>3, <1>4, <1>6 DEF IInv, Named, Asks
<1>8. \A x \in Session : job'[x].pc = "approve" =>
          job'[x] = job[x] /\ job[x].r # r /\ job[x].r \in DOMAIN requests
  BY <1>1, <1>4, <1>6 DEF Claimed, IInv, Named, Asks
<1>9. Holding' /\ ClaimStands'
  BY <1>3, <1>4, <1>6, <1>8 DEF IInv, Holding, ClaimStands
<1>10. RequestMovesOnce'
  BY <1>1, <1>2, <1>3 DEF IInv, RequestMovesOnce
<1> QED
  BY <1>5, <1>7, <1>9, <1>10 DEF IInv

(* A claim takes the lock of the request's team, which nobody held. *)
LEMMA ClaimKeeps ==
    ASSUME IInv, NEW w \in Session, Claim(w)
    PROVE  IInv'
<1> DEFINE r == job[w].r
           j == [pc |-> "approve", r |-> r]
<1>1. /\ r \in DOMAIN requests /\ r \in Nat /\ requests[r] \in Request
      /\ requests[r].from \in Teams /\ latch[requests[r].from] = NoOne
      /\ requests[r].status = "PENDING" /\ requests[r].from \notin locked
  <2>1. Asks(w) /\ TypeOK
    BY DEF IInv, Asks, Claim
  <2>2. r \in DOMAIN requests /\ requests[r] \in Request /\ requests[r].from \in Teams /\ r \in Nat
    BY <2>1, ApprovalType, RequestType
  <2> QED
    BY <2>2 DEF Claim, MayApprove, StillPending
<1>2. /\ latch' = [latch EXCEPT ![requests[r].from] = w]
      /\ job' = [job EXCEPT ![w] = j] /\ j \in Job
      /\ UNCHANGED <<team, removed, dept, count, locked, requests>>
  BY <1>1 DEF Claim, Go, Job
<1>3. \A x \in Session : job'[x] = IF x = w THEN j ELSE job[x]
  BY <1>2 DEF IInv, TypeOK
<1>4. TypeOK'
  BY <1>2 DEF IInv, TypeOK
<1>5. j.pc = "approve" /\ j.r = r
  OBVIOUS
<1> HIDE DEF r, j
<1>6. Named'
  BY <1>1, <1>2, <1>3, <1>5 DEF IInv, Named, Asks
<1>7. \A t \in Teams : latch'[t] = IF t = requests[r].from THEN w ELSE latch[t]
  BY <1>1, <1>2 DEF IInv, TypeOK
<1>8. Holding'
  <2>1. ASSUME NEW x \in Session, x # w, job[x].pc = "approve"
        PROVE  requests[job[x].r].from \in Teams /\ latch[requests[job[x].r].from] # NoOne
    BY <2>1, ApprovalType, TeamAssumption DEF IInv, Asks, Holding
  <2>2. ASSUME NEW x \in Session, x # w, job[x].pc = "lock"
        PROVE  job[x].t \in Teams /\ latch[job[x].t] # NoOne
    BY <2>2, TeamAssumption DEF IInv, TypeOK, Holding, Job
  <2> QED
    BY <1>1, <1>2, <1>3, <1>5, <1>7, <2>1, <2>2 DEF IInv, Holding
<1>9. ClaimStands'
  BY <1>1, <1>2, <1>3, <1>5 DEF IInv, ClaimStands
<1>10. RequestMovesOnce'
  BY <1>2 DEF IInv, RequestMovesOnce
<1> QED
  BY <1>4, <1>6, <1>8, <1>9, <1>10 DEF IInv

(* A commit decides its own request; the other approvals hold the locks of other teams, *)
(* so that theirs are other requests.                                                     *)
LEMMA CommitKeeps ==
    ASSUME IInv, NEW w \in Session, CommitApproval(w)
    PROVE  IInv'
<1> DEFINE r == job[w].r
           from == requests[r].from
           q == [requests[r] EXCEPT !.status = "APPROVED", !.moves = requests[r].moves + 1]
<1>1. /\ TypeOK /\ job[w].pc = "approve" /\ r \in DOMAIN requests /\ requests[r] \in Request
      /\ from \in Teams /\ latch[from] = w
  BY ApprovalType DEF IInv, Asks, CommitApproval, Holding
<1>2. requests[r].moves = 0
  BY <1>1 DEF IInv, ClaimStands, RequestMovesOnce
<1>3. /\ q \in Request /\ q.from = from /\ q.status = "APPROVED" /\ q.moves = 1
  <2>1. \A p \in Request : p.moves = 0 =>
          [p EXCEPT !.status = "APPROVED", !.moves = p.moves + 1] \in Request
    <3>1. \A p \in Request, n \in Nat, v \in Verdict :
            [p EXCEPT !.status = v, !.moves = n] \in Request
      BY DEF Request
    <3>2. "APPROVED" \in Verdict /\ \A n \in Nat : n = 0 => n + 1 \in Nat
      BY DEF Verdict
    <3>3. \A p \in Request : p.moves \in Nat
      BY DEF Request
    <3> QED
      BY <3>1, <3>2, <3>3
  <2>2. \A p \in Request : p.moves = 0 =>
          LET n == [p EXCEPT !.status = "APPROVED", !.moves = p.moves + 1] IN
            n.from = p.from /\ n.status = "APPROVED" /\ n.moves = 1
    BY DEF Request
  <2> QED
    BY <1>1, <1>2, <2>1, <2>2
<1>4. /\ requests' = [requests EXCEPT ![r] = q]
      /\ latch' = [latch EXCEPT ![from] = NoOne] /\ UNCHANGED <<removed, locked>>
  BY <1>1 DEF CommitApproval, Request
<1>5. /\ requests' \in Seq(Request) /\ DOMAIN requests' = DOMAIN requests
      /\ \A s \in DOMAIN requests : requests'[s] = IF s = r THEN q ELSE requests[s]
  BY <1>1, <1>3, <1>4 DEF TypeOK
<1>6. Idle \in Job /\ Idle.pc = "idle"
  BY DEF Idle, Job
<1>7. /\ job' \in [Session -> Job] /\ job'[w] = Idle
      /\ \A x \in Session : x # w => \/ job'[x] = job[x]
                                     \/ job[x].pc = "moving" /\ job'[x].pc = "doomed"
  <2>1. PICK rows : Write(w, Idle, rows)
    BY DEF CommitApproval
  <2> QED
    BY <1>1, <1>6, <2>1, WriteTypes
<1>8. TypeOK'
  <2>1. /\ team' = [team EXCEPT ![requests[r].by] = requests[r].to]
        /\ dept' = [dept EXCEPT ![requests[r].by] = NoDept]
        /\ count' = Recounted(team[requests[r].by], requests[r].to)
    BY DEF CommitApproval
  <2>2. count' \in [Teams -> Int]
    BY <1>1, <2>1, RecountedType
  <2>3. requests[r].to \in Teams \cup {NoTeam}
    BY <1>1 DEF Request
  <2> QED
    BY <1>1, <1>4, <1>5, <1>7, <2>1, <2>2, <2>3 DEF TypeOK
<1>9. \A t \in Teams : latch'[t] = IF t = from THEN NoOne ELSE latch[t]
  BY <1>1, <1>4 DEF TypeOK
<1> HIDE DEF q
<1>10. ASSUME NEW x \in Session, Asks(x)'
       PROVE  x # w /\ job'[x] = job[x] /\ Asks(x)
  BY <1>6, <1>7, <1>10 DEF Asks
<1>11. Named'
  BY <1>5, <1>10 DEF IInv, Named
<1>12. ASSUME NEW x \in Session, job'[x].pc = "approve"
       PROVE  /\ job'[x] = job[x] /\ requests'[job[x].r] = requests[job[x].r]
              /\ requests[job[x].r].from # from /\ requests[job[x].r].from \in Teams
  <2>1. x # w /\ job'[x] = job[x] /\ Asks(x)
    BY <1>10, <1>12 DEF Asks
  <2>2. job[x].r \in DOMAIN requests /\ latch[requests[job[x].r].from] = x
    BY <1>12, <2>1 DEF IInv, Named, Holding
  <2>3. requests[job[x].r].from # from
    BY <1>1, <2>1, <2>2
  <2>4. requests[job[x].r].from \in Teams
    BY <2>1, ApprovalType
  <2>5. requests'[job[x].r] = requests[job[x].r]
    BY <1>5, <2>2, <2>3
  <2> QED
    BY <2>1, <2>3, <2>4, <2>5
<1>13. ASSUME NEW x \in Session, job'[x].pc = "lock"
       PROVE  job'[x] = job[x] /\ job[x].t \in Teams /\ job[x].t # from
  BY <1>1, <1>6, <1>7, <1>13 DEF IInv, TypeOK, Holding, Job
<1>14. Holding'
  BY <1>9, <1>12, <1>13 DEF IInv, Holding
<1>15. ClaimStands'
  BY <1>4, <1>12 DEF IInv, ClaimStands
<1>16. RequestMovesOnce'
  BY <1>3, <1>5 DEF IInv, RequestMovesOnce
<1> QED
  BY <1>8, <1>11, <1>14, <1>15, <1>16 DEF IInv

(* A locking holds its team's lock, so that no claim is out of that team. *)
LEMMA LockKeeps ==
    ASSUME IInv, NEW w \in Session, NEW t \in Teams, StartLock(w, t) \/ LockTeam(w)
    PROVE  IInv'
<1>1. TypeOK /\ \A x \in Session : job[x].pc = "approve" =>
          /\ job[x].r \in DOMAIN requests /\ requests[job[x].r].from \in Teams
          /\ latch[requests[job[x].r].from] = x
  BY ApprovalType DEF IInv, Asks, Holding
<1>2. \A x \in Session : job[x].pc = "lock" => job[x].t \in Teams /\ latch[job[x].t] = x
  BY DEF IInv, TypeOK, Holding, Job
<1>3. CASE StartLock(w, t)
  <2> DEFINE j == [pc |-> "lock", t |-> t]
  <2>1. /\ latch[t] = NoOne /\ latch' = [latch EXCEPT ![t] = w]
        /\ job' = [job EXCEPT ![w] = j] /\ j \in Job /\ j.pc = "lock" /\ j.t = t
        /\ UNCHANGED <<team, removed, dept, count, locked, requests>>
    BY <1>3 DEF StartLock, LatchFree, Go, Job
  <2> HIDE DEF j
  <2>2. TypeOK'
    BY <1>1, <2>1 DEF TypeOK
  <2>3. /\ \A x \in Session : job'[x] = IF x = w THEN j ELSE job[x]
        /\ \A u \in Teams : latch'[u] = IF u = t THEN w ELSE latch[u]
    BY <1>1, <2>1 DEF TypeOK
  <2>4. Named' /\ ClaimStands'
    BY <2>1, <2>3 DEF IInv, Named, Asks, ClaimStands
  <2>5. Holding'
    BY <1>1, <1>2, <2>1, <2>3, TeamAssumption DEF Holding
  <2>6. RequestMovesOnce'
    BY <2>1 DEF IInv, RequestMovesOnce
  <2> QED
    BY <2>2, <2>4, <2>5, <2>6 DEF IInv
<1>4. CASE LockTeam(w)
  <2> DEFINE u == job[w].t
  <2>1. /\ u \in Teams /\ latch[u] = w /\ locked' = locked \cup {u}
        /\ latch' = [latch EXCEPT ![u] = NoOne]
        /\ UNCHANGED <<team, removed, dept, count, requests>>
    BY <1>2, <1>4 DEF LockTeam
  <2>2. Idle \in Job /\ Idle.pc = "idle"
    BY DEF Idle, Job
  <2>3. /\ job' \in [Session -> Job] /\ job'[w] = Idle
        /\ \A x \in Session : x # w => \/ job'[x] = job[x]
                                       \/ job[x].pc = "moving" /\ job'[x].pc = "doomed"
    <3>1. Write(w, Idle, {u})
      BY <1>4 DEF LockTeam
    <3> QED
      BY <1>1, <2>2, <3>1, WriteTypes
  <2> HIDE DEF u
  <2>4. TypeOK'
    BY <1>1, <2>1, <2>3 DEF TypeOK
  <2>5. \A v \in Teams : latch'[v] = IF v = u THEN NoOne ELSE latch[v]
    BY <1>1, <2>1 DEF TypeOK
  <2>6. ASSUME NEW x \in Session, Asks(x)' \/ job'[x].pc = "lock"
        PROVE  x # w /\ job'[x] = job[x]
    BY <2>2, <2>3, <2>6 DEF Asks
  <2>7. Named'
    BY <2>1, <2>6 DEF IInv, Named, Asks
  <2>8. ASSUME NEW x \in Session, job'[x].pc = "approve"
        PROVE  /\ job'[x] = job[x] /\ latch[requests[job[x].r].from] = x
               /\ requests[job[x].r].from \in Teams \ {u}
    BY <1>1, <2>1, <2>6, <2>8 DEF Asks
  <2>9. ASSUME NEW x \in Session, job'[x].pc = "lock"
        PROVE  job'[x] = job[x] /\ latch[job[x].t] = x /\ job[x].t \in Teams \ {u}
    BY <1>2, <2>1, <2>6, <2>9
  <2>10. Holding'
    BY <2>1, <2>5, <2>8, <2>9 DEF Holding
  <2>11. ClaimStands'
    BY <2>1, <2>8 DEF IInv, ClaimStands
  <2>12. RequestMovesOnce'
    BY <2>1 DEF IInv, RequestMovesOnce
  <2> QED
    BY <2>4, <2>7, <2>10, <2>11, <2>12 DEF IInv
<1> QED
  BY <1>3, <1>4

(* A transaction that fails gives back its own locks and no other's. *)
LEMMA FailKeeps ==
    ASSUME IInv, NEW w \in Session, Fail(w)
    PROVE  IInv'
<1>1. /\ latch' = [t \in Teams |-> IF latch[t] = w THEN NoOne ELSE latch[t]]
      /\ job' = [job EXCEPT ![w] = Idle] /\ Idle \in Job /\ Idle.pc = "idle"
      /\ UNCHANGED <<team, removed, dept, count, locked, requests>>
  BY DEF Fail, Release, Go, Idle, Job
<1>2. \A x \in Session : job'[x] = IF x = w THEN Idle ELSE job[x]
  BY <1>1 DEF IInv, TypeOK
<1>3. TypeOK'
  BY <1>1 DEF IInv, TypeOK
<1>4. Named' /\ ClaimStands'
  BY <1>1, <1>2 DEF IInv, Named, Asks, ClaimStands
<1>5. Holding'
  <2>1. \A x \in Session : job[x].pc = "approve" => requests[job[x].r].from \in Teams
    BY ApprovalType DEF Asks
  <2>2. \A x \in Session : job[x].pc = "lock" => job[x].t \in Teams
    BY DEF IInv, TypeOK, Job
  <2> QED
    BY <1>1, <1>2, <2>1, <2>2 DEF IInv, Holding
<1>6. RequestMovesOnce'
  BY <1>1 DEF IInv, RequestMovesOnce
<1> QED
  BY <1>3, <1>4, <1>5, <1>6 DEF IInv

-----------------------------------------------------------------------------
LEMMA NextKeeps == IInv /\ [Next]_vars => IInv'
<1> SUFFICES ASSUME IInv, [Next]_vars PROVE IInv'
  OBVIOUS
<1>1. CASE UNCHANGED vars
  BY <1>1 DEF vars, IInv, TypeOK, Named, Asks, Holding, ClaimStands, RequestMovesOnce
<1>2. ASSUME NEW m \in Member, RemoveApplicant(m) \/ RemoveByStatus(m)
      PROVE  IInv'
  <2>1. {} \in SUBSET Member
    OBVIOUS
  <2> QED
    BY <1>2, <2>1, RemovalAside, AsideKeeps
<1>3. ASSUME NEW t \in Teams, RemoveSome(Active(t))
      PROVE  IInv'
  <2>1. Active(t) \in SUBSET Member
    BY DEF Active, Members
  <2>2. PICK m \in Member : m \in Active(t)
    BY <1>3, <2>1 DEF RemoveSome
  <2> QED
    BY <1>3, <2>1, <2>2, RemovalAside, AsideKeeps
<1>4. ASSUME NEW m \in Member, NEW to \in Teams \cup {NoTeam}, CreateRequest(m, to)
      PROVE  IInv'
  BY <1>4, CreateKeeps
<1>5. ASSUME NEW w \in Session, NEW m \in Member, NEW t \in Teams,
             StartMatch(w, m, t) \/ ReadMove(w, m, t)
      PROVE  IInv'
  BY <1>5, MatchAside, MoveAside, AsideKeeps
<1>6. ASSUME NEW w \in Session, Recount(w) \/ Join(w) \/ BeginMove(w) \/ CommitMove(w)
      PROVE  IInv'
  <2>1. PICK m \in Member, t \in Teams : TRUE
    BY <1>6 DEF Recount, Join, BeginMove, CommitMove, SinceSnapshot, IInv, TypeOK, Job
  <2> QED
    BY <1>6, <2>1, MatchAside, MoveAside, AsideKeeps
<1>7. ASSUME NEW w \in Session, NEW r \in DOMAIN requests,
             \/ \E verdict \in {"APPROVED", "REJECTED"} : ReadReview(w, r, verdict)
             \/ ReadReject(w, r) \/ ReadApproval(w, r)
      PROVE  IInv'
  BY <1>7, ReadSteps
<1>8. ASSUME NEW w \in Session, NEW m \in Member, NEW d \in Dept, ReadDepartment(w, m, d)
      PROVE  IInv'
  BY <1>8, DepartmentAside, AsideKeeps
<1>9. ASSUME NEW w \in Session, SetMemberDepartment(w)
      PROVE  IInv'
  <2>1. PICK m \in Member, d \in Dept : TRUE
    BY <1>9 DEF SetMemberDepartment, IInv, TypeOK, Job
  <2> QED
    BY <1>9, <2>1, DepartmentAside, AsideKeeps
<1>10. ASSUME NEW w \in Session, NEW t \in Teams, StartLock(w, t)
       PROVE  IInv'
  BY <1>10, LockKeeps
<1>11. ASSUME NEW w \in Session, LockTeam(w)
       PROVE  IInv'
  <2>1. PICK t \in Teams : TRUE
    BY <1>11 DEF LockTeam, IInv, TypeOK, Job
  <2> QED
    BY <1>11, <2>1, LockKeeps
<1>12. ASSUME NEW w \in Session,
              Review(w) \/ Reject(w) \/ Claim(w) \/ CommitApproval(w) \/ Fail(w)
       PROVE  IInv'
  BY <1>12, VerdictKeeps, ClaimKeeps, CommitKeeps, FailKeeps
<1> QED
  BY <1>1, <1>2, <1>3, <1>4, <1>5, <1>6, <1>7, <1>8, <1>9, <1>10, <1>11, <1>12 DEF Next

(* The tables of the teams and the records of the sessions stay within their types. *)
THEOREM TypeCorrect == Spec => []TypeOK
<1>1. IInv => TypeOK
  BY DEF IInv
<1> QED
  BY <1>1, InitIInv, NextKeeps, PTL DEF Spec

(* For any number of admins, mentors and requests: a request moves its member once, when *)
(* and only when it is approved.                                                          *)
THEOREM MovedOnce == Spec => []RequestMovesOnce
<1>1. IInv => RequestMovesOnce
  BY DEF IInv
<1> QED
  BY <1>1, InitIInv, NextKeeps, PTL DEF Spec

(* Only a commit counts a move, and its claim kept the team it leaves open. *)
LEMMA OnlyCommitsMove ==
    ASSUME IInv, [Next]_vars, NEW r \in DOMAIN requests, requests'[r].moves # requests[r].moves
    PROVE  requests[r].from \notin locked
<1>1. requests \in Seq(Request) /\ requests' # requests
  BY DEF IInv, TypeOK
<1>2. CASE \E w \in Session : CommitApproval(w)
  <2>1. PICK w \in Session : CommitApproval(w)
    BY <1>2
  <2>2. job[w].r = r
    BY <1>1, <2>1 DEF CommitApproval
  <2> QED
    BY <2>1, <2>2 DEF CommitApproval, IInv, ClaimStands
<1>3. CASE \E m \in Member, to \in Teams \cup {NoTeam} : CreateRequest(m, to)
  BY <1>1, <1>3 DEF CreateRequest
<1>4. CASE \E w \in Session : Review(w) \/ Reject(w)
  <2>1. PICK w \in Session : Review(w) \/ Reject(w)
    BY <1>4
  <2>2. requests[r] \in Request /\ requests[job[w].r] \in Request /\ job[w].r \in DOMAIN requests
    BY <2>1, RequestType, ApprovalType DEF IInv, Asks, Review, Reject
  <2>3. requests'[r].moves = requests[r].moves
    BY <2>1, <2>2 DEF Review, Reject, Request
  <2> QED
    BY <2>3
<1>5. ASSUME NEW m \in Member, RemoveApplicant(m) \/ RemoveByStatus(m)
      PROVE  FALSE
  BY <1>1, <1>5 DEF RemoveApplicant, RemoveByStatus
<1>6. ASSUME NEW t \in Teams, RemoveSome(Active(t))
      PROVE  FALSE
  BY <1>1, <1>6 DEF RemoveSome
<1>7. ASSUME NEW w \in Session, NEW m \in Member, NEW t \in Teams,
             StartMatch(w, m, t) \/ ReadMove(w, m, t)
      PROVE  FALSE
  BY <1>1, <1>7 DEF StartMatch, ReadMove, Begin
<1>8. ASSUME NEW w \in Session, NEW s \in DOMAIN requests,
             \/ \E verdict \in {"APPROVED", "REJECTED"} : ReadReview(w, s, verdict)
             \/ ReadReject(w, s) \/ ReadApproval(w, s)
      PROVE  FALSE
  BY <1>1, <1>8 DEF ReadReview, ReadReject, ReadApproval, Begin
<1>9. ASSUME NEW w \in Session, NEW m \in Member, NEW d \in Dept, ReadDepartment(w, m, d)
      PROVE  FALSE
  BY <1>1, <1>9 DEF ReadDepartment, Begin
<1>10. ASSUME NEW w \in Session, NEW t \in Teams, StartLock(w, t)
       PROVE  FALSE
  BY <1>1, <1>10 DEF StartLock
<1>11. ASSUME NEW w \in Session,
              \/ Recount(w) \/ Join(w) \/ BeginMove(w) \/ CommitMove(w) \/ Claim(w)
              \/ SetMemberDepartment(w) \/ LockTeam(w) \/ Fail(w)
       PROVE  FALSE
  BY <1>1, <1>11 DEF Recount, Join, BeginMove, CommitMove, Claim, SetMemberDepartment,
       LockTeam, Fail, Release
<1>12. ~UNCHANGED vars
  BY <1>1 DEF vars
<1> QED
  BY <1>2, <1>3, <1>4, <1>5, <1>6, <1>7, <1>8, <1>9, <1>10, <1>11, <1>12 DEF Next

(* For any number of sessions: no approval of a request out of a team commits once that *)
(* team is locked.                                                                        *)
THEOREM NeverOutOfLockedTeam == Spec => FrozenAgainstRequests
<1>1. IInv /\ [Next]_vars =>
        [\A r \in DOMAIN requests :
            requests'[r].moves # requests[r].moves => requests[r].from \notin locked]_vars
  BY OnlyCommitsMove
<1> QED
  BY <1>1, InitIInv, NextKeeps, PTL DEF Spec, FrozenAgainstRequests

-----------------------------------------------------------------------------
(* A move whose snapshot stands never overfills its target.                *)

(* Whoever is about to commit a move, and is not doomed, moves into a team with room. *)
MovingFits == \A w \in Session : job[w].pc = "moving" => Size(job[w].to) < MaxSize

LEMMA SizeType ==
    ASSUME NEW t
    PROVE  IsFiniteSet(Members(t)) /\ Size(t) \in Nat
  BY TeamAssumption, FS_Subset, FS_CardinalityType DEF Size, Members

(* The same of the next state. *)
LEMMA SizeTypeAfter ==
    ASSUME NEW t
    PROVE  IsFiniteSet(Members(t)') /\ Size(t)' \in Nat
  BY TeamAssumption, FS_Subset, FS_CardinalityType DEF Size, Members

(* One member who changes team adds one to the team he joins, and nothing to another. *)
LEMMA OneMoves ==
    ASSUME TypeOK, NEW m \in Member, NEW v, NEW t, team' = [team EXCEPT ![m] = v]
    PROVE  /\ Size(t)' <= Size(t) + 1
           /\ v # t => Size(t)' <= Size(t)
<1>1. \A n \in Member : team'[n] = IF n = m THEN v ELSE team[n]
  BY DEF TypeOK
<1>2. /\ IsFiniteSet(Members(t)) /\ Size(t) \in Nat
      /\ IsFiniteSet(Members(t)') /\ Size(t)' \in Nat
  BY SizeType, SizeTypeAfter
<1>3. /\ IsFiniteSet(Members(t) \cup {m})
      /\ Cardinality(Members(t) \cup {m}) <= Size(t) + 1
  BY <1>2, FS_AddElement DEF Size
<1>4. Members(t)' \subseteq Members(t) \cup {m}
  BY <1>1 DEF Members
<1>5. Size(t)' <= Cardinality(Members(t) \cup {m})
  BY <1>3, <1>4, FS_Subset DEF Size
<1>6. Cardinality(Members(t) \cup {m}) \in Nat
  BY <1>3, FS_CardinalityType
<1>7. ASSUME v # t
      PROVE  Size(t)' <= Size(t)
  <2>1. Members(t)' \subseteq Members(t)
    BY <1>1, <1>7 DEF Members
  <2> QED
    BY <1>2, <2>1, FS_Subset DEF Size
<1> QED
  BY <1>2, <1>3, <1>5, <1>6, <1>7

(* A write dooms every move that its rows concern. *)
LEMMA MoverSurvives ==
    ASSUME TypeOK, NEW x, NEW rows, Write(x, Idle, rows),
           NEW w \in Session, job'[w].pc = "moving"
    PROVE  /\ w # x /\ job[w].pc = "moving" /\ job'[w] = job[w]
           /\ job[w].to \notin rows /\ job[w].to \in Teams
<1>1. job'[w] = IF w = x THEN Idle
                ELSE IF job[w].pc = "moving" /\ rows \cap {job[w].m, job[w].old, job[w].to} # {}
                     THEN [job[w] EXCEPT !.pc = "doomed"] ELSE job[w]
  BY DEF Write
<1>2. Idle.pc # "moving"
  BY DEF Idle
<1>3. job[w] \in Job
  BY DEF TypeOK
<1>4. job[w].pc = "moving" => [job[w] EXCEPT !.pc = "doomed"].pc = "doomed" /\ job[w].to \in Teams
  BY <1>3 DEF Job
<1> QED
  BY <1>1, <1>2, <1>4

(* A step that moves one member, and dooms whoever moves into the team he joins. *)
LEMMA MoveKeepsFits ==
    ASSUME TypeOK, MovingFits, NEW m \in Member, NEW v, NEW x, NEW rows,
           team' = [team EXCEPT ![m] = v], Write(x, Idle, rows), v \in Teams => v \in rows
    PROVE  MovingFits'
<1> SUFFICES ASSUME NEW w \in Session, job'[w].pc = "moving", NEW t, t = job'[w].to
             PROVE  Size(t)' < MaxSize
  BY DEF MovingFits, Size, Members
<1>1. /\ job[w].pc = "moving" /\ job'[w] = job[w]
      /\ job[w].to \notin rows /\ job[w].to \in Teams
  BY MoverSurvives
<1>2. t = job[w].to /\ t \in Teams
  BY <1>1
<1>3. v # t
  BY <1>1, <1>2
<1>4. Size(t)' <= Size(t) /\ Size(t) < MaxSize
  BY <1>1, <1>2, <1>3, OneMoves DEF MovingFits
<1>5. Size(t) \in Nat /\ Size(t)' \in Nat /\ MaxSize \in Nat
  BY SizeType, SizeTypeAfter, TeamAssumption
<1> QED
  BY <1>4, <1>5

(* A step that moves nobody, and begins no move. *)
LEMMA StayKeepsFits ==
    ASSUME MovingFits, UNCHANGED team,
           \A w \in Session : job'[w].pc = "moving" => job'[w] = job[w]
    PROVE  MovingFits'
  BY DEF MovingFits, Size, Members

LEMMA NextFits == IInv /\ MovingFits /\ [Next]_vars => MovingFits'
<1> SUFFICES ASSUME IInv, MovingFits, [Next]_vars PROVE MovingFits'
  OBVIOUS
<1>1. TypeOK
  BY DEF IInv
<1>2. ASSUME NEW m \in Member, RemoveApplicant(m) \/ RemoveByStatus(m)
      PROVE  MovingFits'
  <2>1. PICK rows : Write(NoOne, Idle, rows) /\ team' = [team EXCEPT ![m] = NoTeam]
    BY <1>2 DEF RemoveApplicant, RemoveByStatus
  <2> QED
    BY <1>1, <2>1, MoveKeepsFits, TeamAssumption
<1>3. ASSUME NEW t \in Teams, RemoveSome(Active(t))
      PROVE  MovingFits'
  BY <1>1, <1>3, MoverSurvives, StayKeepsFits DEF RemoveSome
<1>4. ASSUME NEW w \in Session, Join(w)
      PROVE  MovingFits'
  <2>1. job[w].m \in Member /\ job[w].to \in Teams
    BY <1>1, <1>4 DEF Join, TypeOK, Job
  <2> QED
    BY <1>1, <1>4, <2>1, MoveKeepsFits DEF Join
<1>5. ASSUME NEW w \in Session, CommitMove(w)
      PROVE  MovingFits'
  <2>1. job[w].m \in Member /\ job[w].to \in Teams
    BY <1>1, <1>5 DEF CommitMove, SinceSnapshot, TypeOK, Job
  <2> QED
    BY <1>1, <1>5, <2>1, MoveKeepsFits DEF CommitMove
<1>6. ASSUME NEW w \in Session, CommitApproval(w)
      PROVE  MovingFits'
  <2>1. requests[job[w].r].by \in Member
    BY <1>6, ApprovalType DEF IInv, Asks, CommitApproval, Request
  <2> QED
    BY <1>1, <1>6, <2>1, MoveKeepsFits DEF CommitApproval
<1>7. ASSUME NEW w \in Session, BeginMove(w)
      PROVE  MovingFits'
  <2>1. job' = [job EXCEPT ![w] = [job[w] EXCEPT !.pc = "moving"]] /\ UNCHANGED team
    BY <1>7 DEF BeginMove, Go
  <2>2. [job[w] EXCEPT !.pc = "moving"].to = job[w].to
    BY <1>1, <1>7 DEF BeginMove, TypeOK, Job
  <2>3. job'[w].to = job[w].to /\ \A x \in Session \ {w} : job'[x] = job[x]
    BY <1>1, <2>1, <2>2 DEF TypeOK
  <2>4. Size(job[w].to) < MaxSize
    BY <1>7 DEF BeginMove
  <2> QED
    BY <2>1, <2>3, <2>4 DEF MovingFits, Size, Members
<1>8. ASSUME NEW w \in Session, SetMemberDepartment(w) \/ LockTeam(w)
      PROVE  MovingFits'
  <2>1. PICK rows : Write(w, Idle, rows)
    BY <1>8 DEF SetMemberDepartment, LockTeam
  <2>2. UNCHANGED team
    BY <1>8 DEF SetMemberDepartment, LockTeam
  <2> QED
    BY <1>1, <2>1, <2>2, MoverSurvives, StayKeepsFits
<1>9. ASSUME NEW w, NEW j, Begin(w, j) \/ Go(w, j), j.pc # "moving", UNCHANGED team
      PROVE  MovingFits'
  <2>1. \A x \in Session : job'[x] = job[x] \/ job'[x] = j
    BY <1>1, <1>9 DEF TypeOK, Begin, Go
  <2> QED
    BY <1>9, <2>1, StayKeepsFits
<1>10. ASSUME NEW w \in Session, NEW m \in Member, NEW t \in Teams,
             StartMatch(w, m, t) \/ ReadMove(w, m, t)
      PROVE  MovingFits'
  <2>1. UNCHANGED team
    BY <1>10 DEF StartMatch, ReadMove, Begin
  <2> QED
    BY <1>9, <1>10, <2>1 DEF StartMatch, ReadMove
<1>11. ASSUME NEW w \in Session, NEW t \in Teams, StartLock(w, t)
      PROVE  MovingFits'
  BY <1>9, <1>11 DEF StartLock
<1>12. ASSUME NEW w \in Session, NEW r \in DOMAIN requests,
             \/ \E verdict \in {"APPROVED", "REJECTED"} : ReadReview(w, r, verdict)
             \/ ReadReject(w, r) \/ ReadApproval(w, r)
      PROVE  MovingFits'
  <2>1. UNCHANGED team
    BY <1>12 DEF ReadReview, ReadReject, ReadApproval, Begin
  <2> QED
    BY <1>9, <1>12, <2>1 DEF ReadReview, ReadReject, ReadApproval
<1>13. ASSUME NEW w \in Session, NEW m \in Member, NEW d \in Dept, ReadDepartment(w, m, d)
      PROVE  MovingFits'
  <2>1. UNCHANGED team
    BY <1>13 DEF ReadDepartment, Begin
  <2> QED
    BY <1>9, <1>13, <2>1 DEF ReadDepartment
<1>14. ASSUME NEW w \in Session, Recount(w)
      PROVE  MovingFits'
  <2>1. [job[w] EXCEPT !.pc = "join"].pc = "join"
    BY <1>1, <1>14 DEF Recount, TypeOK, Job
  <2> QED
    BY <1>9, <1>14, <2>1 DEF Recount
<1>15. ASSUME NEW w \in Session, Review(w) \/ Reject(w) \/ Claim(w) \/ Fail(w)
      PROVE  MovingFits'
  <2>1. Idle.pc # "moving"
    BY DEF Idle
  <2> QED
    BY <1>9, <1>15, <2>1 DEF Review, Reject, Claim, Fail, Release
<1>16. ASSUME NEW m \in Member, NEW to \in Teams \cup {NoTeam}, CreateRequest(m, to)
      PROVE  MovingFits'
  BY <1>16, StayKeepsFits DEF CreateRequest
<1>17. CASE UNCHANGED vars
  BY <1>17, StayKeepsFits DEF vars
<1> QED
  BY <1>2, <1>3, <1>4, <1>5, <1>6, <1>7, <1>8, <1>10, <1>11, <1>12, <1>13, <1>14, <1>15,
     <1>16, <1>17 DEF Next

(* The step that ends a move and changes who is where is its commit. *)
LEMMA MoveEnds ==
    ASSUME IInv, MovingFits, [Next]_vars, NEW w \in Session,
           job[w].pc \in {"moving", "doomed"}, team' # team, job'[w].pc = "idle"
    PROVE  Cardinality({m \in Member : team'[m] = job[w].to}) <= MaxSize
<1>1. TypeOK /\ job[w] \in Job
  BY DEF IInv, TypeOK
<1>2. ASSUME NEW x, x # w, NEW rows, Write(x, Idle, rows)
      PROVE  FALSE
  <2>1. \/ job'[w] = job[w]
        \/ job'[w] = [job[w] EXCEPT !.pc = "doomed"]
    BY <1>2 DEF Write
  <2>2. [job[w] EXCEPT !.pc = "doomed"].pc = "doomed"
    BY <1>1 DEF Job
  <2> QED
    BY <2>1, <2>2
<1>3. ~ UNCHANGED team
  OBVIOUS
<1>4. CommitMove(w)
  <2>1. ASSUME NEW m \in Member, RemoveApplicant(m) \/ RemoveByStatus(m) PROVE FALSE
    BY <1>2, <2>1, TeamAssumption DEF RemoveApplicant, RemoveByStatus
  <2>2. ASSUME NEW x \in Session, Join(x) \/ CommitApproval(x) PROVE FALSE
    BY <1>2, <2>2 DEF Join, CommitApproval
  <2>3. ASSUME NEW x \in Session, CommitMove(x) PROVE x = w
    BY <1>2, <2>3 DEF CommitMove
  <2>4. \/ \E m \in Member : RemoveApplicant(m) \/ RemoveByStatus(m)
        \/ \E x \in Session : Join(x) \/ CommitApproval(x) \/ CommitMove(x)
    <3>1. ASSUME NEW m \in Member, NEW to \in Teams \cup {NoTeam}, CreateRequest(m, to) PROVE FALSE
      BY <1>3, <3>1 DEF CreateRequest
    <3>2. ASSUME NEW t \in Teams, RemoveSome(Active(t)) PROVE FALSE
      BY <1>3, <3>2 DEF RemoveSome
    <3>3. ASSUME NEW x \in Session, NEW m \in Member, NEW t \in Teams,
                 StartMatch(x, m, t) \/ ReadMove(x, m, t) PROVE FALSE
      BY <1>3, <3>3 DEF StartMatch, ReadMove, Begin
    <3>4. ASSUME NEW x \in Session, NEW r \in DOMAIN requests,
                 \/ \E verdict \in {"APPROVED", "REJECTED"} : ReadReview(x, r, verdict)
                 \/ ReadReject(x, r) \/ ReadApproval(x, r)
          PROVE  FALSE
      BY <1>3, <3>4 DEF ReadReview, ReadReject, ReadApproval, Begin
    <3>5. ASSUME NEW x \in Session, NEW m \in Member, NEW d \in Dept, ReadDepartment(x, m, d)
          PROVE  FALSE
      BY <1>3, <3>5 DEF ReadDepartment, Begin
    <3>6. ASSUME NEW x \in Session, NEW t \in Teams, StartLock(x, t) PROVE FALSE
      BY <1>3, <3>6 DEF StartLock
    <3>7. ASSUME NEW x \in Session,
                 \/ Recount(x) \/ BeginMove(x) \/ Review(x) \/ Reject(x) \/ Claim(x)
                 \/ SetMemberDepartment(x) \/ LockTeam(x) \/ Fail(x)
          PROVE  FALSE
      BY <1>3, <3>7 DEF Recount, BeginMove, Review, Reject, Claim, SetMemberDepartment,
           LockTeam, Fail, Release
    <3> QED
      BY <1>3, <3>1, <3>2, <3>3, <3>4, <3>5, <3>6, <3>7 DEF Next, vars
  <2> QED
    BY <2>1, <2>2, <2>3, <2>4
<1>5. PICK t \in Teams : t = job[w].to
  BY <1>1 DEF Job
<1>6. PICK m \in Member : m = job[w].m
  BY <1>1 DEF Job
<1>7. team' = [team EXCEPT ![m] = t] /\ job[w].pc = "moving"
  BY <1>4, <1>5, <1>6 DEF CommitMove, SinceSnapshot
<1>8. Size(t)' <= Size(t) + 1 /\ Size(t) < MaxSize
  BY <1>1, <1>5, <1>7, OneMoves DEF MovingFits
<1>9. Size(t) \in Nat /\ Size(t)' \in Nat /\ MaxSize \in Nat
  BY SizeType, SizeTypeAfter, TeamAssumption
<1>10. Size(t)' <= MaxSize
  BY <1>8, <1>9
<1> QED
  BY <1>5, <1>10 DEF Size, Members

(* For any number of sessions: a move that commits leaves at most teamMaxSize members in *)
(* its target, because SERIALIZABLE dooms it as soon as somebody else has joined that     *)
(* team since its snapshot.                                                               *)
THEOREM MovesWithinCap == Spec => MoveWithinCap
<1>1. Init => MovingFits
  BY DEF Init, MovingFits, Idle
<1>2. IInv /\ MovingFits /\ [Next]_vars => MovingFits'
  BY NextFits
<1>3. IInv /\ MovingFits /\ [Next]_vars =>
        [\A w \in Session :
            (job[w].pc \in {"moving", "doomed"} /\ team' # team /\ job'[w].pc = "idle") =>
                Cardinality({m \in Member : team'[m] = job[w].to}) <= MaxSize]_vars
  BY MoveEnds
<1> QED
  BY <1>1, <1>2, <1>3, InitIInv, NextKeeps, PTL DEF Spec, MoveWithinCap


=============================================================================
