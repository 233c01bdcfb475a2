-------------------------------- MODULE Team ---------------------------------
(***************************************************************************)
(* TeamService and MatchingService.moveMember: who is in which team of one    *)
(* batch, after the teams were formed.  Members are matched, moved, removed,  *)
(* and change team at their own request, which the mentor and then an admin   *)
(* approve; a team with every department filled is locked, and its            *)
(* membership is meant to be frozen.                                          *)
(*                                                                          *)
(* Isolation.  Approvals and lockTeam take the advisory lock of the source    *)
(* team; matches, approvals and removals are READ COMMITTED, so that what     *)
(* they read may change before they write; moveMember is SERIALIZABLE: it     *)
(* fails when a row it writes was written since its snapshot ("doomed").      *)
(*                                                                          *)
(* Abstractions: requests that move nobody, the leader, training and          *)
(* projects are left out.                                                     *)
(***************************************************************************)
EXTENDS Integers, Sequences, FiniteSets, TLC

CONSTANTS
    Member, Teams, NoTeam,
    Session, NoOne,
    MaxSize,                \* teamMaxSize of the batch
    Dept, NoDept,           \* the departments a locked team has filled
    MaxRequests             \* bound on the requests

ASSUME TeamAssumption ==
    /\ IsFiniteSet(Member)
    /\ NoTeam \notin Teams /\ NoOne \notin Session /\ NoDept \notin Dept
    /\ MaxSize \in Nat \ {0} /\ MaxRequests \in Nat

VARIABLES
    team,       \* Member -> teamId
    removed,    \* the REMOVED
    dept,       \* Member -> department
    count,      \* Teams -> memberCount
    locked,     \* the teams with isLocked
    requests,   \* by number: SEPARATION (to is NoTeam) and JOIN_EXISTING
    latch,      \* Teams -> the session that holds the team's advisory lock
    job         \* Session -> what it does

vars == <<team, removed, dept, count, locked, requests, latch, job>>

Members(t) == {m \in Member : team[m] = t}
Active(t) == Members(t) \ removed
Size(t) == Cardinality(Members(t))
Complete(t) == Dept \subseteq {dept[m] : m \in Active(t)}

Idle == [pc |-> "idle"]

(* As formTeams leaves it, and after it members without a team have come. *)
Init ==
    /\ team \in [Member -> Teams \cup {NoTeam}]
    /\ \A t \in Teams : Size(t) <= MaxSize
    /\ removed = {}
    /\ dept = [m \in Member |-> NoDept]
    /\ count = [t \in Teams |-> Size(t)]
    /\ locked = {} /\ requests = <<>>
    /\ latch = [t \in Teams |-> NoOne]
    /\ job = [w \in Session |-> Idle]

Begin(w, j) ==
    /\ job[w].pc = "idle"
    /\ job' = [job EXCEPT ![w] = j]
    /\ UNCHANGED <<team, removed, dept, count, locked, requests, latch>>

Go(w, j) == job' = [job EXCEPT ![w] = j]

(* w goes on, and the moves whose rows it has written are doomed. *)
Write(w, j, rows) ==
    job' = [x \in Session |->
              IF x = w THEN j
              ELSE IF job[x].pc = "moving" /\ rows \cap {job[x].m, job[x].old, job[x].to} # {}
                   THEN [job[x] EXCEPT !.pc = "doomed"] ELSE job[x]]

(* The change of memberCount when m goes from one team to another. *)
Recounted(from, to) ==
    [t \in Teams |-> count[t] + (IF t = to THEN 1 ELSE 0) - (IF t = from THEN 1 ELSE 0)]

-----------------------------------------------------------------------------
(* matchToExistingTeam: to the smallest open team.                         *)

StartMatch(w, m, t) ==
    LET open == {u \in Teams \ locked : Size(u) < MaxSize} IN
    /\ team[m] = NoTeam /\ m \notin removed
    /\ t \in open /\ \A u \in open : Size(t) <= Size(u)
    /\ Begin(w, [pc |-> "match", m |-> m, to |-> t])

Recount(w) ==
    /\ job[w].pc = "match" /\ Size(job[w].to) < MaxSize
    /\ Go(w, [job[w] EXCEPT !.pc = "join"])
    /\ UNCHANGED <<team, removed, dept, count, locked, requests, latch>>

Join(w) ==
    LET j == job[w] IN
    /\ j.pc = "join"
    /\ team' = [team EXCEPT ![j.m] = j.to]
    /\ removed' = removed \ {j.m}
    /\ count' = Recounted(NoTeam, j.to)
    /\ Write(w, Idle, {j.m, j.to})
    /\ UNCHANGED <<dept, locked, requests, latch>>

-----------------------------------------------------------------------------
(* moveMember, by an admin.                                                *)

ReadMove(w, m, t) ==
    team[m] # t /\ Begin(w, [pc |-> "move", m |-> m, old |-> team[m], to |-> t])

BeginMove(w) ==
    /\ job[w].pc = "move" /\ Size(job[w].to) < MaxSize
    /\ Go(w, [job[w] EXCEPT !.pc = "moving"])
    /\ UNCHANGED <<team, removed, dept, count, locked, requests, latch>>

(* Faulty: READ COMMITTED. *)
SinceAnyTime == {"moving", "doomed"}

SinceSnapshot == {"moving"}

CommitMove(w) ==
    LET j == job[w] IN
    /\ j.pc \in SinceSnapshot
    /\ team' = [team EXCEPT ![j.m] = j.to]
    /\ count' = Recounted(j.old, j.to)
    /\ Write(w, Idle, {j.m, j.old, j.to})
    /\ UNCHANGED <<removed, dept, locked, requests, latch>>

-----------------------------------------------------------------------------
(* Requests.                                                               *)

CreateRequest(m, to) ==
    /\ Len(requests) < MaxRequests
    /\ team[m] \in Teams \ locked
    /\ requests' = Append(requests, [by |-> m, from |-> team[m], to |-> to,
                                     mentor |-> "PENDING", status |-> "PENDING", moves |-> 0])
    /\ UNCHANGED <<team, removed, dept, count, locked, latch, job>>

(* A request that an approval has claimed waits for its commit. *)
Claimed(r) == \E w \in Session : job[w].pc = "approve" /\ job[w].r = r

(* The mentor's review and the admin's rejection read first and write later; the write *)
(* names the request and nothing else.                                                  *)
ReadReview(w, r, verdict) ==
    /\ requests[r].mentor = "PENDING"
    /\ Begin(w, [pc |-> "review", r |-> r, verdict |-> verdict])

Review(w) ==
    LET r == job[w].r
        verdict == job[w].verdict
    IN
    /\ job[w].pc = "review" /\ ~Claimed(r)
    /\ requests' = [requests EXCEPT ![r].mentor = verdict,
                                    ![r].status = IF verdict = "REJECTED" THEN verdict ELSE @]
    /\ Go(w, Idle)
    /\ UNCHANGED <<team, removed, dept, count, locked, latch>>

ReadReject(w, r) ==
    requests[r].status = "PENDING" /\ Begin(w, [pc |-> "reject", r |-> r])

Reject(w) ==
    /\ job[w].pc = "reject" /\ ~Claimed(job[w].r)
    /\ requests' = [requests EXCEPT ![job[w].r].status = "REJECTED"]
    /\ Go(w, Idle)
    /\ UNCHANGED <<team, removed, dept, count, locked, latch>>

ReadApproval(w, r) ==
    /\ requests[r].status = "PENDING" /\ requests[r].mentor = "APPROVED"
    /\ Begin(w, [pc |-> "claim", r |-> r])

HasRoom(t) == Cardinality(Active(t)) < MaxSize /\ t \notin locked

(* Faulty: two admins apply the same request. *)
ClaimTwice(r) == TRUE

StillPending(r) == requests[r].status = "PENDING"

MayApprove(r) ==
    /\ requests[r].from \notin locked
    /\ StillPending(r)
    /\ requests[r].to # NoTeam => HasRoom(requests[r].to)

(* Under the lock of the team the request came from: the claim, and the look at the *)
(* target, whose lock is not taken.                                                  *)
Claim(w) ==
    LET r == job[w].r
        from == requests[r].from
    IN
    /\ job[w].pc = "claim" /\ latch[from] = NoOne
    /\ MayApprove(r)
    /\ latch' = [latch EXCEPT ![from] = w]
    /\ Go(w, [pc |-> "approve", r |-> r])
    /\ UNCHANGED <<team, removed, dept, count, locked, requests>>

(* The member leaves the team he is in by now. *)
CommitApproval(w) ==
    LET r == job[w].r
        m == requests[r].by
        to == requests[r].to
    IN
    /\ job[w].pc = "approve"
    /\ team' = [team EXCEPT ![m] = to]
    /\ dept' = [dept EXCEPT ![m] = NoDept]
    /\ count' = Recounted(team[m], to)
    /\ requests' = [requests EXCEPT ![r].status = "APPROVED", ![r].moves = @ + 1]
    /\ latch' = [latch EXCEPT ![requests[r].from] = NoOne]
    /\ Write(w, Idle, {m, team[m], to})
    /\ UNCHANGED <<removed, locked>>

-----------------------------------------------------------------------------
(* Departments and the lock of a team.                                     *)

ReadDepartment(w, m, d) ==
    /\ team[m] \in Teams \ locked
    /\ \A n \in Members(team[m]) \ {m} : dept[n] # d
    /\ Begin(w, [pc |-> "dept", m |-> m, dept |-> d])

SetMemberDepartment(w) ==
    /\ job[w].pc = "dept"
    /\ dept' = [dept EXCEPT ![job[w].m] = job[w].dept]
    /\ Write(w, Idle, {job[w].m})
    /\ UNCHANGED <<team, removed, count, locked, requests, latch>>

(* Faulty: the team is locked without its advisory lock. *)
NoLatch(t) == TRUE

LatchFree(t) == latch[t] = NoOne

StartLock(w, t) ==
    /\ job[w].pc = "idle" /\ LatchFree(t)
    /\ t \notin locked /\ Complete(t)
    /\ latch' = [latch EXCEPT ![t] = w]
    /\ Go(w, [pc |-> "lock", t |-> t])
    /\ UNCHANGED <<team, removed, dept, count, locked, requests>>

LockTeam(w) ==
    LET t == job[w].t IN
    /\ job[w].pc = "lock"
    /\ locked' = locked \cup {t}
    /\ latch' = [latch EXCEPT ![t] = NoOne]
    /\ Write(w, Idle, {t})
    /\ UNCHANGED <<team, removed, dept, count, requests>>

-----------------------------------------------------------------------------
(* Removals.                                                               *)

RemoveApplicant(m) ==
    /\ m \notin removed
    /\ removed' = removed \cup {m}
    /\ team' = [team EXCEPT ![m] = NoTeam]
    /\ count' = Recounted(team[m], NoTeam)
    /\ Write(NoOne, Idle, {m, team[m]})
    /\ UNCHANGED <<dept, locked, requests, latch>>

(* updateApplicantStatus to REMOVED does not touch memberCount. *)
RemoveByStatus(m) ==
    /\ m \notin removed
    /\ removed' = removed \cup {m}
    /\ team' = [team EXCEPT ![m] = NoTeam]
    /\ Write(NoOne, Idle, {m})
    /\ UNCHANGED <<dept, count, locked, requests, latch>>

(* removeTeam and removeNonResponders leave teamId as it is.  What they write to the *)
(* batch is RemoveTeam and RemoveNonResponders of Cohort.                            *)
RemoveSome(S) ==
    /\ S # {} /\ S \cap removed = {}
    /\ removed' = removed \cup S
    /\ Write(NoOne, Idle, S)
    /\ UNCHANGED <<team, dept, count, locked, requests, latch>>

Release(w) ==
    /\ latch' = [t \in Teams |-> IF latch[t] = w THEN NoOne ELSE latch[t]]
    /\ Go(w, Idle)
    /\ UNCHANGED <<team, removed, dept, count, locked, requests>>

(* The transaction is refused, is doomed, or fails. *)
Fail(w) == job[w].pc # "idle" /\ Release(w)

Next ==
    \/ \E m \in Member :
        \/ RemoveApplicant(m) \/ RemoveByStatus(m)
        \/ \E to \in Teams \cup {NoTeam} : CreateRequest(m, to)
    \/ \E t \in Teams : RemoveSome(Active(t))
    \/ \E w \in Session :
        \/ \E m \in Member, t \in Teams : StartMatch(w, m, t) \/ ReadMove(w, m, t)
        \/ \E r \in DOMAIN requests :
            \/ \E verdict \in {"APPROVED", "REJECTED"} : ReadReview(w, r, verdict)
            \/ ReadReject(w, r) \/ ReadApproval(w, r)
        \/ \E m \in Member, d \in Dept : ReadDepartment(w, m, d)
        \/ \E t \in Teams : StartLock(w, t)
        \/ Recount(w) \/ Join(w)
        \/ BeginMove(w) \/ CommitMove(w)
        \/ Review(w) \/ Reject(w)
        \/ Claim(w) \/ CommitApproval(w)
        \/ SetMemberDepartment(w) \/ LockTeam(w)
        \/ Fail(w)

Spec == Init /\ [][Next]_vars

-----------------------------------------------------------------------------
(* Properties.                                                             *)

(* The tables, and the records of the sessions at each of their steps. *)
Verdict == {"PENDING", "APPROVED", "REJECTED"}

Request == [by : Member, from : Teams, to : Teams \cup {NoTeam},
            mentor : Verdict, status : Verdict, moves : Nat]

Job == [pc : {"idle"}]
    \cup [pc : {"match", "join"}, m : Member, to : Teams]
    \cup [pc : {"move", "moving", "doomed"}, m : Member, old : Teams \cup {NoTeam}, to : Teams]
    \cup [pc : {"review"}, r : Nat, verdict : Verdict]
    \cup [pc : {"reject", "claim", "approve"}, r : Nat]
    \cup [pc : {"dept"}, m : Member, dept : Dept]
    \cup [pc : {"lock"}, t : Teams]

TypeOK ==
    /\ team \in [Member -> Teams \cup {NoTeam}]
    /\ dept \in [Member -> Dept \cup {NoDept}]
    /\ count \in [Teams -> Int]
    /\ removed \subseteq Member /\ locked \subseteq Teams
    /\ requests \in Seq(Request)
    /\ latch \in [Teams -> Session \cup {NoOne}]
    /\ job \in [Session -> Job]

(* "once a team isLocked, its membership is frozen": no approval of a request out of a *)
(* team commits once the team is locked, whenever the lock lands.                       *)
FrozenAgainstRequests ==
    [][\A r \in DOMAIN requests :
        requests'[r].moves # requests[r].moves => requests[r].from \notin locked]_vars

(* A request moves its member once, when and only when it is approved, however many *)
(* admins and mentors decide about it at once.                                       *)
RequestMovesOnce ==
    \A r \in DOMAIN requests :
        /\ requests[r].moves <= 1
        /\ requests[r].status = "PENDING" => requests[r].moves = 0
        /\ requests[r].status = "APPROVED" => requests[r].moves = 1

(* "Serializable makes one of them abort": a move never puts more than teamMaxSize *)
(* members in a team, whoever moves or joins at the same time.                      *)
MoveWithinCap ==
    [][\A w \in Session :
        (job[w].pc \in {"moving", "doomed"} /\ team' # team /\ job'[w].pc = "idle") =>
            Cardinality({m \in Member : team'[m] = job[w].to}) <= MaxSize]_vars

(* "so concurrent matches can't both pass the pre-read gate and over-fill the team". *)
NeverOverfilled == \A t \in Teams : Size(t) <= MaxSize

(* "once a team isLocked, its membership is frozen". *)
FrozenOnceLocked ==
    [][\A t \in locked, m \in Member \ removed' : (team[m] = t) = (team'[m] = t)]_vars

(* "Validate all 5 departments are filled": a team is complete when it is locked. *)
LockedIsComplete == [][\A t \in locked' \ locked : Complete(t)]_vars

(* "Ensure the dept slot is not already taken by another member". *)
DepartmentOnce ==
    \A m, n \in Member \ removed :
        (team[m] = team[n] /\ team[m] # NoTeam /\ dept[m] = dept[n] /\ dept[m] # NoDept) => m = n

(* "Request has already been resolved": a verdict is not overwritten. *)
VerdictStays ==
    [][\A r \in DOMAIN requests :
        requests[r].status # "PENDING" => requests'[r].status = requests[r].status]_vars

(* "memberCount is maintained atomically alongside the membership change". *)
CountTellsMembers == \A t \in Teams : count[t] = Size(t)

=============================================================================
