------------------------------ MODULE Election --------------------------------
(***************************************************************************)
(* ElectionService: the elections of the leader of one team.  Every call     *)
(* reads, checks, and writes later without a lock; only unique keys (one     *)
(* nomination per nominee, one vote per voter) and the compare-and-set of    *)
(* the status are checked by the write.  A session is a request between its  *)
(* reads and its write.                                                      *)
(*                                                                          *)
(* Abstractions: the reads at the head of a call are one step; questions,     *)
(* answers, pitches and mails are left out; a nomination is made by any       *)
(* member, the nominee included.                                              *)
(***************************************************************************)
EXTENDS Integers, Sequences, FiniteSets, SequencesExt

CONSTANTS
    Member, NoOne,
    Session,
    MaxElections    \* bound on the elections of the team

VARIABLES
    election,   \* by number: status, deadline, winner
    nominees,   \* by election: the nominees in the order of their nomination
    votes,      \* by election: voter -> nominee
    members,    \* who is in the team
    leader,     \* leaderId of the team
    job         \* Session -> the call under way

vars == <<election, nominees, votes, members, leader, job>>

Elections == DOMAIN election
Nominated(e) == Range(nominees[e])
Voters(e) == {m \in Member : votes[e][m] # NoOne}
Idle == [pc |-> "idle"]
Go(w, j) == job' = [job EXCEPT ![w] = j]

Init ==
    /\ election = <<>> /\ nominees = <<>> /\ votes = <<>>
    /\ members = Member /\ leader = NoOne
    /\ job = [w \in Session |-> Idle]

-----------------------------------------------------------------------------
(* startElection: no election of the team is active when it is read. *)

CheckTeam(w) ==
    /\ job[w].pc = "idle"
    /\ \A e \in Elections : election[e].status = "COMPLETED"
    /\ Go(w, [pc |-> "start"])
    /\ UNCHANGED <<election, nominees, votes, members, leader>>

StartElection(w) ==
    /\ job[w].pc = "start" /\ Len(election) < MaxElections
    /\ \E d \in {"none", "ahead"} :
        election' = Append(election, [status |-> "NOMINATION", deadline |-> d, winner |-> NoOne])
    /\ nominees' = Append(nominees, <<>>)
    /\ votes' = Append(votes, [m \in Member |-> NoOne])
    /\ Go(w, Idle)
    /\ UNCHANGED <<members, leader>>

-----------------------------------------------------------------------------
(* nominate and selfNominate; castVote. *)

CheckNomination(w, e, m) ==
    /\ job[w].pc = "idle"
    /\ election[e].status = "NOMINATION"
    /\ m \in members /\ m \notin Nominated(e)
    /\ Go(w, [pc |-> "nominate", e |-> e, m |-> m])
    /\ UNCHANGED <<election, nominees, votes, members, leader>>

Nominate(w) ==
    LET j == job[w] IN
    /\ j.pc = "nominate" /\ j.m \notin Nominated(j.e)
    /\ nominees' = [nominees EXCEPT ![j.e] = Append(@, j.m)]
    /\ Go(w, Idle)
    /\ UNCHANGED <<election, votes, members, leader>>

CheckVote(w, e, v, m) ==
    /\ job[w].pc = "idle"
    /\ election[e].status = "VOTING"
    /\ v \in members /\ v \notin Voters(e) /\ m \in Nominated(e)
    /\ Go(w, [pc |-> "vote", e |-> e, v |-> v, m |-> m])
    /\ UNCHANGED <<election, nominees, votes, members, leader>>

CastVote(w) ==
    LET j == job[w] IN
    /\ j.pc = "vote" /\ j.v \notin Voters(j.e)
    /\ votes' = [votes EXCEPT ![j.e][j.v] = j.m]
    /\ Go(w, Idle)
    /\ UNCHANGED <<election, nominees, members, leader>>

-----------------------------------------------------------------------------
(* advanceElection. *)

(* Half of the members, rounded up, and at least one. *)
Quorum == IF members = {} THEN 1 ELSE (Cardinality(members) + 1) \div 2

Passed(e) == election[e].deadline = "passed"

(* A sole nominee is elected at the deadline, or when one is a quorum and there is none. *)
ReadSole(w, e) ==
    /\ job[w].pc = "idle"
    /\ election[e].status = "NOMINATION" /\ Len(nominees[e]) = 1
    /\ Passed(e) \/ (election[e].deadline = "none" /\ Quorum <= 1)
    /\ Go(w, [pc |-> "finalize", e |-> e, from |-> "NOMINATION", winner |-> nominees[e][1]])
    /\ UNCHANGED <<election, nominees, votes, members, leader>>

ReadNominations(w, e) ==
    /\ job[w].pc = "idle"
    /\ election[e].status = "NOMINATION" /\ Len(nominees[e]) > 1
    /\ Go(w, [pc |-> "open", e |-> e])
    /\ UNCHANGED <<election, nominees, votes, members, leader>>

OpenVoting(w) ==
    LET j == job[w] IN
    /\ j.pc = "open" /\ election[j.e].status = "NOMINATION"
    /\ election' = [election EXCEPT ![j.e].status = "VOTING"]
    /\ Go(w, Idle)
    /\ UNCHANGED <<nominees, votes, members, leader>>

ReadVotes(w, e) ==
    /\ job[w].pc = "idle"
    /\ election[e].status = "VOTING" /\ Voters(e) # {}
    /\ Passed(e) \/ Cardinality(Voters(e)) >= Quorum
    /\ Go(w, [pc |-> "tally", e |-> e, order |-> nominees[e]])
    /\ UNCHANGED <<election, nominees, votes, members, leader>>

Count(e, m) == Cardinality({v \in Member : votes[e][v] = m})

(* Before: more votes, or as many and nominated earlier; a nominee who was not read is last. *)
Before(j, m, n) ==
    LET Place(x) == IF x \in Range(j.order) THEN CHOOSE i \in DOMAIN j.order : j.order[i] = x
                    ELSE Len(j.order) + 1
    IN Count(j.e, m) > Count(j.e, n) \/ (Count(j.e, m) = Count(j.e, n) /\ Place(m) <= Place(n))

(* The groupBy of the votes is a read of its own. *)
Tally(w) ==
    LET j == job[w] IN
    /\ j.pc = "tally"
    /\ \E m \in Member :
        /\ Count(j.e, m) > 0
        /\ \A n \in Member : Before(j, m, n)
        /\ Go(w, [pc |-> "finalize", e |-> j.e, from |-> "VOTING", winner |-> m])
    /\ UNCHANGED <<election, nominees, votes, members, leader>>

(* Faulty: finalizeWinner does not compare the status. *)
AnyPhase(j) == TRUE

SamePhase(j) == election[j.e].status = j.from

FinalizeWinner(w) ==
    LET j == job[w] IN
    /\ j.pc = "finalize" /\ SamePhase(j)
    /\ election' = [election EXCEPT ![j.e].status = "COMPLETED", ![j.e].winner = j.winner]
    /\ leader' = j.winner
    /\ Go(w, Idle)
    /\ UNCHANGED <<nominees, votes, members>>

-----------------------------------------------------------------------------
(* A check refuses, a key or the compare-and-set fails, or the request dies. *)
Fail(w) ==
    /\ job[w].pc # "idle"
    /\ Go(w, Idle)
    /\ UNCHANGED <<election, nominees, votes, members, leader>>

PassDeadline(e) ==
    /\ election[e].deadline = "ahead"
    /\ election' = [election EXCEPT ![e].deadline = "passed"]
    /\ UNCHANGED <<nominees, votes, members, leader, job>>

(* A member is moved or removed by the services of Team. *)
Leave(m) ==
    /\ m \in members
    /\ members' = members \ {m}
    /\ UNCHANGED <<election, nominees, votes, leader, job>>

Next ==
    \/ \E w \in Session :
        \/ CheckTeam(w) \/ StartElection(w) \/ Nominate(w) \/ CastVote(w)
        \/ OpenVoting(w) \/ Tally(w) \/ FinalizeWinner(w) \/ Fail(w)
        \/ \E e \in Elections :
            \/ ReadSole(w, e) \/ ReadNominations(w, e) \/ ReadVotes(w, e)
            \/ \E m \in Member : CheckNomination(w, e, m) \/ \E v \in Member : CheckVote(w, e, v, m)
    \/ \E e \in Elections : PassDeadline(e)
    \/ \E m \in Member : Leave(m)

Spec == Init /\ [][Next]_vars

-----------------------------------------------------------------------------
(* Properties. *)

TypeOK ==
    /\ \A e \in Elections :
        /\ election[e].status \in {"NOMINATION", "VOTING", "COMPLETED"}
        /\ election[e].deadline \in {"none", "ahead", "passed"}
        /\ election[e].winner \in Member \cup {NoOne}
        /\ nominees[e] \in Seq(Member) /\ votes[e] \in [Member -> Member \cup {NoOne}]
    /\ members \subseteq Member /\ leader \in Member \cup {NoOne}

(* "two concurrent callers cannot both elect a winner": what is finalised stays, whichever *)
(* of the two read first, and an election never goes back to an earlier phase.             *)
FinalizedOnce ==
    [][\A e \in Elections :
        /\ election[e].status = "COMPLETED" =>
            /\ election'[e].status = "COMPLETED" /\ election'[e].winner = election[e].winner
        /\ election[e].status = "VOTING" => election'[e].status # "NOMINATION"]_vars

(* The leader and the elections agree: a leader won one that is over, and an election that *)
(* is over has a winner, who was nominated in it.                                            *)
LeaderWasElected ==
    /\ leader # NoOne => \E e \in Elections : election[e].winner = leader
    /\ \A e \in Elections :
        (election[e].status = "COMPLETED") = (election[e].winner # NoOne)
    /\ \A e \in Elections :
        election[e].winner # NoOne => election[e].winner \in Nominated(e)

(* "Team already has an active election": one at a time. *)
OneActiveElection ==
    \A d, e \in Elections :
        (election[d].status # "COMPLETED" /\ election[e].status # "COMPLETED") => d = e

(* "Not in voting phase": no vote is recorded in an election that is over. *)
NoLateVote ==
    [][\A e \in Elections : election[e].status = "COMPLETED" => votes'[e] = votes[e]]_vars

(* "highest count": nobody has more votes than the winner when he is made leader. *)
WinnerHasMost ==
    [][\A e \in Elections :
        (election[e].status = "VOTING" /\ election'[e].status = "COMPLETED") =>
            \A m \in Member : Count(e, m) <= Count(e, election'[e].winner)]_vars

(* "so late nominations are not silently excluded": who is elected unopposed is unopposed. *)
SoleIsUnopposed ==
    [][\A e \in Elections :
        (election[e].status = "NOMINATION" /\ election'[e].status = "COMPLETED") =>
            Len(nominees[e]) = 1]_vars

=============================================================================
