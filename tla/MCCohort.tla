------------------------------ MODULE MCCohort -------------------------------
(* Two people, two sessions, batches of one seat. *)
EXTENDS Cohort, TLC

Alike == Permutations(Person) \cup Permutations(Session)

(* No guard reads the counters, nothing is said of them once they have drifted, and what a *)
(* deletion has read is only for them.  Of the batches of the admin only the number is     *)
(* used, and of a job in hand only what is queued again when it fails.                     *)
Read(w) == IF drift = {} THEN <<job[w].was.batch, job[w].was.status = "REMOVED">> ELSE <<>>

Again(w) == IF job[w].of.left > 1 THEN job[w].of ELSE NoJob

WithoutLostCounters ==
    <<[b \in Batches |-> <<batch[b].status, IF drift = {} THEN batch[b].count ELSE 0>>],
      Cardinality(manual), who, queue, lock,
      [w \in Session |-> <<[job[w] EXCEPT !.was = Nobody, !.of = Again(w)], Read(w)>>],
      drift = {}>>

=============================================================================
