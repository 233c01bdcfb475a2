----------------------------- MODULE MCCapTable -----------------------------
(* Two founders, two sessions, a company of six units. *)
EXTENDS CapTable

Alike == Permutations(Session) \cup Permutations(Founder)

(* No guard reads vestedPct: a run about equity need not tell it apart. *)
WithoutVesting ==
    <<units, company, sprints, approvals, events.n, events.moved, day, lock,
      [w \in Session |-> [f \in DOMAIN task[w] \ {"vested", "e"} |-> task[w][f]]]>>

=============================================================================
