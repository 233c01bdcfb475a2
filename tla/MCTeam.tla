------------------------------- MODULE MCTeam --------------------------------
(* Two members, two teams of one, two sessions. *)
EXTENDS Team

Alike == Permutations(Member) \cup Permutations(Teams) \cup Permutations(Session)

(* No guard reads memberCount. *)
WithoutCounts == <<team, removed, dept, locked, requests, latch, job>>

=============================================================================
