------------------------ MODULE MCRefreshSessions ------------------------
(* Instances of RefreshSessions for TLC.                                   *)
EXTENDS RefreshSessions, TLC

\* Slots, tokens and families are interchangeable; legacy tokens are not
\* interchangeable with the others.
Symmetry ==
    Permutations(Requests) \cup Permutations(Tokens \ Legacy) \cup Permutations(Families)

=============================================================================
