------------------------------ MODULE MCRegistry ------------------------------
(* Small registries for TLC.                                               *)
EXTENDS EntityState, FiniteSets, TLC

Interchangeable ==
  Permutations(Dials) \cup Permutations(Keys) \cup Permutations(Names) \cup Permutations(Identities)

Spoken == {n \in Names : heartbeats[n] # None} \cup {n \in Names : reports[n] # None}

Branded == {l \in OrgLookups : orgRows[l] # None} \cup {l \in UserLookups : userRows[l] # None}

\* At most two branding rows; heartbeats and branding with at most one dial each.
IsSmall ==
  /\ Cardinality(Branded) <= 2
  /\ Spoken # {} => inserted <= 1
  /\ Branded # {} => inserted = 0 /\ Spoken = {}
  /\ genesis # None => inserted <= 1
================================================================================
