---------------------------- MODULE GenesisService ----------------------------
(***************************************************************************)
(* What the genesis endpoints and the CLI promise: operations on a core    *)
(* take effect one at a time and whole.  A reset starts over, and no       *)
(* challenge issued before it counts after it.                             *)
(***************************************************************************)
EXTENDS GenesisCore

CONSTANT Ids   \* challenge ids

VARIABLE core

Init == core = Fresh

Issue(i, s) == CanIssue(core, i) /\ core' = Issued(core, i, s)

Verify(i, s) == CanVerify(core, i, s) /\ core' = Verified(core, i)

Complete(i, s, l) == CanComplete(core, i, s) /\ core' = Completed(core, s, l)

Reset == core' = Fresh

Next ==
  \/ \E i \in Ids, s \in Operators :
       Issue(i, s) \/ Verify(i, s) \/ \E l \in Labels : Complete(i, s, l)
  \/ Reset

Spec == Init /\ [][Next]_core
================================================================================
