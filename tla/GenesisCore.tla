------------------------------ MODULE GenesisCore ------------------------------
(***************************************************************************)
(* One core as the caller of its genesis endpoints sees it: whether the    *)
(* wizard has run, for which operator and root name, and the challenges it *)
(* has issued.  Operators over such a core, no state of its own.           *)
(***************************************************************************)

CONSTANTS
  Operators,  \* operator signing keys
  Labels,     \* names of root organizations
  None

Fresh ==
  [complete |-> FALSE, operator |-> None, label |-> None, challenges |-> [i \in {} |-> None]]

\* POST /genesis/challenge: refused once genesis is complete.
CanIssue(c, i) == ~ c.complete /\ i \notin DOMAIN c.challenges

Issued(c, i, s) ==
  [complete |-> c.complete, operator |-> c.operator, label |-> c.label,
   challenges |-> [j \in DOMAIN c.challenges \cup {i} |->
     IF j = i THEN [subject |-> s, answered |-> FALSE] ELSE c.challenges[j]]]

\* POST /genesis/challenge/verify: once, with a signature of its subject.
CanVerify(c, i, signer) ==
  /\ ~ c.complete
  /\ i \in DOMAIN c.challenges
  /\ c.challenges[i] = [subject |-> signer, answered |-> FALSE]

Verified(c, i) ==
  [complete |-> c.complete, operator |-> c.operator, label |-> c.label,
   challenges |-> [j \in DOMAIN c.challenges |->
     IF j = i THEN [subject |-> c.challenges[i].subject, answered |-> TRUE]
     ELSE c.challenges[j]]]

\* Variant: the subject of the request is not compared with the row's.
CanCompleteForAnyone(c, i, s) ==
  ~ c.complete /\ i \in DOMAIN c.challenges /\ c.challenges[i].answered

\* POST /genesis/complete: once, with an answered challenge of the subject.
CanComplete(c, i, s) ==
  /\ ~ c.complete
  /\ i \in DOMAIN c.challenges
  /\ c.challenges[i] = [subject |-> s, answered |-> TRUE]

Completed(c, s, l) ==
  [complete |-> TRUE, operator |-> s, label |-> l, challenges |-> c.challenges]
================================================================================
