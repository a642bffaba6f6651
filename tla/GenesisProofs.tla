----------------------------- MODULE GenesisProofs -----------------------------
(***************************************************************************)
(* Proofs about the genesis wizard, for every number of processes, keys,   *)
(* labels and challenges.  OneShotInv carries what holds even when server  *)
(* and CLI interleave; SerialInv what holds when operations do not overlap.*)
(***************************************************************************)
EXTENDS Genesis, TLAPS

--------------------------------------------------------------------------------
(* Types *)

\* The initial state has the declared types.
LEMMA InitType == Init => TypeOK
BY ConstantShape DEF Init, TypeOK, Blank, Idle, Task, Challenge, Ids

\* Every step keeps the declared types.
LEMMA StepType == TypeOK /\ [Next]_vars => TypeOK'
<1> SUFFICES ASSUME TypeOK, [Next]_vars PROVE TypeOK'
  OBVIOUS
<1> USE ConstantShape
<1>1. CASE UNCHANGED vars
  BY <1>1 DEF vars, TypeOK
<1>2. CASE Tick
  BY <1>2 DEF Tick, TypeOK, store, history
<1>3. ASSUME NEW p \in Processes, NEW s \in Operators, BeginIssue(p, s) PROVE TypeOK'
  BY <1>3 DEF BeginIssue, Begin, TypeOK, store, history, Task
<1>4. ASSUME NEW p \in Processes, FinishIssue(p) PROVE TypeOK'
  <2> DEFINE t == task[p]
  <2>1. t \in [op : {"issue"}, subject : Operators, at : Nat, instance : Nat \cup {None}]
    BY <1>4 DEF FinishIssue, TypeOK, Task, Idle
  <2>2. issued' \in 1..MaxChallenges /\ issued' \in Nat /\ 1..issued \subseteq 1..issued'
    BY <1>4 DEF FinishIssue, TypeOK
  <2>3. InstanceInUse(p) \in Nat
    BY DEF InstanceInUse, TypeOK
  <2>4. /\ DOMAIN challenges' \subseteq 1..issued'
        /\ challenges' \in [DOMAIN challenges' -> Challenge]
    BY <1>4, <2>1, <2>2 DEF FinishIssue, TypeOK, Challenge
  <2>5. task' \in [Processes -> Task]
    BY <1>4 DEF FinishIssue, Advance, TypeOK, Task
  <2> QED BY <1>4, <2>2, <2>3, <2>4, <2>5 DEF FinishIssue, TypeOK
<1>5. ASSUME NEW p \in Processes, NEW i \in Ids, BeginVerify(p, i) PROVE TypeOK'
  BY <1>5 DEF BeginVerify, Begin, TypeOK, store, history, Task
<1>6. ASSUME NEW p \in Processes, CheckSignature(p) PROVE TypeOK'
  <2>1. task[p] \in [op : {"verify"}, id : Ids]
    BY <1>6 DEF CheckSignature, TypeOK, Task, Idle
  <2>2. challenges[task[p].id] \in Challenge
    BY <1>6 DEF CheckSignature, TypeOK
  <2>3. task' \in [Processes -> Task]
    BY <1>6, <2>1, <2>2 DEF CheckSignature, Advance, TypeOK, Task, Challenge
  <2> QED BY <1>6, <2>3 DEF CheckSignature, TypeOK, store, history
<1>7. ASSUME NEW p \in Processes, FinishVerify(p) PROVE TypeOK'
  <2>1. task[p] \in [op : {"signed"}, id : Ids, subject : Operators, at : Nat]
    BY <1>7 DEF FinishVerify, TypeOK, Task, Idle
  <2>2. challenges' \in [DOMAIN challenges -> Challenge]
    BY <1>7, <2>1 DEF FinishVerify, TypeOK, Consumable, Challenge
  <2>3. verified' \in [Ids -> Nat] /\ signers' \subseteq Operators
    BY <1>7, <2>1 DEF FinishVerify, TypeOK
  <2>4. task' \in [Processes -> Task]
    BY <1>7 DEF FinishVerify, Advance, TypeOK, Task
  <2> QED BY <1>7, <2>2, <2>3, <2>4 DEF FinishVerify, TypeOK
<1>8. ASSUME NEW p \in Processes, NEW f \in Form, BeginComplete(p, f) PROVE TypeOK'
  BY <1>8 DEF BeginComplete, Begin, TypeOK, store, history, Task
<1>9. ASSUME NEW p \in Processes, CheckChallenge(p) PROVE TypeOK'
  <2>1. task[p] \in [op : {"complete", "checked"}, form : Form]
    BY <1>9 DEF CheckChallenge, TypeOK, Task, Idle
  <2> QED BY <1>9, <2>1 DEF CheckChallenge, Advance, TypeOK, store, history, Task
<1>10. ASSUME NEW p \in Processes, ReadName(p) PROVE TypeOK'
  <2>1. task[p] \in [op : {"complete", "checked"}, form : Form]
    BY <1>10 DEF ReadName, TypeOK, Task, Idle
  <2>2. task' \in [Processes -> Task]
    BY <1>10, <2>1 DEF ReadName, Advance, TypeOK, Task
  <2> QED BY <1>10, <2>2 DEF ReadName, TypeOK, store, history
<1>11. ASSUME NEW p \in Processes, FinishComplete(p) PROVE TypeOK'
  <2>1. task[p] \in [op : {"named"}, form : Form, insert : BOOLEAN]
    BY <1>11 DEF FinishComplete, TypeOK, Task, Idle
  <2>2. task[p].form \in Form
    BY <2>1
  <2>3. bindings' \in [Labels -> Binding \cup {None}]
    BY <1>11, <2>1, <2>2 DEF FinishComplete, TypeOK, Form, Binding
  <2>4. task' \in [Processes -> Task]
    BY <1>11 DEF FinishComplete, Advance, TypeOK, Task
  <2> QED BY <1>11, <2>2, <2>3, <2>4 DEF FinishComplete, TypeOK, history, Form
<1>12. ASSUME NEW p \in Processes, BeginReset(p) PROVE TypeOK'
  BY <1>12 DEF BeginReset, Begin, TypeOK, store, history, Task
<1>13. ASSUME NEW p \in Processes, FinishReset(p) PROVE TypeOK'
  BY <1>13 DEF FinishReset, ChallengesDeleted, Unbound, Cleared, Blank, Advance, TypeOK, history, Task
<1>14. ASSUME NEW p \in Processes, Fail(p) PROVE TypeOK'
  BY <1>14 DEF Fail, Advance, TypeOK, store, history, Task
<1>15. ASSUME NEW p \in Processes, NEW l \in Labels, NEW k \in OrgKeys, Register(p, l, k)
       PROVE TypeOK'
  BY <1>15 DEF Register, TypeOK, Binding
<1>16. ASSUME NEW p \in Processes, NEW l \in Labels, AddRoute(p, l) PROVE TypeOK'
  BY <1>16 DEF AddRoute, TypeOK, Binding, history
<1> QED
  BY <1>1, <1>2, <1>3, <1>4, <1>5, <1>6, <1>7, <1>8, <1>9, <1>10, <1>11, <1>12,
     <1>13, <1>14, <1>15, <1>16 DEF Next, Step

\* Every reachable state has the declared types: issued rows only, and the
\* wizard's columns set together (core_genesis, genesis_challenge).
THEOREM TypeCorrect == Spec => []TypeOK
BY InitType, StepType, PTL DEF Spec

--------------------------------------------------------------------------------
(* What holds although operations of different processes overlap *)

\* A challenge that is pending or not issued yet was never verified, one that is
\* consumed was once, and its subject proved itself.
ChallengesInv ==
  /\ \A i \in Ids : verified[i] <= 1
  /\ \A i \in Ids : i > issued => verified[i] = 0
  /\ \A i \in DOMAIN challenges :
       IF challenges[i].consumed = None
         THEN verified[i] = 0
         ELSE challenges[i].subject \in signers

\* What an operation has read of a challenge is still so, if the row is there.
TaskReads(t) ==
  /\ t.op = "signed" =>
       /\ t.id \in 1..issued
       /\ t.id \in DOMAIN challenges => challenges[t.id].subject = t.subject
  /\ t.op \in {"checked", "named"} => t.form.subject \in signers

OneShotInv ==
  /\ TypeOK
  /\ ChallengesInv
  /\ \A p \in Processes : TaskReads(task[p])
  /\ OperatorProved

\* A step that leaves challenges alone and forgets no signer keeps ChallengesInv.
LEMMA QuietStep ==
  ASSUME OneShotInv, TypeOK', UNCHANGED <<challenges, issued, verified, signers>>,
         \A p \in Processes : TaskReads(task[p])',
         genesis'.operator # None => genesis'.operator \in signers
  PROVE  OneShotInv'
BY DEF OneShotInv, ChallengesInv, OperatorProved

\* Without new rows or fewer signers a task's readings stay good.
LEMMA KeptReadings ==
  ASSUME NEW t, TaskReads(t), issued <= issued', TypeOK, TypeOK', signers \subseteq signers',
         \A i \in DOMAIN challenges' : i \in 1..issued =>
           i \in DOMAIN challenges /\ challenges'[i].subject = challenges[i].subject
  PROVE  TaskReads(t)'
<1>1. t.op = "signed" => t.id \in 1..issued /\ t.id \in 1..issued'
  BY DEF TaskReads, TypeOK
<1> QED BY <1>1 DEF TaskReads

\* Every step keeps OneShotInv.
LEMMA OneShotStep == OneShotInv /\ [Next]_vars => OneShotInv'
<1> SUFFICES ASSUME OneShotInv, [Next]_vars PROVE OneShotInv'
  OBVIOUS
<1> USE ConstantShape
<1>0. TypeOK /\ TypeOK' /\ \A p \in Processes : TaskReads(task[p])
  BY StepType DEF OneShotInv
<1>1. CASE UNCHANGED vars
  BY <1>1 DEF vars, OneShotInv, TypeOK, ChallengesInv, TaskReads, OperatorProved
<1>2. CASE Tick
  BY <1>0, <1>2 DEF Tick, OneShotInv, store, history, ChallengesInv, TaskReads, OperatorProved
<1>3. ASSUME NEW p \in Processes, NEW s \in Operators, BeginIssue(p, s) PROVE OneShotInv'
  <2>1. \A q \in Processes : TaskReads(task[q])'
    BY <1>0, <1>3 DEF BeginIssue, Begin, TypeOK, store, history, TaskReads
  <2> QED BY <1>0, <1>3, <2>1, QuietStep DEF BeginIssue, OneShotInv, OperatorProved, store, history
<1>4. ASSUME NEW p \in Processes, FinishIssue(p) PROVE OneShotInv'
  <2>1. issued' = issued + 1 /\ issued \in Nat /\ issued' \in Ids /\ issued' \notin DOMAIN challenges
    BY <1>0, <1>4 DEF FinishIssue, TypeOK, Ids
  <2>2. DOMAIN challenges' = DOMAIN challenges \cup {issued'}
    BY <1>4 DEF FinishIssue
  <2>3. \A i \in DOMAIN challenges : challenges'[i] = challenges[i]
    BY <1>4, <2>1 DEF FinishIssue
  <2>4. challenges'[issued'].consumed = None /\ verified[issued'] = 0
    BY <1>4, <2>1 DEF FinishIssue, OneShotInv, ChallengesInv
  <2>5. ChallengesInv'
    <3>1. verified' = verified /\ signers' = signers
      BY <1>4 DEF FinishIssue
    <3> QED BY <2>1, <2>2, <2>3, <2>4, <3>1 DEF OneShotInv, ChallengesInv, Ids
  <2>6. \A t : TaskReads(t) => TaskReads(t)'
    <3>1. issued <= issued' /\ signers \subseteq signers'
      BY <1>4, <2>1 DEF FinishIssue
    <3>2. \A i \in DOMAIN challenges' : i \in 1..issued =>
            i \in DOMAIN challenges /\ challenges'[i].subject = challenges[i].subject
      BY <2>1, <2>2, <2>3
    <3> QED BY <1>0, <3>1, <3>2, KeptReadings
  <2>7. \A q \in Processes : TaskReads(task[q])'
    <3>1. TaskReads(Idle)'
      BY DEF TaskReads, Idle
    <3> QED BY <1>0, <1>4, <2>6, <3>1 DEF FinishIssue, Advance, TypeOK
  <2>8. OperatorProved'
    BY <1>0, <1>4 DEF FinishIssue, OneShotInv, OperatorProved, TypeOK
  <2> QED BY <1>0, <2>5, <2>7, <2>8 DEF OneShotInv
<1>5. ASSUME NEW p \in Processes, NEW i \in Ids, BeginVerify(p, i) PROVE OneShotInv'
  <2>1. \A q \in Processes : TaskReads(task[q])'
    BY <1>0, <1>5 DEF BeginVerify, Begin, TypeOK, store, history, TaskReads
  <2> QED BY <1>0, <1>5, <2>1, QuietStep DEF BeginVerify, OneShotInv, OperatorProved, store, history
<1>6. ASSUME NEW p \in Processes, CheckSignature(p) PROVE OneShotInv'
  <2>1. \A q \in Processes : TaskReads(task[q])'
    BY <1>0, <1>6 DEF CheckSignature, Advance, TypeOK, store, history, TaskReads
  <2> QED BY <1>0, <1>6, <2>1, QuietStep DEF CheckSignature, OneShotInv, OperatorProved, store, history
<1>7. ASSUME NEW p \in Processes, FinishVerify(p) PROVE OneShotInv'
  <2> DEFINE i == task[p].id
  <2>1. /\ i \in DOMAIN challenges /\ i \in Ids
        /\ challenges[i].consumed = None /\ challenges[i].subject = task[p].subject
        /\ challenges[i] \in Challenge /\ task[p].at \in Nat
    <3>1. task[p] \in [op : {"signed"}, id : Ids, subject : Operators, at : Nat]
      BY <1>0, <1>7 DEF FinishVerify, TypeOK, Task, Idle
    <3> QED BY <1>0, <1>7, <3>1 DEF FinishVerify, Consumable, TaskReads, TypeOK
  <2>2. challenges' = [challenges EXCEPT ![i] =
          [subject |-> @.subject, expires |-> @.expires, consumed |-> task[p].at]]
    BY <1>7 DEF FinishVerify
  <2>3. /\ DOMAIN challenges' = DOMAIN challenges
        /\ \A j \in DOMAIN challenges : challenges'[j].subject = challenges[j].subject
        /\ \A j \in DOMAIN challenges \ {i} : challenges'[j] = challenges[j]
        /\ challenges'[i].consumed # None
    BY <1>0, <2>1, <2>2 DEF TypeOK
  <2>4. /\ verified' = [verified EXCEPT ![i] = @ + 1] /\ issued' = issued
        /\ signers' = signers \cup {challenges[i].subject}
    BY <1>7, <2>1 DEF FinishVerify
  <2>5. ChallengesInv'
    BY <1>0, <2>1, <2>3, <2>4 DEF OneShotInv, ChallengesInv, TypeOK
  <2>6. \A t : TaskReads(t) => TaskReads(t)'
    <3>1. issued <= issued'
      BY <1>0, <2>4 DEF TypeOK
    <3> QED BY <1>0, <2>3, <2>4, <3>1, KeptReadings
  <2>7. \A q \in Processes : TaskReads(task[q])'
    <3>1. TaskReads(Idle)'
      BY DEF TaskReads, Idle
    <3> QED BY <1>0, <1>7, <2>6, <3>1 DEF FinishVerify, Advance, TypeOK
  <2>8. OperatorProved'
    BY <1>7 DEF FinishVerify, OneShotInv, OperatorProved
  <2> QED BY <1>0, <2>5, <2>7, <2>8 DEF OneShotInv
<1>8. ASSUME NEW p \in Processes, NEW f \in Form, BeginComplete(p, f) PROVE OneShotInv'
  <2>1. \A q \in Processes : TaskReads(task[q])'
    BY <1>0, <1>8 DEF BeginComplete, Begin, TypeOK, store, history, TaskReads
  <2> QED BY <1>0, <1>8, <2>1, QuietStep DEF BeginComplete, OneShotInv, OperatorProved, store, history
<1>9. ASSUME NEW p \in Processes, CheckChallenge(p) PROVE OneShotInv'
  <2>1. task[p].form.subject \in signers
    BY <1>9 DEF CheckChallenge, Answered, OneShotInv, ChallengesInv
  <2>2. \A q \in Processes : TaskReads(task[q])'
    BY <1>0, <1>9, <2>1 DEF CheckChallenge, Advance, TypeOK, store, history, TaskReads
  <2> QED BY <1>0, <1>9, <2>2, QuietStep DEF CheckChallenge, OneShotInv, OperatorProved, store, history
<1>10. ASSUME NEW p \in Processes, ReadName(p) PROVE OneShotInv'
  <2>1. \A q \in Processes : TaskReads(task[q])'
    BY <1>0, <1>10 DEF ReadName, Advance, TypeOK, store, history, TaskReads
  <2> QED BY <1>0, <1>10, <2>1, QuietStep DEF ReadName, OneShotInv, OperatorProved, store, history
<1>11. ASSUME NEW p \in Processes, FinishComplete(p) PROVE OneShotInv'
  <2>1. \A q \in Processes : TaskReads(task[q])'
    BY <1>0, <1>11 DEF FinishComplete, Advance, TypeOK, history, TaskReads, Idle
  <2>2. genesis'.operator \in signers
    BY <1>0, <1>11 DEF FinishComplete, TaskReads
  <2> QED BY <1>0, <1>11, <2>1, <2>2, QuietStep DEF FinishComplete, history
<1>12. ASSUME NEW p \in Processes, BeginReset(p) PROVE OneShotInv'
  <2>1. \A q \in Processes : TaskReads(task[q])'
    BY <1>0, <1>12 DEF BeginReset, Begin, TypeOK, store, history, TaskReads
  <2> QED BY <1>0, <1>12, <2>1, QuietStep DEF BeginReset, OneShotInv, OperatorProved, store, history
<1>13. ASSUME NEW p \in Processes, FinishReset(p) PROVE OneShotInv'
  <2>1. \A q \in Processes : TaskReads(task[q])'
    BY <1>0, <1>13 DEF FinishReset, ChallengesDeleted, Advance, TypeOK, history, TaskReads, Idle
  <2>2. ChallengesInv'
    BY <1>13 DEF FinishReset, ChallengesDeleted, history, OneShotInv, ChallengesInv
  <2>3. OperatorProved'
    BY <1>13 DEF FinishReset, ChallengesDeleted, Cleared, Blank, OperatorProved
  <2> QED BY <1>0, <2>1, <2>2, <2>3 DEF OneShotInv
<1>14. ASSUME NEW p \in Processes, Fail(p) PROVE OneShotInv'
  <2>1. \A q \in Processes : TaskReads(task[q])'
    BY <1>0, <1>14 DEF Fail, Advance, TypeOK, store, history, TaskReads, Idle
  <2> QED BY <1>0, <1>14, <2>1, QuietStep DEF Fail, OneShotInv, OperatorProved, store, history
<1>15. ASSUME NEW p \in Processes, NEW l \in Labels, NEW k \in OrgKeys, Register(p, l, k)
       PROVE OneShotInv'
  BY <1>0, <1>15 DEF Register, OneShotInv, ChallengesInv, TaskReads, OperatorProved
<1>16. ASSUME NEW p \in Processes, NEW l \in Labels, AddRoute(p, l) PROVE OneShotInv'
  BY <1>0, <1>16 DEF AddRoute, history, OneShotInv, ChallengesInv, TaskReads, OperatorProved
<1> QED
  BY <1>1, <1>2, <1>3, <1>4, <1>5, <1>6, <1>7, <1>8, <1>9, <1>10, <1>11, <1>12,
     <1>13, <1>14, <1>15, <1>16 DEF Next, Step

LEMMA OneShotCorrect == Spec => []OneShotInv
<1>1. Init => OneShotInv
  BY InitType, ConstantShape
  DEF Init, OneShotInv, ChallengesInv, TaskReads, OperatorProved, Blank, Idle, Ids
<1> QED BY <1>1, OneShotStep, PTL DEF Spec

\* mark_consumed and the pending check let verify succeed once per challenge,
\* however many processes submit it at once.
THEOREM ChallengesAreOneShot == Spec => []VerifiedOnce
<1>1. OneShotInv => VerifiedOnce
  BY DEF OneShotInv, ChallengesInv, VerifiedOnce
<1> QED BY <1>1, OneShotCorrect, PTL

\* complete_genesis installs only a key whose challenge was answered.
THEOREM OperatorsAreProved == Spec => []OperatorProved
<1>1. OneShotInv => OperatorProved
  BY DEF OneShotInv
<1> QED BY <1>1, OneShotCorrect, PTL

--------------------------------------------------------------------------------
(* What holds when operations do not overlap *)

\* What the only process in an operation has read is what the tables hold.
TaskCurrent(t) ==
  /\ t.op \in {"issue", "verify", "signed", "complete", "checked", "named"}
       => ~ genesis.complete
  /\ t.op \in {"checked", "named"} =>
       /\ t.form.id \in DOMAIN challenges
       /\ challenges[t.form.id].consumed # None
       /\ challenges[t.form.id].subject = t.form.subject
  /\ t.op = "named" => (t.insert <=> bindings[t.form.label] = None)
  /\ t.op = "reset" => t.complete = genesis.complete /\ t.label = genesis.label

Alone == \A p, q \in Processes : task[p] # Idle /\ task[q] # Idle => p = q

SerialInv ==
  /\ TypeOK
  /\ Alone
  /\ \A p \in Processes : TaskCurrent(task[p])
  /\ CompletionBacked
  /\ NoOrphanBinding

\* A binding is not SQL NULL.
LEMMA NoneIsNoBinding ==
  \A k \in OrgKeys, plain \in BOOLEAN : [id |-> k, plain |-> plain] # None
<1> SUFFICES ASSUME NEW k \in OrgKeys, NEW plain \in BOOLEAN
             PROVE  [id |-> k, plain |-> plain] # None
  OBVIOUS
<1>1. [id |-> k, plain |-> plain] \in [id : OrgKeys, plain : BOOLEAN]
  OBVIOUS
<1> QED BY <1>1, ConstantShape

\* A step that leaves the tables alone and starts, advances or ends one
\* operation keeps SerialInv, if what that operation read is current.
LEMMA SerialQuietStep ==
  ASSUME SerialInv, TypeOK', NEW p \in Processes, NEW t,
         UNCHANGED <<store, published>>,
         task' = [task EXCEPT ![p] = t],
         TaskCurrent(t),
         task[p] # Idle \/ \A q \in Processes : task[q] = Idle
  PROVE  SerialInv'
<1>1. Alone'
  BY DEF SerialInv, Alone, TypeOK
<1>2. \A q \in Processes : task'[q] = (IF q = p THEN t ELSE task[q])
  BY DEF SerialInv, TypeOK
<1>3. \A q \in Processes : TaskCurrent(task[q])'
  BY <1>2 DEF SerialInv, TaskCurrent, store
<1> QED BY <1>1, <1>3 DEF SerialInv, CompletionBacked, NoOrphanBinding, store

\* The step that ends the only operation leaves every process idle.
LEMMA LastStep ==
  ASSUME SerialInv, NEW p \in Processes, task[p] # Idle, Advance(p, Idle)
  PROVE  /\ \A q \in Processes : task'[q] = Idle
         /\ Alone'
         /\ \A q \in Processes : TaskCurrent(task[q])'
<1>1. \A q \in Processes : task'[q] = Idle
  BY DEF SerialInv, Alone, Advance, TypeOK
<1> QED BY <1>1 DEF Alone, TaskCurrent, Idle

\* Between two operations a step of the server keeps readings current.
LEMMA AllIdle ==
  ASSUME \A q \in Processes : task[q] = Idle, task' = task
  PROVE  Alone' /\ \A q \in Processes : TaskCurrent(task[q])'
BY DEF Alone, TaskCurrent, Idle

\* Every step keeps SerialInv when operations do not overlap.
LEMMA SerialStep ==
  ASSUME ~ Overlap, SerialInv, [Next]_vars
  PROVE  SerialInv'
<1> USE ConstantShape
<1>0. TypeOK /\ TypeOK' /\ \A p \in Processes : TaskCurrent(task[p])
  BY StepType DEF SerialInv
<1>1. CASE UNCHANGED vars
  BY <1>1 DEF vars, SerialInv, TypeOK, Alone, TaskCurrent, CompletionBacked, NoOrphanBinding
<1>2. CASE Tick
  BY <1>0, <1>2 DEF Tick, SerialInv, store, history, Alone, TaskCurrent, CompletionBacked,
     NoOrphanBinding
<1>3. ASSUME NEW p \in Processes, NEW s \in Operators, BeginIssue(p, s) PROVE SerialInv'
  <2> DEFINE t == [op |-> "issue", subject |-> s, at |-> now, instance |-> genesis.instance]
  <2>1. TaskCurrent(t)
    BY <1>3 DEF BeginIssue, TaskCurrent
  <2> QED BY <1>0, <1>3, <2>1, SerialQuietStep DEF BeginIssue, Begin, history
<1>4. ASSUME NEW p \in Processes, FinishIssue(p) PROVE SerialInv'
  <2>1. task[p] # Idle /\ ~ genesis.complete /\ genesis'.complete = genesis.complete
        /\ genesis'.label = genesis.label
    BY <1>0, <1>4 DEF FinishIssue, TaskCurrent, Idle, TypeOK
  <2> QED BY <1>0, <1>4, <2>1, LastStep
          DEF FinishIssue, SerialInv, CompletionBacked, NoOrphanBinding
<1>5. ASSUME NEW p \in Processes, NEW i \in Ids, BeginVerify(p, i) PROVE SerialInv'
  <2> DEFINE t == [op |-> "verify", id |-> i]
  <2>1. TaskCurrent(t)
    BY <1>5 DEF BeginVerify, TaskCurrent
  <2> QED BY <1>0, <1>5, <2>1, SerialQuietStep DEF BeginVerify, Begin, history
<1>6. ASSUME NEW p \in Processes, CheckSignature(p) PROVE SerialInv'
  <2> DEFINE t == [op |-> "signed", id |-> task[p].id,
                   subject |-> challenges[task[p].id].subject, at |-> now]
  <2>1. TaskCurrent(t) /\ task[p] # Idle
    BY <1>0, <1>6 DEF CheckSignature, TaskCurrent, Idle
  <2> QED BY <1>0, <1>6, <2>1, SerialQuietStep DEF CheckSignature, Advance, history
<1>7. ASSUME NEW p \in Processes, FinishVerify(p) PROVE SerialInv'
  <2>1. task[p] # Idle /\ ~ genesis.complete
    BY <1>0, <1>7 DEF FinishVerify, TaskCurrent, Idle
  <2> QED BY <1>0, <1>7, <2>1, LastStep
          DEF FinishVerify, SerialInv, CompletionBacked, NoOrphanBinding
<1>8. ASSUME NEW p \in Processes, NEW f \in Form, BeginComplete(p, f) PROVE SerialInv'
  <2> DEFINE t == [op |-> "complete", form |-> f]
  <2>1. TaskCurrent(t)
    BY <1>8 DEF BeginComplete, TaskCurrent
  <2> QED BY <1>0, <1>8, <2>1, SerialQuietStep DEF BeginComplete, Begin, history
<1>9. ASSUME NEW p \in Processes, CheckChallenge(p) PROVE SerialInv'
  <2> DEFINE t == [op |-> "checked", form |-> task[p].form]
  <2>1. TaskCurrent(t) /\ task[p] # Idle
    BY <1>0, <1>9 DEF CheckChallenge, Answered, TaskCurrent, Idle
  <2> QED BY <1>0, <1>9, <2>1, SerialQuietStep DEF CheckChallenge, Advance, history
<1>10. ASSUME NEW p \in Processes, ReadName(p) PROVE SerialInv'
  <2> DEFINE f == task[p].form
             t == [op |-> "named", form |-> f, insert |-> bindings[f.label] = None]
  <2>1. /\ task[p] # Idle /\ ~ genesis.complete
        /\ f.id \in DOMAIN challenges
        /\ challenges[f.id].consumed # None /\ challenges[f.id].subject = f.subject
    BY <1>0, <1>10 DEF ReadName, TaskCurrent, Idle
  <2>2. t.op = "named" /\ t.form = f /\ (t.insert <=> bindings[f.label] = None)
    OBVIOUS
  <2>3. TaskCurrent(t)
    BY <2>1, <2>2 DEF TaskCurrent
  <2> QED BY <1>0, <1>10, <2>1, <2>3, SerialQuietStep DEF ReadName, Advance, history
<1>11. ASSUME NEW p \in Processes, FinishComplete(p) PROVE SerialInv'
  <2> DEFINE f == task[p].form
  <2>1. task[p] \in [op : {"named"}, form : Form, insert : BOOLEAN]
    BY <1>0, <1>11 DEF FinishComplete, TypeOK, Task, Idle
  <2>2. f \in Form /\ f.label \in Labels /\ f.org \in OrgKeys
    BY <2>1 DEF Form
  <2>3. /\ task[p] # Idle /\ ~ genesis.complete /\ genesis.label = None
        /\ f.id \in DOMAIN challenges
        /\ challenges[f.id].consumed # None /\ challenges[f.id].subject = f.subject
        /\ task[p].insert <=> bindings[f.label] = None
    BY <1>0, <1>11 DEF FinishComplete, TaskCurrent, Idle, TypeOK
  <2>4. /\ bindings'[f.label] # None
        /\ \A l \in Labels : l # f.label => bindings'[l] = bindings[l]
        /\ genesis'.label = f.label /\ genesis'.operator = f.subject
        /\ challenges' = challenges /\ published' = published
    <3>1. [id |-> f.org, plain |-> TRUE] # None
      BY <2>2, NoneIsNoBinding
    <3>2. task[p].insert \in BOOLEAN
      BY <2>1
    <3>3. bindings' = [bindings EXCEPT ![f.label] =
            IF task[p].insert THEN [id |-> f.org, plain |-> TRUE] ELSE bindings[f.label]]
      BY <1>11 DEF FinishComplete
    <3>4. bindings'[f.label] =
            IF task[p].insert THEN [id |-> f.org, plain |-> TRUE] ELSE bindings[f.label]
      BY <1>0, <2>2, <3>3 DEF TypeOK
    <3>5. bindings'[f.label] # None
      BY <2>3, <3>1, <3>2, <3>4
    <3> QED BY <1>0, <1>11, <2>2, <3>3, <3>5 DEF FinishComplete, TypeOK, history
  <2>5. CompletionBacked'
    BY <2>3, <2>4 DEF CompletionBacked
  <2>6. NoOrphanBinding'
    BY <2>3, <2>4 DEF NoOrphanBinding, SerialInv
  <2> QED BY <1>0, <1>11, <2>3, <2>5, <2>6, LastStep DEF FinishComplete, SerialInv
<1>12. ASSUME NEW p \in Processes, BeginReset(p) PROVE SerialInv'
  <2> DEFINE t == [op |-> "reset", complete |-> genesis.complete, label |-> genesis.label]
  <2>1. TaskCurrent(t)
    BY DEF TaskCurrent
  <2> QED BY <1>0, <1>12, <2>1, SerialQuietStep DEF BeginReset, Begin, history
<1>13. ASSUME NEW p \in Processes, FinishReset(p) PROVE SerialInv'
  <2>1. /\ task[p] # Idle
        /\ task[p].complete = genesis.complete /\ task[p].label = genesis.label
    BY <1>0, <1>13 DEF FinishReset, ChallengesDeleted, TaskCurrent, Idle
  <2>2. ~ genesis'.complete /\ genesis'.label = None /\ published' = published
    BY <1>13 DEF FinishReset, ChallengesDeleted, Cleared, Blank, history
  <2>3. \A l \in Labels : bindings'[l] # None => bindings[l] # None /\ l # genesis.label
    BY <1>0, <1>13, <2>1 DEF FinishReset, ChallengesDeleted, Unbound, TypeOK
  <2>4. CompletionBacked' /\ NoOrphanBinding'
    BY <2>2, <2>3 DEF CompletionBacked, NoOrphanBinding, SerialInv
  <2> QED BY <1>0, <1>13, <2>1, <2>4, LastStep DEF FinishReset, ChallengesDeleted, SerialInv
<1>14. ASSUME NEW p \in Processes, Fail(p) PROVE SerialInv'
  <2> QED BY <1>0, <1>14, LastStep
          DEF Fail, store, history, SerialInv, CompletionBacked, NoOrphanBinding
<1>15. ASSUME NEW p \in Processes, NEW l \in Labels, NEW k \in OrgKeys, Register(p, l, k)
       PROVE SerialInv'
  <2>1. /\ \A q \in Processes : task[q] = Idle
        /\ bindings'[l] # None
        /\ \A x \in Labels \ {l} : bindings'[x] = bindings[x]
        /\ published' = published \cup {l}
        /\ UNCHANGED <<genesis, challenges, task>>
    BY <1>0, <1>15 DEF Register, ServerFree, TypeOK
  <2>2. CompletionBacked' /\ NoOrphanBinding'
    BY <1>0, <2>1 DEF CompletionBacked, NoOrphanBinding, SerialInv, TypeOK
  <2> QED BY <1>0, <2>1, <2>2, AllIdle DEF SerialInv
<1>16. ASSUME NEW p \in Processes, NEW l \in Labels, AddRoute(p, l) PROVE SerialInv'
  <2>1. /\ \A q \in Processes : task[q] = Idle
        /\ \A x \in Labels : bindings'[x] = None <=> bindings[x] = None
        /\ UNCHANGED <<genesis, challenges, task, published>>
    <3>1. bindings[l] \in Binding
      BY <1>0, <1>16 DEF AddRoute, TypeOK
    <3>2. [id |-> bindings[l].id, plain |-> FALSE] # None
      BY <3>1, NoneIsNoBinding DEF Binding
    <3>3. bindings' = [bindings EXCEPT ![l] = [id |-> bindings[l].id, plain |-> FALSE]]
      BY <1>16 DEF AddRoute
    <3>4. bindings[l] # None /\ bindings'[l] # None
      BY <1>0, <1>16, <3>2, <3>3 DEF AddRoute, TypeOK
    <3>5. \A x \in Labels \ {l} : bindings'[x] = bindings[x]
      BY <1>0, <3>3 DEF TypeOK
    <3>6. \A q \in Processes : task[q] = Idle
      BY <1>0, <1>16 DEF AddRoute, ServerFree
    <3> QED BY <1>16, <3>4, <3>5, <3>6 DEF AddRoute, history
  <2>2. CompletionBacked' /\ NoOrphanBinding'
    BY <1>0, <2>1 DEF CompletionBacked, NoOrphanBinding, SerialInv, TypeOK
  <2> QED BY <1>0, <2>1, <2>2, AllIdle DEF SerialInv
<1> QED
  BY <1>1, <1>2, <1>3, <1>4, <1>5, <1>6, <1>7, <1>8, <1>9, <1>10, <1>11, <1>12,
     <1>13, <1>14, <1>15, <1>16 DEF Next, Step

LEMMA SerialCorrect == ASSUME ~ Overlap PROVE Spec => []SerialInv
<1>1. Init => SerialInv
  <2> SUFFICES ASSUME Init PROVE SerialInv
    OBVIOUS
  <2>1. /\ \A p \in Processes : task[p] = Idle
        /\ \A l \in Labels : bindings[l] = None
        /\ ~ genesis.complete
    BY DEF Init, Blank
  <2>2. Alone /\ \A p \in Processes : TaskCurrent(task[p])
    BY <2>1 DEF Alone, TaskCurrent, Idle
  <2> QED BY <2>1, <2>2, InitType DEF SerialInv, CompletionBacked, NoOrphanBinding
<1>2. SerialInv /\ [Next]_vars => SerialInv'
  BY SerialStep
<1> QED BY <1>1, <1>2, PTL DEF Spec

\* With one operation at a time a completed genesis has its root name bound and
\* its operator's challenge on record (complete_genesis, reset_genesis_state).
THEOREM CompletionsAreBacked == ASSUME ~ Overlap PROVE Spec => []CompletionBacked
<1>1. SerialInv => CompletionBacked
  BY DEF SerialInv
<1> QED BY <1>1, SerialCorrect, PTL

\* With one operation at a time a reset removes the binding its wizard made, so
\* no root name stays bound without a completed genesis (reset_genesis_state).
THEOREM NoBindingIsOrphaned == ASSUME ~ Overlap PROVE Spec => []NoOrphanBinding
<1>1. SerialInv => NoOrphanBinding
  BY DEF SerialInv
<1> QED BY <1>1, SerialCorrect, PTL

\* With one operation at a time no step replaces the operator or the root label
\* of a completed genesis (the genesis_complete check of complete_genesis).
THEOREM OperatorIsFixed == ASSUME ~ Overlap PROVE Spec => OperatorFixed
<1> DEFINE Fixed == genesis.complete /\ genesis'.complete =>
              genesis'.operator = genesis.operator /\ genesis'.label = genesis.label
<1>1. SerialInv /\ [Next]_vars => Fixed
  <2> SUFFICES ASSUME SerialInv, [Next]_vars, genesis.complete, genesis'.complete
               PROVE  genesis'.operator = genesis.operator /\ genesis'.label = genesis.label
    OBVIOUS
  <2>1. \A p \in Processes : TaskCurrent(task[p])
    BY DEF SerialInv
  <2>2. CASE genesis' = genesis
    BY <2>2
  <2>3. ASSUME NEW p \in Processes, FinishIssue(p) PROVE FALSE
    BY <2>1, <2>3 DEF FinishIssue, TaskCurrent
  <2>4. ASSUME NEW p \in Processes, FinishComplete(p) PROVE FALSE
    BY <2>1, <2>4 DEF FinishComplete, TaskCurrent
  <2>5. ASSUME NEW p \in Processes, FinishReset(p) PROVE FALSE
    BY <2>5 DEF FinishReset, ChallengesDeleted, Cleared, Blank
  <2> QED
    BY <2>2, <2>3, <2>4, <2>5
    DEF Next, Step, vars, Tick, BeginIssue, BeginVerify, CheckSignature, FinishVerify,
        BeginComplete, CheckChallenge, ReadName, BeginReset, Fail, Register, AddRoute,
        store, history
<1> QED BY <1>1, SerialCorrect, PTL DEF Spec, OperatorFixed

\* Once allocated, instance_id never changes: get_or_create_instance_id reads it
\* in the transaction that would write it, and a reset keeps it.
THEOREM InstanceIsStable == Spec => InstanceStable
<1> DEFINE Stable == genesis.instance # None => genesis'.instance = genesis.instance
<1>1. TypeOK /\ [Next]_vars => Stable
  <2> SUFFICES ASSUME TypeOK, [Next]_vars PROVE Stable
    OBVIOUS
  <2>1. CASE genesis' = genesis
    BY <2>1
  <2>2. ASSUME NEW p \in Processes, FinishIssue(p) PROVE Stable
    BY <2>2 DEF FinishIssue, InstanceInUse, TypeOK
  <2>3. ASSUME NEW p \in Processes, FinishComplete(p) PROVE Stable
    BY <2>3 DEF FinishComplete
  <2>4. ASSUME NEW p \in Processes, FinishReset(p) PROVE Stable
    BY <2>4 DEF FinishReset, ChallengesDeleted, Cleared, Blank
  <2> QED
    BY <2>1, <2>2, <2>3, <2>4
    DEF Next, Step, vars, Tick, BeginIssue, BeginVerify, CheckSignature, FinishVerify,
        BeginComplete, CheckChallenge, ReadName, BeginReset, Fail, Register, AddRoute,
        store, history
<1> QED BY <1>1, TypeCorrect, PTL DEF Spec, InstanceStable

\* No interleaving of wizard steps, resets and messages gives a bound name to
\* another organization (the primary key of name_bindings decides).
THEOREM BindingsAreKept == Spec => BindingsKept
<1> DEFINE Kept == \A l \in Labels : bindings[l] # None /\ bindings'[l] # None =>
                     bindings'[l].id = bindings[l].id
<1>1. TypeOK /\ [Next]_vars => Kept
  <2> SUFFICES ASSUME TypeOK, [Next]_vars PROVE Kept
    OBVIOUS
  <2>1. CASE bindings' = bindings
    BY <2>1
  <2>2. ASSUME NEW p \in Processes, FinishComplete(p) PROVE Kept
    BY <2>2 DEF FinishComplete, InsertSucceeds, TypeOK
  <2>3. ASSUME NEW p \in Processes, FinishReset(p) PROVE Kept
    BY <2>3 DEF FinishReset, ChallengesDeleted, Unbound
  <2>4. ASSUME NEW p \in Processes, NEW l \in Labels, NEW k \in OrgKeys, Register(p, l, k)
        PROVE Kept
    BY <2>4 DEF Register, TypeOK
  <2>5. ASSUME NEW p \in Processes, NEW l \in Labels, AddRoute(p, l) PROVE Kept
    BY <2>5 DEF AddRoute, TypeOK
  <2> QED
    BY <2>1, <2>2, <2>3, <2>4, <2>5
    DEF Next, Step, vars, Tick, BeginIssue, FinishIssue, BeginVerify, CheckSignature,
        FinishVerify, BeginComplete, CheckChallenge, ReadName, BeginReset, Fail, store, history
<1> QED BY <1>1, TypeCorrect, PTL DEF Spec, BindingsKept
--------------------------------------------------------------------------------
(* The wizard implements its service *)

\* The wizard's tables start as a fresh core.
LEMMA ViewOfInit == Init => Service!Init
BY DEF Init, Blank, CoreView, Service!Init, Service!Fresh

\* A step of the tables is an operation of the service or none at all.
LEMMA ViewStep ==
  ASSUME SerialInv, [Next]_vars
  PROVE  Service!Next \/ CoreView' = CoreView
<1>0. TypeOK /\ \A p \in Processes : TaskCurrent(task[p])
  BY DEF SerialInv
<1>1. CASE genesis' = genesis /\ challenges' = challenges
  BY <1>1 DEF CoreView
<1>2. ASSUME NEW p \in Processes, FinishIssue(p) PROVE Service!Next
  <2>1. /\ ~ genesis.complete
        /\ task[p].subject \in Operators
    BY <1>0, <1>2 DEF FinishIssue, TaskCurrent, TypeOK, Task, Idle
  <2>2. issued' \in Ids /\ issued' \notin DOMAIN challenges
    BY <1>0, <1>2, ConstantShape DEF FinishIssue, TypeOK, Ids
  <2>3. CoreView' = Service!Issued(CoreView, issued', task[p].subject)
    BY <1>0, <1>2 DEF FinishIssue, TypeOK, CoreView, Service!Issued
  <2>4. Service!Issue(issued', task[p].subject)
    BY <2>1, <2>2, <2>3 DEF Service!Issue, Service!CanIssue, CoreView
  <2> QED BY <2>1, <2>2, <2>4 DEF Service!Next
<1>3. ASSUME NEW p \in Processes, FinishVerify(p) PROVE Service!Next
  <2> DEFINE i == task[p].id
  <2>1. /\ ~ genesis.complete
        /\ task[p] \in [op : {"signed"}, id : Ids, subject : Operators, at : Nat]
    BY <1>0, <1>3 DEF FinishVerify, TaskCurrent, TypeOK, Task, Idle
  <2>2. /\ i \in DOMAIN challenges
        /\ challenges[i] \in Challenge
        /\ challenges[i].consumed = None
    BY <1>0, <1>3 DEF FinishVerify, Consumable, TypeOK
  <2>3. PICK s \in Operators : s = challenges[i].subject
    BY <2>2 DEF Challenge
  <2>4. task[p].at # None
    BY <2>1, ConstantShape
  <2>5. CoreView' = Service!Verified(CoreView, i)
    BY <1>3, <2>1, <2>2, <2>4 DEF FinishVerify, CoreView, Service!Verified
  <2>6. Service!Verify(i, s)
    BY <2>1, <2>2, <2>3, <2>5 DEF Service!Verify, Service!CanVerify, CoreView
  <2> QED BY <2>1, <2>6 DEF Service!Next
<1>4. ASSUME NEW p \in Processes, FinishComplete(p) PROVE Service!Next
  <2> DEFINE f == task[p].form
  <2>1. /\ f \in Form
        /\ ~ genesis.complete
        /\ f.id \in DOMAIN challenges
        /\ challenges[f.id].consumed # None
        /\ challenges[f.id].subject = f.subject
    BY <1>0, <1>4 DEF FinishComplete, TaskCurrent, TypeOK, Task, Idle
  <2>2. f.id \in Ids /\ f.subject \in Operators /\ f.label \in Labels
    BY <2>1 DEF Form
  <2>3. CoreView' = Service!Completed(CoreView, f.subject, f.label)
    BY <1>4 DEF FinishComplete, CoreView, Service!Completed
  <2>4. Service!Complete(f.id, f.subject, f.label)
    BY <2>1, <2>3 DEF Service!Complete, Service!CanComplete, CoreView
  <2> QED BY <2>2, <2>4 DEF Service!Next
<1>5. ASSUME NEW p \in Processes, FinishReset(p) PROVE Service!Next
  BY <1>5 DEF FinishReset, ChallengesDeleted, Cleared, Blank, CoreView,
     Service!Next, Service!Reset, Service!Fresh
<1> QED
  BY <1>1, <1>2, <1>3, <1>4, <1>5
  DEF Next, Step, vars, Tick, BeginIssue, BeginVerify, CheckSignature,
      BeginComplete, CheckChallenge, ReadName, BeginReset, Fail, Register, AddRoute,
      store, history

\* With one operation at a time the wizard, cut into its statements and with
\* every failure between them, implements the genesis service
\* (complete_genesis, verify_and_consume, reset_genesis_state).
THEOREM GenesisImplementsService == ASSUME ~ Overlap PROVE Spec => ImplementsGenesis
<1>1. SerialInv /\ [Next]_vars => [Service!Next]_CoreView
  BY ViewStep
<1> QED BY <1>1, ViewOfInit, SerialCorrect, PTL DEF Spec, ImplementsGenesis, Service!Spec

================================================================================
