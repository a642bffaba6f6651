-------------------------- MODULE KeymasterVaultProofs --------------------------
(***************************************************************************)
(* Proofs about Keymaster, for any vault, any timeouts and any number of   *)
(* sessions.  The limits of a session hold for any number of processes on  *)
(* the file; that pages show what is stored, for one (OneServer).          *)
(***************************************************************************)
EXTENDS KeymasterVault, TLAPS

OneServer == \A s, t \in Servers : s = t

\* What the history says is what the records hold, and a request that writes was
\* made at this very instant.
ClockInv ==
  /\ \A i \in DOMAIN sessions : sessions[i].seen = own[i] /\ sessions[i].created = login[i]
  /\ \A s \in Servers : task[s].op \in {"new", "rename"} => own[task[s].sid] = now

\* Until there is a vault nobody has a session or has seen anything; a request in
\* progress holds what is in the file.
VaultInv ==
  /\ file = None => DOMAIN sessions = {} /\ shown = {}
  /\ \A s \in Servers :
       /\ task[s].op = "setup" => file = None
       /\ task[s].op \in {"unlock", "new", "rename"} => task[s].profiles = file

--------------------------------------------------------------------------------
(* Effects of the operations on the tables *)

\* A table of sessions, the n-th the last.
Table(x, n) ==
  /\ DOMAIN x \subseteq 1..n
  /\ x \in [DOMAIN x -> Session]

\* Sessions of other processes than s are where they were.
OthersKept(s, x) ==
  \A j \in DOMAIN sessions : sessions[j].server # s =>
    j \in DOMAIN x /\ x[j] = sessions[j]

\* Session j of x is one of before, but for the instant of its last request.
Same(x, j) ==
  /\ j \in DOMAIN sessions
  /\ x[j].server = sessions[j].server
  /\ x[j].vault = sessions[j].vault
  /\ x[j].created = sessions[j].created

\* Pruning only takes away, and only from s.
LEMMA PruneEffect ==
  ASSUME TypeOK, NEW s \in Servers, NEW x, x = Pruned(s)
  PROVE  /\ Table(x, opened) /\ OthersKept(s, x)
         /\ \A j \in DOMAIN x : j \in DOMAIN sessions /\ x[j] = sessions[j]
<1>1. DOMAIN x = Live(s) /\ Live(s) \subseteq DOMAIN sessions
  BY DEF Pruned, Live
<1>2. \A j \in DOMAIN x : x[j] = sessions[j]
  BY <1>1 DEF Pruned
<1>3. \A j \in DOMAIN sessions : sessions[j].server # s => j \in Live(s)
  BY DEF Live
<1>4. sessions \in [DOMAIN sessions -> Session] /\ DOMAIN sessions \subseteq 1..opened
  BY DEF TypeOK
<1>5. x \in [DOMAIN x -> Session]
  BY <1>1, <1>4 DEF Pruned
<1> QED
  BY <1>1, <1>2, <1>3, <1>4, <1>5 DEF Table, OthersKept

\* A request with a live cookie.
LEMMA OwnRequestEffect ==
  ASSUME TypeOK, NEW s \in Servers, NEW i \in Sids, OwnRequest(s, i)
  PROVE  /\ Table(sessions', opened) /\ OthersKept(s, sessions')
         /\ i \in DOMAIN sessions' /\ sessions'[i].server = s /\ sessions'[i].seen = now
         /\ \A j \in DOMAIN sessions' : Same(sessions', j)
         /\ \A j \in DOMAIN sessions' : j # i => sessions'[j].seen = sessions[j].seen
         /\ ~ Expired(sessions[i])
<1> DEFINE x == Pruned(s)
<1>1. /\ Table(x, opened) /\ OthersKept(s, x)
      /\ \A j \in DOMAIN x : j \in DOMAIN sessions /\ x[j] = sessions[j]
  BY PruneEffect
<1>2. DOMAIN x = Live(s)
  BY DEF Pruned
<1>3. i \in Live(s) /\ sessions[i].server = s /\ sessions' = Touched(x, i)
  BY DEF OwnRequest, Unlocked
<1>4. i \in DOMAIN x /\ ~ Expired(sessions[i])
  BY <1>2, <1>3 DEF Live
<1>5. now \in Nat
  BY DEF TypeOK
<1> HIDE DEF x
<1>6. DOMAIN sessions' = DOMAIN x
  BY <1>3 DEF Touched
<1>7. \A j \in DOMAIN x : x[j] \in Session
  BY <1>1 DEF Table
<1>8. \A j \in DOMAIN x : j # i => sessions'[j] = x[j]
  BY <1>3 DEF Touched
<1>9. sessions'[i] = [server |-> x[i].server, vault |-> x[i].vault, created |-> x[i].created, seen |-> now]
  BY <1>3, <1>4 DEF Touched
<1>10. sessions'[i] \in Session
  BY <1>4, <1>5, <1>7, <1>9 DEF Session
<1>11. sessions' \in [DOMAIN sessions' -> Session]
  <2>1. \A j \in DOMAIN x :
          (IF j = i THEN [server |-> x[j].server, vault |-> x[j].vault, created |-> x[j].created, seen |-> now]
           ELSE x[j]) \in Session
    BY <1>7, <1>9, <1>10
  <2> QED
    BY <1>3, <1>6, <2>1 DEF Touched
<1>12. OthersKept(s, sessions')
  BY <1>1, <1>3, <1>4, <1>6, <1>8 DEF OthersKept
<1>13. \A j \in DOMAIN sessions' : Same(sessions', j)
  BY <1>1, <1>6, <1>8, <1>9 DEF Same
<1> QED
  BY <1>1, <1>3, <1>4, <1>6, <1>8, <1>9, <1>11, <1>12, <1>13 DEF Table

\* A new session.
LEMMA OpenEffect ==
  ASSUME TypeOK, NEW s \in Servers, NEW v \in Profiles, Open(s, v)
  PROVE  /\ opened + 1 \in Sids /\ opened' \in 0..MaxSessions
         /\ Table(sessions', opened') /\ OthersKept(s, sessions')
         /\ sessions'[opened + 1] = [server |-> s, vault |-> v, created |-> now, seen |-> now]
         /\ \A j \in DOMAIN sessions' :
              j # opened + 1 => j \in DOMAIN sessions /\ sessions'[j] = sessions[j]
         /\ \A j \in DOMAIN sessions : j # opened + 1
<1> DEFINE y == [server |-> s, vault |-> v, created |-> now, seen |-> now]
<1>1. /\ opened \in 0..MaxSessions /\ opened < MaxSessions /\ MaxSessions \in Nat
      /\ opened' = opened + 1 /\ now \in Nat
  BY ConstantShape DEF TypeOK, Open
<1>2. /\ opened + 1 \in Sids /\ opened' \in 0..MaxSessions
      /\ 1..opened \subseteq 1..opened' /\ opened + 1 \in 1..opened' /\ opened + 1 \notin 1..opened
  BY <1>1 DEF Sids
<1>3. y \in Session
  BY <1>1 DEF Session
<1>4. sessions' = Opened(s, v)
  BY DEF Open
<1>5. Live(s) \subseteq DOMAIN sessions /\ DOMAIN sessions \subseteq 1..opened
  BY DEF Live, TypeOK
<1>6. DOMAIN sessions' = Live(s) \cup {opened + 1}
  BY <1>4 DEF Opened
<1>7. sessions'[opened + 1] = y
  BY <1>4 DEF Opened
<1>8. \A j \in Live(s) : j # opened + 1 => sessions'[j] = sessions[j]
  BY <1>4 DEF Opened
<1>9. \A j \in Live(s) : sessions[j] \in Session
  BY <1>5 DEF TypeOK
<1>10. sessions' \in [DOMAIN sessions' -> Session]
  <2>1. \A j \in Live(s) \cup {opened + 1} : (IF j = opened + 1 THEN y ELSE sessions[j]) \in Session
    BY <1>3, <1>9
  <2> QED
    BY <1>4, <1>6, <2>1 DEF Opened
<1>11. \A j \in DOMAIN sessions : sessions[j].server # s => j \in Live(s)
  BY DEF Live
<1>12. OthersKept(s, sessions')
  BY <1>2, <1>5, <1>6, <1>8, <1>11 DEF OthersKept
<1> QED
  BY <1>2, <1>5, <1>6, <1>7, <1>8, <1>10, <1>12 DEF Table

\* After a write.
LEMMA ShareEffect ==
  ASSUME TypeOK, NEW s \in Servers, NEW i, NEW v \in Profiles, sessions' = Shared(s, i, v)
  PROVE  /\ Table(sessions', opened) /\ OthersKept(s, sessions')
         /\ DOMAIN sessions' = DOMAIN sessions
         /\ \A j \in DOMAIN sessions :
              /\ sessions'[j].server = sessions[j].server
              /\ sessions'[j].created = sessions[j].created
              /\ sessions'[j].seen \in {sessions[j].seen, now}
              /\ j # i => sessions'[j].seen = sessions[j].seen
              /\ sessions[j].server = s => sessions'[j].vault = v
<1> DEFINE y(j) == [server |-> s, vault |-> v, created |-> sessions[j].created,
                    seen |-> IF j = i THEN now ELSE sessions[j].seen]
<1>1. now \in Nat /\ DOMAIN sessions \subseteq 1..opened
  BY DEF TypeOK
<1>2. \A j \in DOMAIN sessions : sessions[j] \in Session
  BY DEF TypeOK
<1>3. \A j \in DOMAIN sessions : y(j) \in Session
  BY <1>1, <1>2 DEF Session
<1>4. DOMAIN sessions' = DOMAIN sessions
  BY DEF Shared
<1>5. \A j \in DOMAIN sessions : sessions'[j] = IF sessions[j].server = s THEN y(j) ELSE sessions[j]
  BY DEF Shared
<1>6. sessions' \in [DOMAIN sessions' -> Session]
  <2>1. \A j \in DOMAIN sessions : (IF sessions[j].server = s THEN y(j) ELSE sessions[j]) \in Session
    BY <1>2, <1>3
  <2> QED
    BY <1>4, <2>1 DEF Shared
<1> QED
  BY <1>1, <1>4, <1>5, <1>6 DEF Table, OthersKept

\* What is written is a vault.
LEMMA WrittenVaults ==
  ASSUME TypeOK
  PROVE  /\ NoProfiles \in Profiles /\ DOMAIN NoProfiles = {}
         /\ \A s \in Servers : task[s].op = "new" /\ minted < MaxIdentities =>
              /\ task[s].profiles \in Profiles /\ minted + 1 \in Ids
              /\ WithNew(task[s]) \in Profiles
              /\ DOMAIN WithNew(task[s]) = DOMAIN task[s].profiles \cup {minted + 1}
         /\ \A s \in Servers : task[s].op = "rename" =>
              /\ task[s].profiles \in Profiles /\ task[s].id \in DOMAIN task[s].profiles
              /\ Renamed(task[s]) \in Profiles
              /\ DOMAIN Renamed(task[s]) = DOMAIN task[s].profiles
<1>1. NoProfiles \in Profiles /\ DOMAIN NoProfiles = {}
  <2>1. NoProfiles \in [{} -> Names]
    BY DEF NoProfiles
  <2> QED
    BY <2>1 DEF Profiles, NoProfiles
<1>2. ASSUME NEW s \in Servers, task[s].op = "new", minted < MaxIdentities
      PROVE  /\ task[s].profiles \in Profiles /\ minted + 1 \in Ids
             /\ WithNew(task[s]) \in Profiles
             /\ DOMAIN WithNew(task[s]) = DOMAIN task[s].profiles \cup {minted + 1}
  <2>1. task[s] \in [op : {"new"}, sid : Sids, name : Names, profiles : Profiles]
    BY <1>2 DEF TypeOK, Task, Idle
  <2>2. PICK I \in SUBSET Ids : task[s].profiles \in [I -> Names]
    BY <2>1 DEF Profiles
  <2>3. minted + 1 \in Ids
    BY <1>2, ConstantShape DEF TypeOK, Ids
  <2>4. WithNew(task[s]) \in [I \cup {minted + 1} -> Names]
    BY <2>1, <2>2 DEF WithNew
  <2>5. I \cup {minted + 1} \in SUBSET Ids
    BY <2>2, <2>3
  <2> QED
    BY <2>1, <2>2, <2>3, <2>4, <2>5 DEF Profiles
<1>3. ASSUME NEW s \in Servers, task[s].op = "rename"
      PROVE  /\ task[s].profiles \in Profiles /\ task[s].id \in DOMAIN task[s].profiles
             /\ Renamed(task[s]) \in Profiles
             /\ DOMAIN Renamed(task[s]) = DOMAIN task[s].profiles
  <2>1. /\ task[s] \in [op : {"rename"}, sid : Sids, id : Ids, name : Names, profiles : Profiles]
        /\ task[s].id \in DOMAIN task[s].profiles
    BY <1>3 DEF TypeOK, Task, Idle
  <2>2. PICK I \in SUBSET Ids : task[s].profiles \in [I -> Names]
    BY <2>1 DEF Profiles
  <2>3. Renamed(task[s]) \in [I -> Names]
    BY <2>1, <2>2 DEF Renamed
  <2> QED
    BY <2>1, <2>2, <2>3 DEF Profiles
<1> QED
  BY <1>1, <1>2, <1>3

--------------------------------------------------------------------------------
(* Types *)

\* What a step of s leaves of memory and tasks: enough for the part of TypeOK on
\* requests that write.
TaskShape(t, x) ==
  /\ t \in [Servers -> Task]
  /\ \A s \in Servers : t[s].op \in {"new", "rename"} =>
       t[s].sid \in DOMAIN x /\ x[t[s].sid].server = s

\* s goes on to u; its session, if u has one, is there, and so are the others'.
LEMMA TaskStep ==
  ASSUME TypeOK, NEW s \in Servers, NEW u \in Task, Goes(s, u), NEW x, OthersKept(s, x),
         u.op \in {"new", "rename"} => u.sid \in DOMAIN x /\ x[u.sid].server = s
  PROVE  TaskShape(task', x)
<1>1. task' = [task EXCEPT ![s] = u] /\ task \in [Servers -> Task]
  BY DEF Goes, TypeOK
<1>2. task' \in [Servers -> Task] /\ task'[s] = u /\ \A t \in Servers : t # s => task'[t] = task[t]
  BY <1>1
<1>3. ASSUME NEW t \in Servers, t # s, task[t].op \in {"new", "rename"}
      PROVE  task[t].sid \in DOMAIN x /\ x[task[t].sid].server = t
  <2>1. task[t].sid \in DOMAIN sessions /\ sessions[task[t].sid].server = t
    BY <1>3 DEF TypeOK
  <2> QED
    BY <1>3, <2>1 DEF OthersKept
<1> QED
  BY <1>2, <1>3 DEF TaskShape

\* A step without a change of tasks, made while s is free.
LEMMA FreeStep ==
  ASSUME TypeOK, NEW s \in Servers, Free(s), UNCHANGED task, NEW x, OthersKept(s, x)
  PROVE  TaskShape(task', x)
<1>1. \A t \in Servers : task[t].op \in {"new", "rename"} => t # s
  BY DEF Free, Idle
<1> QED
  BY <1>1 DEF TaskShape, TypeOK, OthersKept

\* TypeOK from its parts.
LEMMA TypeParts ==
  ASSUME TypeOK, TaskShape(task', sessions'), Table(sessions', opened'),
         opened' \in 0..MaxSessions, minted' \in 0..MaxIdentities,
         file' \in Profiles \cup {None}, now' \in Nat,
         login' \in [Sids -> Nat], own' \in [Sids -> Nat], shown' \subseteq Ids
  PROVE  TypeOK'
BY DEF TypeOK, TaskShape, Table

LEMMA InitType == Init => TypeOK
<1> SUFFICES ASSUME Init PROVE TypeOK
  OBVIOUS
<1>1. sessions \in [DOMAIN sessions -> Session] /\ DOMAIN sessions = {}
  BY DEF Init
<1>2. task \in [Servers -> Task] /\ \A s \in Servers : task[s].op \notin {"new", "rename"}
  BY DEF Init, Idle, Task
<1>3. MaxSessions \in Nat /\ MaxIdentities \in Nat
  BY ConstantShape
<1>4. minted \in 0..MaxIdentities /\ opened \in 0..MaxSessions
  BY <1>3 DEF Init
<1> QED
  BY <1>1, <1>2, <1>4 DEF Init, TypeOK

LEMMA NextType == TypeOK /\ [Next]_vars => TypeOK'
<1> SUFFICES ASSUME TypeOK, [Next]_vars PROVE TypeOK'
  OBVIOUS
<1>0. /\ MaxSessions \in Nat /\ MaxIdentities \in Nat /\ now \in Nat
      /\ opened \in 0..MaxSessions /\ minted \in 0..MaxIdentities
      /\ file \in Profiles \cup {None} /\ shown \subseteq Ids
      /\ login \in [Sids -> Nat] /\ own \in [Sids -> Nat]
      /\ Table(sessions, opened)
  BY ConstantShape DEF TypeOK, Table
<1>a. Idle \in Task /\ Idle.op \notin {"new", "rename"}
  BY DEF Task, Idle
<1>b. \A i \in Sids : [own EXCEPT ![i] = now] \in [Sids -> Nat]
                     /\ [login EXCEPT ![i] = now] \in [Sids -> Nat]
  BY <1>0
<1>c. \A v \in Profiles : DOMAIN v \subseteq Ids
  BY DEF Profiles
<1>1. CASE UNCHANGED vars
  BY <1>1 DEF vars, memory, history, TypeOK
<1>2. CASE Tick
  <2>1. now' \in Nat
    BY <1>0, <1>2 DEF Tick
  <2> QED
    BY <1>2, <2>1 DEF Tick, memory, history, TypeOK
<1>3. ASSUME NEW s \in Servers, Visit(s)
      PROVE  TypeOK'
  <2>1. Table(sessions', opened) /\ OthersKept(s, sessions')
    BY <1>3, PruneEffect DEF Visit
  <2>2. TaskShape(task', sessions')
    BY <1>3, <2>1, FreeStep DEF Visit
  <2> QED
    BY <1>0, <1>3, <2>1, <2>2, TypeParts DEF Visit, history
<1>4. ASSUME NEW s \in Servers, NEW i \in Sids, Free(s), OwnRequest(s, i),
             shown' \subseteq Ids, UNCHANGED <<now, file, task, minted, opened, login>>
      PROVE  TypeOK'
  <2>1. Table(sessions', opened) /\ OthersKept(s, sessions')
    BY <1>4, OwnRequestEffect
  <2>2. TaskShape(task', sessions')
    BY <1>4, <2>1, FreeStep
  <2>3. own' \in [Sids -> Nat]
    BY <1>4, <1>b DEF OwnRequest
  <2> QED
    BY <1>0, <1>4, <2>1, <2>2, <2>3, TypeParts
<1>5. ASSUME NEW s \in Servers, NEW i \in Sids, View(s, i)
      PROVE  TypeOK'
  <2>1. i \in DOMAIN sessions
    BY <1>5 DEF View, OwnRequest, Unlocked, Live
  <2>2. sessions[i].vault \in Profiles
    BY <2>1 DEF TypeOK, Session
  <2>3. shown' \subseteq Ids
    BY <1>0, <1>5, <1>c, <2>2 DEF View
  <2> QED
    BY <1>4, <1>5, <2>3 DEF View
<1>6. ASSUME NEW s \in Servers, NEW i \in Sids, NEW p \in Ids, Use(s, i, p)
      PROVE  TypeOK'
  <2>1. shown' \subseteq Ids
    BY <1>0, <1>6 DEF Use
  <2> QED
    BY <1>4, <1>6, <2>1 DEF Use
<1>7. ASSUME NEW s \in Servers, NEW i \in Sids, Lock(s, i)
      PROVE  TypeOK'
  <2>1. DOMAIN sessions' \subseteq DOMAIN sessions /\ \A j \in DOMAIN sessions' : sessions'[j] = sessions[j]
    BY <1>7 DEF Lock, Live
  <2>2. \A j \in DOMAIN sessions : sessions[j].server # s => j \in Live(s) \ {i}
    BY <1>7 DEF Lock, Live
  <2>3. sessions' = [j \in Live(s) \ {i} |-> sessions[j]] /\ Live(s) \subseteq DOMAIN sessions
    BY <1>7 DEF Lock, Live
  <2>4. OthersKept(s, sessions')
    BY <2>2, <2>3 DEF OthersKept
  <2>5. sessions' \in [DOMAIN sessions' -> Session]
    BY <2>3 DEF TypeOK
  <2>6. Table(sessions', opened)
    BY <1>0, <2>1, <2>5 DEF Table
  <2>7. TaskShape(task', sessions')
    BY <1>7, <2>4, FreeStep DEF Lock
  <2> QED
    BY <1>0, <1>7, <2>6, <2>7, TypeParts DEF Lock, history
<1>8. ASSUME NEW s \in Servers, BeginUnlock(s) \/ BeginSetup(s)
      PROVE  TypeOK'
  <2>1. Table(sessions', opened) /\ OthersKept(s, sessions')
    BY <1>8, PruneEffect DEF BeginUnlock, BeginSetup
  <2>2. CASE BeginUnlock(s)
    <3>1. [op |-> "unlock", profiles |-> file] \in Task
      BY <1>0, <2>2 DEF BeginUnlock, Task
    <3>2. TaskShape(task', sessions')
      BY <2>1, <2>2, <3>1, TaskStep DEF BeginUnlock
    <3> QED
      BY <1>0, <2>1, <2>2, <3>2, TypeParts DEF BeginUnlock, history
  <2>3. CASE BeginSetup(s)
    <3>1. [op |-> "setup"] \in Task
      BY DEF Task
    <3>2. TaskShape(task', sessions')
      BY <2>1, <2>3, <3>1, TaskStep DEF BeginSetup
    <3> QED
      BY <1>0, <2>1, <2>3, <3>2, TypeParts DEF BeginSetup, history
  <2> QED
    BY <1>8, <2>2, <2>3
<1>9. ASSUME NEW s \in Servers, NEW v \in Profiles, Open(s, v), Goes(s, Idle),
             file' \in Profiles \cup {None}, UNCHANGED <<now, minted, shown>>
      PROVE  TypeOK'
  <2>1. /\ opened + 1 \in Sids /\ opened' \in 0..MaxSessions
        /\ Table(sessions', opened') /\ OthersKept(s, sessions')
    BY <1>9, OpenEffect
  <2>2. TaskShape(task', sessions')
    BY <1>9, <1>a, <2>1, TaskStep
  <2>3. own' \in [Sids -> Nat] /\ login' \in [Sids -> Nat]
    BY <1>9, <1>b, <2>1 DEF Open
  <2> QED
    BY <1>0, <1>9, <2>1, <2>2, <2>3, TypeParts
<1>10. ASSUME NEW s \in Servers, FinishUnlock(s)
       PROVE  TypeOK'
  <2>1. task[s] \in [op : {"unlock"}, profiles : Profiles]
    BY <1>10 DEF FinishUnlock, TypeOK, Task, Idle
  <2> QED
    BY <1>0, <1>9, <1>10, <2>1 DEF FinishUnlock
<1>11. ASSUME NEW s \in Servers, FinishSetup(s)
       PROVE  TypeOK'
  BY <1>9, <1>11, WrittenVaults DEF FinishSetup
<1>12. ASSUME NEW s \in Servers, NEW i \in Sids, NEW u \in Task, u.op \in {"new", "rename"},
              u.sid = i, OwnRequest(s, i), Goes(s, u), UNCHANGED <<now, file, minted, opened, login, shown>>
       PROVE  TypeOK'
  <2>1. /\ Table(sessions', opened) /\ OthersKept(s, sessions')
        /\ i \in DOMAIN sessions' /\ sessions'[i].server = s
    BY <1>12, OwnRequestEffect
  <2>2. TaskShape(task', sessions')
    BY <1>12, <2>1, TaskStep
  <2>3. own' \in [Sids -> Nat]
    BY <1>12, <1>b DEF OwnRequest
  <2> QED
    BY <1>0, <1>12, <2>1, <2>2, <2>3, TypeParts
<1>13. ASSUME NEW s \in Servers, NEW i \in Sids, NEW n \in Names, BeginNew(s, i, n)
       PROVE  TypeOK'
  <2> DEFINE u == [op |-> "new", sid |-> i, name |-> n, profiles |-> file]
  <2>1. u \in Task
    BY <1>0, <1>13 DEF BeginNew, Task
  <2> QED
    BY <1>12, <1>13, <2>1 DEF BeginNew
<1>14. ASSUME NEW s \in Servers, NEW i \in Sids, NEW n \in Names, NEW p \in Ids, BeginRename(s, i, p, n)
       PROVE  TypeOK'
  <2> DEFINE u == [op |-> "rename", sid |-> i, id |-> p, name |-> n, profiles |-> file]
  <2>1. file \in Profiles /\ p \in DOMAIN file
    BY <1>0, <1>14 DEF BeginRename
  <2>2. u \in Task
    BY <2>1 DEF Task
  <2> QED
    BY <1>12, <1>14, <2>2 DEF BeginRename
<1>15. ASSUME NEW s \in Servers, NEW i \in Sids, NEW v \in Profiles, NEW p \in Ids, Written(s, i, v, p),
              minted' \in 0..MaxIdentities
       PROVE  TypeOK'
  <2>1. Table(sessions', opened) /\ OthersKept(s, sessions')
    BY <1>15, ShareEffect DEF Written
  <2>2. TaskShape(task', sessions')
    BY <1>15, <1>a, <2>1, TaskStep DEF Written
  <2>3. own' \in [Sids -> Nat] /\ shown' \subseteq Ids
    BY <1>0, <1>15, <1>b DEF Written
  <2> QED
    BY <1>0, <1>15, <2>1, <2>2, <2>3, TypeParts DEF Written
<1>16. ASSUME NEW s \in Servers, FinishNew(s)
       PROVE  TypeOK'
  <2>1. minted' \in 0..MaxIdentities
    BY <1>0, <1>16 DEF FinishNew
  <2>2. task[s].sid \in Sids
    BY <1>16 DEF FinishNew, TypeOK, Task, Idle
  <2>3. minted + 1 \in Ids /\ WithNew(task[s]) \in Profiles
    BY <1>16, WrittenVaults DEF FinishNew
  <2> QED
    BY <1>15, <1>16, <2>1, <2>2, <2>3 DEF FinishNew
<1>17. ASSUME NEW s \in Servers, FinishRename(s)
       PROVE  TypeOK'
  <2>1. task[s].sid \in Sids /\ task[s].id \in Ids
    BY <1>17 DEF FinishRename, TypeOK, Task, Idle
  <2>2. Renamed(task[s]) \in Profiles
    BY <1>17, WrittenVaults DEF FinishRename
  <2> QED
    BY <1>0, <1>15, <1>17, <2>1, <2>2 DEF FinishRename
<1>18. ASSUME NEW s \in Servers, Fail(s)
       PROVE  TypeOK'
  <2>1. OthersKept(s, sessions') /\ UNCHANGED <<now, file, minted, sessions, opened, login, own, shown>>
    BY <1>18 DEF Fail, OthersKept, memory, history
  <2>2. TaskShape(task', sessions')
    BY <1>18, <1>a, <2>1, TaskStep DEF Fail
  <2> QED
    BY <1>0, <2>1, <2>2, TypeParts
<1>19. ASSUME NEW s \in Servers, Restarted(s), file' \in Profiles \cup {None}, minted' \in 0..MaxIdentities
       PROVE  TypeOK'
  <2> DEFINE R == {j \in DOMAIN sessions : sessions[j].server # s}
  <2>1. sessions' = [i \in R |-> sessions[i]] /\ DOMAIN sessions' = R
    BY <1>19 DEF Restarted
  <2>2. sessions' \in [DOMAIN sessions' -> Session]
    BY <2>1 DEF TypeOK
  <2>3. Table(sessions', opened) /\ OthersKept(s, sessions')
    BY <1>0, <2>1, <2>2 DEF Table, OthersKept
  <2>4. TaskShape(task', sessions')
    BY <1>19, <1>a, <2>3, TaskStep DEF Restarted
  <2> QED
    BY <1>0, <1>19, <2>3, <2>4, TypeParts DEF Restarted, history
<1>20. ASSUME NEW s \in Servers, Crash(s)
       PROVE  TypeOK'
  BY <1>0, <1>19, <1>20 DEF Crash
<1>21. ASSUME NEW s \in Servers, CrashAfterWrite(s)
       PROVE  TypeOK'
  <2>1. file' \in Profiles
    BY <1>21, WrittenVaults DEF CrashAfterWrite
  <2>2. minted' \in 0..MaxIdentities
    BY <1>0, <1>21 DEF CrashAfterWrite
  <2> QED
    BY <1>19, <1>21, <2>1, <2>2 DEF CrashAfterWrite
<1> QED
  BY <1>1, <1>2, <1>3, <1>5, <1>6, <1>7, <1>8, <1>10, <1>11, <1>13, <1>14, <1>16, <1>17, <1>18,
     <1>20, <1>21 DEF Next, Step

\* Types of Keymaster's file, sessions and requests; a request that changes the
\* vault has its session to the end, whoever else is at work (app.py).
THEOREM TypeCorrect == Spec => []TypeOK
BY InitType, NextType, PTL DEF Spec

--------------------------------------------------------------------------------
(* Timeouts *)

\* ClockInv after a step is ClockInv of the new records and the new requests.
LEMMA NextClock == TypeOK /\ ClockInv /\ [Next]_vars => ClockInv'
<1> SUFFICES ASSUME TypeOK, ClockInv, [Next]_vars PROVE ClockInv'
  OBVIOUS
<1>0. /\ task \in [Servers -> Task] /\ own \in [Sids -> Nat] /\ login \in [Sids -> Nat]
      /\ DOMAIN sessions \subseteq Sids
      /\ Idle.op \notin {"new", "rename"}
  BY ConstantShape DEF TypeOK, Idle, Sids
<1>1. CASE UNCHANGED vars
  BY <1>1 DEF vars, memory, history, ClockInv
<1>2. CASE Tick
  <2>1. \A s \in Servers : task'[s].op \notin {"new", "rename"}
    BY <1>0, <1>2 DEF Tick, Free
  <2> QED
    BY <1>2, <2>1 DEF Tick, memory, history, ClockInv
\* Sessions disappear, requests end or begin without being of the writing kind.
<1>3. ASSUME \A j \in DOMAIN sessions' : j \in DOMAIN sessions /\ sessions'[j] = sessions[j],
             \A s \in Servers : task'[s] = task[s] \/ task'[s].op \notin {"new", "rename"},
             UNCHANGED <<now, login, own>>
      PROVE  ClockInv'
  BY <1>3 DEF ClockInv
<1>4. ASSUME NEW s \in Servers, Visit(s) \/ BeginUnlock(s) \/ BeginSetup(s)
      PROVE  ClockInv'
  <2>1. \A j \in DOMAIN sessions' : j \in DOMAIN sessions /\ sessions'[j] = sessions[j]
    BY <1>4, PruneEffect DEF Visit, BeginUnlock, BeginSetup
  <2>2. \A t \in Servers : task'[t] = task[t] \/ task'[t].op \notin {"new", "rename"}
    BY <1>0, <1>4 DEF Visit, BeginUnlock, BeginSetup, Goes
  <2> QED
    BY <1>3, <1>4, <2>1, <2>2 DEF Visit, BeginUnlock, BeginSetup, history
<1>5. ASSUME NEW s \in Servers, NEW i \in Sids, Lock(s, i)
      PROVE  ClockInv'
  <2>1. \A j \in DOMAIN sessions' : j \in DOMAIN sessions /\ sessions'[j] = sessions[j]
    BY <1>5 DEF Lock, Live
  <2> QED
    BY <1>3, <1>5, <2>1 DEF Lock, history
<1>6. ASSUME NEW s \in Servers, NEW i \in Sids, OwnRequest(s, i), UNCHANGED <<now, login>>,
             \A t \in Servers :
               task'[t].op \in {"new", "rename"} => task'[t] = task[t] \/ task'[t].sid = i
      PROVE  ClockInv'
  <2>1. /\ i \in DOMAIN sessions' /\ sessions'[i].seen = now
        /\ \A j \in DOMAIN sessions' : Same(sessions', j)
        /\ \A j \in DOMAIN sessions' : j # i => sessions'[j].seen = sessions[j].seen
    BY <1>6, OwnRequestEffect
  <2>2. own' = [own EXCEPT ![i] = now]
    BY <1>6 DEF OwnRequest
  <2>3. own'[i] = now /\ \A j \in Sids : j # i => own'[j] = own[j]
    BY <1>0, <2>2
  <2>4. \A j \in DOMAIN sessions' : sessions'[j].seen = own'[j] /\ sessions'[j].created = login'[j]
    BY <1>0, <1>6, <2>1, <2>3 DEF Same, ClockInv
  <2>5. ASSUME NEW t \in Servers, task'[t].op \in {"new", "rename"}
        PROVE  own'[task'[t].sid] = now'
    <3>1. CASE task'[t].sid = i
      BY <1>6, <2>3, <3>1
    <3>2. CASE task'[t] = task[t] /\ task[t].sid # i
      <4>1. task[t].sid \in Sids
        BY <1>0, <2>5, <3>2 DEF TypeOK
      <4> QED
        BY <1>6, <2>3, <2>5, <3>2, <4>1 DEF ClockInv
    <3> QED
      BY <1>6, <2>5, <3>1, <3>2
  <2> QED
    BY <2>4, <2>5 DEF ClockInv
<1>7. ASSUME NEW s \in Servers, NEW i \in Sids, NEW p, View(s, i) \/ Use(s, i, p)
      PROVE  ClockInv'
  <2>1. OwnRequest(s, i) /\ UNCHANGED <<now, login, task>>
    BY <1>7 DEF View, Use
  <2> QED
    BY <1>6, <2>1
<1>8. ASSUME NEW s \in Servers, NEW i \in Sids, NEW n, NEW p,
             BeginNew(s, i, n) \/ BeginRename(s, i, p, n)
      PROVE  ClockInv'
  <2>1. \A t \in Servers :
          task'[t].op \in {"new", "rename"} => task'[t] = task[t] \/ task'[t].sid = i
    BY <1>0, <1>8 DEF BeginNew, BeginRename, Goes
  <2> QED
    BY <1>6, <1>8, <2>1 DEF BeginNew, BeginRename
<1>9. ASSUME NEW s \in Servers, NEW v \in Profiles, Open(s, v), Goes(s, Idle), UNCHANGED now
      PROVE  ClockInv'
  <2>1. /\ opened + 1 \in Sids
        /\ sessions'[opened + 1] = [server |-> s, vault |-> v, created |-> now, seen |-> now]
        /\ \A j \in DOMAIN sessions' :
             j # opened + 1 => j \in DOMAIN sessions /\ sessions'[j] = sessions[j]
        /\ \A j \in DOMAIN sessions : j # opened + 1
    BY <1>9, OpenEffect
  <2>2. /\ own' = [own EXCEPT ![opened + 1] = now]
        /\ login' = [login EXCEPT ![opened + 1] = now]
    BY <1>9 DEF Open
  <2>3. /\ own'[opened + 1] = now /\ login'[opened + 1] = now
        /\ \A j \in Sids : j # opened + 1 => own'[j] = own[j] /\ login'[j] = login[j]
    BY <1>0, <2>1, <2>2
  <2>4. \A j \in DOMAIN sessions' : sessions'[j].seen = own'[j] /\ sessions'[j].created = login'[j]
    BY <1>0, <2>1, <2>3 DEF ClockInv
  <2>5. ASSUME NEW t \in Servers, task'[t].op \in {"new", "rename"}
        PROVE  own'[task'[t].sid] = now'
    <3>1. task'[t] = task[t]
      BY <1>0, <1>9, <2>5 DEF Goes
    <3>2. task[t].sid \in DOMAIN sessions
      BY <2>5, <3>1 DEF TypeOK
    <3> QED
      BY <1>0, <1>9, <2>1, <2>3, <2>5, <3>1, <3>2 DEF ClockInv
  <2> QED
    BY <2>4, <2>5 DEF ClockInv
<1>10. ASSUME NEW s \in Servers, FinishUnlock(s) \/ FinishSetup(s)
       PROVE  ClockInv'
  <2>1. CASE FinishUnlock(s)
    <3>1. task[s] \in [op : {"unlock"}, profiles : Profiles]
      BY <2>1 DEF FinishUnlock, TypeOK, Task, Idle
    <3> QED
      BY <1>9, <2>1, <3>1 DEF FinishUnlock
  <2>2. CASE FinishSetup(s)
    BY <1>9, <2>2, WrittenVaults DEF FinishSetup
  <2> QED
    BY <1>10, <2>1, <2>2
<1>11. ASSUME NEW s \in Servers, NEW v \in Profiles, NEW p \in Ids,
              task[s].op \in {"new", "rename"}, Written(s, task[s].sid, v, p)
       PROVE  ClockInv'
  <2> DEFINE i == task[s].sid
  <2>1. i \in DOMAIN sessions /\ i \in Sids /\ own[i] = now
    BY <1>0, <1>11 DEF TypeOK, ClockInv
  <2>2. own' = own
    BY <1>0, <1>11, <2>1 DEF Written
  <2>3. /\ DOMAIN sessions' = DOMAIN sessions
        /\ \A j \in DOMAIN sessions :
             /\ sessions'[j].created = sessions[j].created
             /\ sessions'[j].seen \in {sessions[j].seen, now}
             /\ j # i => sessions'[j].seen = sessions[j].seen
    BY <1>11, ShareEffect DEF Written
  <2>4. \A j \in DOMAIN sessions' : sessions'[j].seen = own'[j] /\ sessions'[j].created = login'[j]
    BY <1>11, <2>1, <2>2, <2>3 DEF Written, ClockInv
  <2>5. ASSUME NEW t \in Servers, task'[t].op \in {"new", "rename"}
        PROVE  own'[task'[t].sid] = now'
    BY <1>0, <1>11, <2>2, <2>5 DEF Written, Goes, ClockInv
  <2> QED
    BY <2>4, <2>5 DEF ClockInv
<1>12. ASSUME NEW s \in Servers, FinishNew(s)
       PROVE  ClockInv'
  BY <1>11, <1>12, WrittenVaults DEF FinishNew
<1>13. ASSUME NEW s \in Servers, FinishRename(s)
       PROVE  ClockInv'
  <2>1. task[s].id \in Ids
    BY <1>13 DEF FinishRename, TypeOK, Task, Idle
  <2> QED
    BY <1>11, <1>13, <2>1, WrittenVaults DEF FinishRename
<1>14. ASSUME NEW s \in Servers, Fail(s) \/ Restarted(s)
       PROVE  ClockInv'
  <2>1. \A j \in DOMAIN sessions' : j \in DOMAIN sessions /\ sessions'[j] = sessions[j]
    BY <1>14 DEF Fail, Restarted, memory
  <2>2. \A t \in Servers : task'[t] = task[t] \/ task'[t].op \notin {"new", "rename"}
    BY <1>0, <1>14 DEF Fail, Restarted, Goes
  <2> QED
    BY <1>3, <1>14, <2>1, <2>2 DEF Fail, Restarted, history
<1>15. ASSUME NEW s \in Servers, Crash(s) \/ CrashAfterWrite(s)
       PROVE  ClockInv'
  BY <1>14, <1>15 DEF Crash, CrashAfterWrite
<1> QED
  BY <1>1, <1>2, <1>4, <1>5, <1>7, <1>8, <1>10, <1>12, <1>13, <1>14, <1>15 DEF Next, Step

LEMMA InitClock == Init => ClockInv
BY DEF Init, ClockInv, Idle

\* The records of app.py's sessions agree with the history, in every reachable
\* state: the invariant behind WithinLimits.
THEOREM ClockInvariant == Spec => [](TypeOK /\ ClockInv)
<1>1. Init => TypeOK /\ ClockInv
  BY InitType, InitClock
<1>2. TypeOK /\ ClockInv /\ [Next]_vars => (TypeOK /\ ClockInv)'
  BY NextType, NextClock
<1> QED
  BY <1>1, <1>2, PTL DEF Spec

\* No step lets session i be used beyond its limits.
InTime(i) ==
  (i <= opened /\ own'[i] # own[i]) =>
    own'[i] - own[i] <= IdleTimeout /\ own'[i] - login[i] <= MaxLifetime

\* SessionRecord.is_expired and replace_session_vault: however many tabs and
\* processes write, a session is used only within the idle timeout of its own
\* last request and the maximum lifetime of its login.
THEOREM SessionsExpire == Spec => WithinLimits
<1>1. TypeOK /\ ClockInv /\ [Next]_vars => [\A i \in Sids : InTime(i)]_vars
  <2> SUFFICES ASSUME TypeOK, ClockInv, Next, NEW i \in Sids, i <= opened, own'[i] # own[i]
               PROVE  own'[i] - own[i] <= IdleTimeout /\ own'[i] - login[i] <= MaxLifetime
    BY DEF InTime
  <2>0. own \in [Sids -> Nat] /\ login \in [Sids -> Nat] /\ opened \in Nat
        /\ now \in Nat /\ IdleTimeout \in Nat /\ MaxLifetime \in Nat
    BY ConstantShape DEF TypeOK
  \* A session is used by a request of its own ...
  <2>1. ASSUME NEW s \in Servers, NEW j \in Sids, OwnRequest(s, j)
        PROVE  own'[i] - own[i] <= IdleTimeout /\ own'[i] - login[i] <= MaxLifetime
    <3>1. own' = [own EXCEPT ![j] = now]
      BY <2>1 DEF OwnRequest
    <3>2. i = j /\ own'[i] = now
      BY <2>0, <3>1
    <3>3. i \in DOMAIN sessions
      BY <2>1, <3>2 DEF OwnRequest, Unlocked, Live
    <3>4. ~ Expired(sessions[i])
      BY <2>1, <3>2, OwnRequestEffect
    <3>5. sessions[i].seen = own[i] /\ sessions[i].created = login[i]
      BY <3>3 DEF ClockInv
    <3> QED
      BY <2>0, <3>2, <3>4, <3>5 DEF Expired
  \* ... is new ...
  <2>2. ASSUME NEW s \in Servers, NEW v, Open(s, v)
        PROVE  FALSE
    <3>1. own' = [own EXCEPT ![opened + 1] = now] /\ i # opened + 1
      BY <2>0, <2>2 DEF Open
    <3> QED
      BY <2>0, <3>1
  \* ... or is that of a request which began at this instant.
  <2>3. ASSUME NEW s \in Servers, NEW v, NEW p, task[s].op \in {"new", "rename"},
               Written(s, task[s].sid, v, p)
        PROVE  FALSE
    <3>1. own[task[s].sid] = now /\ own' = [own EXCEPT ![task[s].sid] = now]
      BY <2>3 DEF ClockInv, Written
    <3> QED
      BY <2>0, <3>1
  <2>4. ASSUME NEW s \in Servers, FinishNew(s) \/ FinishRename(s)
        PROVE  FALSE
    BY <2>3, <2>4 DEF FinishNew, FinishRename
  <2>5. ASSUME NEW s \in Servers, FinishUnlock(s) \/ FinishSetup(s)
        PROVE  FALSE
    BY <2>2, <2>5 DEF FinishUnlock, FinishSetup
  <2>6. ~ Tick
    BY DEF Tick, history
  <2>7. PICK s \in Servers : Step(s)
    BY <2>6 DEF Next
  <2>8. ~ Visit(s) /\ ~ BeginUnlock(s) /\ ~ BeginSetup(s) /\ ~ Fail(s) /\ ~ Crash(s)
        /\ ~ CrashAfterWrite(s) /\ \A j \in Sids : ~ Lock(s, j)
    BY DEF Visit, BeginUnlock, BeginSetup, Fail, Crash, CrashAfterWrite, Restarted, Lock, history
  <2>9. CASE \E j \in Sids : View(s, j)
    BY <2>1, <2>9 DEF View
  <2>10. CASE \E j \in Sids : \E p \in Ids : Use(s, j, p)
    BY <2>1, <2>10 DEF Use
  <2>11. CASE \E j \in Sids, n \in Names : BeginNew(s, j, n)
    BY <2>1, <2>11 DEF BeginNew
  <2>12. CASE \E j \in Sids, n \in Names : \E p \in Ids : BeginRename(s, j, p, n)
    BY <2>1, <2>12 DEF BeginRename
  <2> QED
    BY <2>4, <2>5, <2>7, <2>8, <2>9, <2>10, <2>11, <2>12 DEF Step
<1> QED
  BY <1>1, ClockInvariant, PTL DEF Spec, WithinLimits, InTime

--------------------------------------------------------------------------------
(* One process *)

\* What tabs show and what is stored, between and within requests.
StoreInv == VaultInv /\ SessionsShowFile /\ ShownIsStored

LEMMA InitStore == Init => StoreInv
BY DEF Init, Idle, StoreInv, VaultInv, SessionsShowFile, ShownIsStored

\* The vault of a session, and the profiles of a request, are not None.
LEMMA NoNone ==
  ASSUME TypeOK
  PROVE  /\ \A j \in DOMAIN sessions : sessions[j].vault \in Profiles /\ sessions[j].vault # None
         /\ \A s \in Servers : task[s].op \in {"unlock", "new", "rename"} =>
              task[s].profiles \in Profiles /\ task[s].profiles # None
<1>1. \A j \in DOMAIN sessions : sessions[j].vault \in Profiles
  BY DEF TypeOK, Session
<1>2. \A s \in Servers : task[s].op \in {"unlock", "new", "rename"} => task[s].profiles \in Profiles
  BY DEF TypeOK, Task, Idle
<1> QED
  BY <1>1, <1>2, NoneIsNoFile

LEMMA NextStore == ASSUME OneServer PROVE TypeOK /\ StoreInv /\ [Next]_vars => StoreInv'
<1> SUFFICES ASSUME OneServer, TypeOK, StoreInv, [Next]_vars PROVE StoreInv'
  OBVIOUS
<1>0. /\ task \in [Servers -> Task]
      /\ \A j \in DOMAIN sessions : sessions[j].server \in Servers
      /\ Idle.op \notin {"setup", "unlock", "new", "rename"}
      /\ VaultInv /\ SessionsShowFile /\ ShownIsStored
  BY DEF TypeOK, Session, Idle, StoreInv
<1>1. CASE UNCHANGED vars
  BY <1>0, <1>1 DEF vars, memory, history, StoreInv, VaultInv, SessionsShowFile, ShownIsStored
\* The file stays, no new vault is in memory, nothing is shown that no session
\* has, and a request holds what is in the file.
<1>2. ASSUME UNCHANGED file,
             \A j \in DOMAIN sessions' : j \in DOMAIN sessions /\ sessions'[j].vault = sessions[j].vault,
             shown' = shown \/ \E j \in DOMAIN sessions : shown' \subseteq shown \cup DOMAIN sessions[j].vault,
             \A s \in Servers :
               /\ task'[s].op = "setup" => task[s].op = "setup" \/ file = None
               /\ task'[s].op \in {"unlock", "new", "rename"} => task'[s] = task[s] \/ task'[s].profiles = file
      PROVE  StoreInv'
  <2>1. SessionsShowFile'
    BY <1>0, <1>2 DEF SessionsShowFile
  <2>2. ShownIsStored'
    BY <1>0, <1>2, NoNone DEF ShownIsStored, SessionsShowFile
  <2>3. file' = None => DOMAIN sessions' = {} /\ shown' = {}
    BY <1>0, <1>2 DEF VaultInv
  <2>4. VaultInv'
    BY <1>0, <1>2, <2>3 DEF VaultInv
  <2> QED
    BY <2>1, <2>2, <2>4 DEF StoreInv
<1>3. CASE Tick
  BY <1>2, <1>3 DEF Tick, memory, history
<1>4. ASSUME NEW s \in Servers, Visit(s) \/ BeginUnlock(s) \/ BeginSetup(s)
      PROVE  StoreInv'
  <2>1. \A j \in DOMAIN sessions' : j \in DOMAIN sessions /\ sessions'[j] = sessions[j]
    BY <1>4, PruneEffect DEF Visit, BeginUnlock, BeginSetup
  <2>2. \A t \in Servers :
          /\ task'[t].op = "setup" => task[t].op = "setup" \/ file = None
          /\ task'[t].op \in {"unlock", "new", "rename"} => task'[t] = task[t] \/ task'[t].profiles = file
    BY <1>0, <1>4 DEF Visit, BeginUnlock, BeginSetup, Goes, MaySetUp
  <2> QED
    BY <1>2, <1>4, <2>1, <2>2 DEF Visit, BeginUnlock, BeginSetup, history
<1>5. ASSUME NEW s \in Servers, NEW i \in Sids, Lock(s, i)
      PROVE  StoreInv'
  <2>1. \A j \in DOMAIN sessions' : j \in DOMAIN sessions /\ sessions'[j] = sessions[j]
    BY <1>5 DEF Lock, Live
  <2> QED
    BY <1>2, <1>5, <2>1 DEF Lock, history
<1>6. ASSUME NEW s \in Servers, NEW i \in Sids, OwnRequest(s, i), UNCHANGED file,
             shown' \subseteq shown \cup DOMAIN sessions[i].vault,
             \A t \in Servers :
               /\ task'[t].op = "setup" => task[t].op = "setup"
               /\ task'[t].op \in {"unlock", "new", "rename"} => task'[t] = task[t] \/ task'[t].profiles = file
      PROVE  StoreInv'
  <2>1. \A j \in DOMAIN sessions' : j \in DOMAIN sessions /\ sessions'[j].vault = sessions[j].vault
    BY <1>6, OwnRequestEffect DEF Same
  <2>2. i \in DOMAIN sessions
    BY <1>6 DEF OwnRequest, Unlocked, Live
  <2> QED
    BY <1>2, <1>6, <2>1, <2>2
<1>7. ASSUME NEW s \in Servers, NEW i \in Sids, NEW p, View(s, i) \/ Use(s, i, p)
      PROVE  StoreInv'
  <2>1. OwnRequest(s, i) /\ UNCHANGED <<file, task>> /\ shown' \subseteq shown \cup DOMAIN sessions[i].vault
    BY <1>7 DEF View, Use
  <2> QED
    BY <1>6, <2>1
<1>8. ASSUME NEW s \in Servers, NEW i \in Sids, NEW n, NEW p,
             BeginNew(s, i, n) \/ BeginRename(s, i, p, n)
      PROVE  StoreInv'
  <2>1. \A t \in Servers :
          /\ task'[t].op = "setup" => task[t].op = "setup"
          /\ task'[t].op \in {"unlock", "new", "rename"} => task'[t] = task[t] \/ task'[t].profiles = file
    BY <1>0, <1>8 DEF BeginNew, BeginRename, Goes
  <2> QED
    BY <1>6, <1>8, <2>1 DEF BeginNew, BeginRename
\* A session is opened on the vault in the file, and everything shown is in it.
<1>9. ASSUME NEW s \in Servers, NEW v \in Profiles, Open(s, v), Goes(s, Idle), file' = v, UNCHANGED shown,
             \A j \in DOMAIN sessions : sessions[j].vault = v,
             \A p \in shown : p \in DOMAIN v
      PROVE  StoreInv'
  <2>1. /\ sessions'[opened + 1] = [server |-> s, vault |-> v, created |-> now, seen |-> now]
        /\ \A j \in DOMAIN sessions' :
             j # opened + 1 => j \in DOMAIN sessions /\ sessions'[j] = sessions[j]
    BY <1>9, OpenEffect
  <2>2. file' # None
    BY <1>9, NoneIsNoFile
  <2>3. SessionsShowFile' /\ ShownIsStored'
    BY <1>9, <2>1, <2>2 DEF SessionsShowFile, ShownIsStored
  <2>4. \A t \in Servers : task'[t].op \notin {"setup", "unlock", "new", "rename"}
    BY <1>0, <1>9 DEF Goes, OneServer
  <2> QED
    BY <2>2, <2>3, <2>4 DEF StoreInv, VaultInv
<1>10. ASSUME NEW s \in Servers, FinishUnlock(s)
       PROVE  StoreInv'
  <2>1. task[s].profiles = file /\ file \in Profiles /\ file # None
    BY <1>0, <1>10, NoNone DEF FinishUnlock, VaultInv
  <2> QED
    BY <1>0, <1>9, <1>10, <2>1 DEF FinishUnlock, SessionsShowFile, ShownIsStored
<1>11. ASSUME NEW s \in Servers, FinishSetup(s)
       PROVE  StoreInv'
  <2>1. DOMAIN sessions = {} /\ shown = {}
    BY <1>0, <1>11 DEF FinishSetup, VaultInv
  <2> QED
    BY <1>9, <1>11, <2>1, WrittenVaults DEF FinishSetup
\* A write keeps every identity of the file, or adds one.
<1>12. ASSUME NEW s \in Servers, NEW v \in Profiles, NEW p, task[s].op \in {"new", "rename"},
              Written(s, task[s].sid, v, p),
              DOMAIN task[s].profiles \subseteq DOMAIN v, p \in DOMAIN v
       PROVE  StoreInv'
  <2>1. task[s].profiles = file
    BY <1>0, <1>12 DEF VaultInv
  <2>2. /\ DOMAIN sessions' = DOMAIN sessions
        /\ \A j \in DOMAIN sessions : sessions[j].server = s => sessions'[j].vault = v
    BY <1>12, ShareEffect DEF Written
  <2>3. SessionsShowFile'
    BY <1>0, <1>12, <2>2 DEF SessionsShowFile, Written, OneServer
  <2>4. v # None
    BY NoneIsNoFile
  <2>5. ShownIsStored'
    BY <1>0, <1>12, <2>1, <2>4 DEF ShownIsStored, Written
  <2>6. \A t \in Servers : task'[t].op \notin {"setup", "unlock", "new", "rename"}
    BY <1>0, <1>12 DEF Written, Goes, OneServer
  <2> QED
    BY <1>12, <2>3, <2>4, <2>5, <2>6 DEF StoreInv, VaultInv, Written
<1>13. ASSUME NEW s \in Servers, FinishNew(s)
       PROVE  StoreInv'
  <2> DEFINE v == WithNew(task[s])
  <2>1. v \in Profiles /\ DOMAIN v = DOMAIN task[s].profiles \cup {minted + 1}
    BY <1>13, WrittenVaults DEF FinishNew
  <2>2. task[s].op = "new" /\ Written(s, task[s].sid, v, minted + 1)
    BY <1>13 DEF FinishNew
  <2>3. DOMAIN task[s].profiles \subseteq DOMAIN v /\ minted + 1 \in DOMAIN v
    BY <2>1
  <2> HIDE DEF v
  <2> QED
    BY <1>12, <2>1, <2>2, <2>3
<1>14. ASSUME NEW s \in Servers, FinishRename(s)
       PROVE  StoreInv'
  BY <1>12, <1>14, WrittenVaults DEF FinishRename
<1>15. ASSUME NEW s \in Servers, Fail(s)
       PROVE  StoreInv'
  <2>1. \A t \in Servers : task'[t] = task[t] \/ task'[t] = Idle
    BY <1>0, <1>15 DEF Fail, Goes
  <2> QED
    BY <1>0, <1>2, <1>15, <2>1 DEF Fail, memory, history
\* After a crash there is no session, and a write that was done kept what was shown.
<1>16. ASSUME NEW s \in Servers, Restarted(s), ShownIsStored'
       PROVE  StoreInv'
  <2>1. DOMAIN sessions' = {}
    BY <1>0, <1>16 DEF Restarted, OneServer
  <2>2. \A t \in Servers : task'[t].op \notin {"setup", "unlock", "new", "rename"}
    BY <1>0, <1>16 DEF Restarted, Goes, OneServer
  <2>3. file' = None => shown' = {}
    BY <1>16 DEF ShownIsStored
  <2> QED
    BY <1>16, <2>1, <2>2, <2>3 DEF StoreInv, VaultInv, SessionsShowFile
<1>17. ASSUME NEW s \in Servers, Crash(s)
       PROVE  StoreInv'
  <2>1. ShownIsStored'
    BY <1>0, <1>17 DEF Crash, Restarted, history, ShownIsStored
  <2> QED
    BY <1>16, <1>17, <2>1 DEF Crash
<1>18. ASSUME NEW s \in Servers, CrashAfterWrite(s)
       PROVE  StoreInv'
  <2>1. Restarted(s) /\ UNCHANGED shown
    BY <1>18 DEF CrashAfterWrite, Restarted, history
  <2>2. CASE task[s].op = "setup"
    <3>1. shown = {}
      BY <1>0, <2>2 DEF VaultInv
    <3> QED
      BY <1>16, <2>1, <3>1 DEF ShownIsStored
  <2>3. CASE task[s].op \in {"new", "rename"}
    <3>1. file' \in Profiles /\ DOMAIN task[s].profiles \subseteq DOMAIN file' /\ task[s].profiles = file
      BY <1>0, <1>18, <2>3, WrittenVaults DEF CrashAfterWrite, VaultInv
    <3>2. ShownIsStored'
      BY <1>0, <2>1, <3>1, NoneIsNoFile DEF ShownIsStored
    <3> QED
      BY <1>16, <2>1, <3>2
  <2> QED
    BY <1>18, <2>2, <2>3 DEF CrashAfterWrite
<1> QED
  BY <1>1, <1>3, <1>4, <1>5, <1>7, <1>8, <1>10, <1>11, <1>13, <1>14, <1>15, <1>17, <1>18 DEF Next, Step

\* Together with the types, for a single process.
OneInv == OneServer /\ TypeOK /\ StoreInv

LEMMA StoreInvariant == OneServer /\ Spec => []StoreInv
<1>1. OneServer /\ Init => OneInv
  BY InitType, InitStore DEF OneInv
<1>2. OneInv /\ [Next]_vars => OneInv'
  BY NextType, NextStore DEF OneInv, OneServer
<1>3. OneInv => StoreInv
  BY DEF OneInv
<1> QED
  BY <1>1, <1>2, <1>3, PTL DEF Spec

\* identities_new_post, identity_rename_post, setup_post: while one process has the
\* file, an identity that a browser was shown is in it.
THEOREM NoIdentityLost == OneServer /\ Spec => []ShownIsStored
<1>1. StoreInv => ShownIsStored
  BY DEF StoreInv
<1> QED
  BY <1>1, StoreInvariant, PTL

\* replace_session_vault: while one process has the file, every tab shows it.
THEOREM TabsShowTheFile == OneServer /\ Spec => []SessionsShowFile
<1>1. StoreInv => SessionsShowFile
  BY DEF StoreInv
<1> QED
  BY <1>1, StoreInvariant, PTL
================================================================================
