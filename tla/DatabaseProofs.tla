---------------------------- MODULE DatabaseProofs ----------------------------
(***************************************************************************)
(* Proofs about the core's database: its schema, the registry kept in it,  *)
(* and the state beside the registry.                                      *)
(*                                                                         *)
(* The schema, for every list of scripts, every number of processes that   *)
(* start at once and crashes anywhere: SchemaInv adds to the properties    *)
(* what a process has behind it.                                           *)
(*                                                                         *)
(* The registry: IInv is inductive: the types, that dials exist only under *)
(* registered modules (so a new module's row finds none) and that the      *)
(* legacy routes are those of the first dials.                             *)
(*                                                                         *)
(* Beside it: the new handlers leave the registry alone, or bind a free    *)
(* name, so every theorem about Registry holds here; on it rest the proofs *)
(* that what a module said stays under the module's key and that the       *)
(* copies in core_genesis are the rows they were copied from.              *)
(***************************************************************************)
EXTENDS EntityState, Migrations, WellFoundedInduction, TLAPS

--------------------------------------------------------------------------------
(* The schema *)


\* What a process has behind it: the versions before the one it is at are
\* recorded, and the statements before the next one took effect.
Behind(r) ==
  /\ r.at # "off" => 1..(r.version - 1) \subseteq recorded
  /\ r.at = "script" =>
       /\ r.version \in Versions
       /\ r.next <= Len(Script[r.version]) + 1
       /\ {r.version} \X (1..(r.next - 1)) \subseteq applied
  /\ r.at = "up" => r.version \notin Versions

SchemaInv ==
  /\ SchemaTypeOK
  /\ RecordedIsApplied
  /\ \A p \in Processes : Behind(proc[p])

\* Scripts have a length; statements are numbered from 1.
LEMMA Lengths ==
  /\ Len(Script) \in Nat
  /\ \A v \in Versions : Script[v] \in Seq(Kinds) /\ Len(Script[v]) \in Nat
BY ScriptShape DEF Versions

\* The tables only grow, and what is behind a process stays behind it.
LEMMA BehindStays ==
  ASSUME NEW r, Behind(r), recorded \subseteq recorded', applied \subseteq applied'
  PROVE  Behind(r)'
BY DEF Behind

\* A step that moves p from where it is to r, with Behind(r) afterwards.
LEMMA Moved ==
  ASSUME SchemaInv, NEW p \in Processes, NEW r, proc' = [proc EXCEPT ![p] = r],
         recorded \subseteq recorded', applied \subseteq applied', Behind(r)',
         SchemaTypeOK', RecordedIsApplied'
  PROVE  SchemaInv'
<1>1. \A q \in Processes : proc'[q] = (IF q = p THEN r ELSE proc[q])
  BY DEF SchemaInv, SchemaTypeOK
<1>2. \A q \in Processes : Behind(proc[q])'
  <2> SUFFICES ASSUME NEW q \in Processes PROVE Behind(proc[q])'
    OBVIOUS
  <2>1. CASE q = p
    BY <1>1, <2>1 DEF Behind
  <2>2. CASE q # p
    <3>1. Behind(proc[q])
      BY DEF SchemaInv
    <3> QED BY <1>1, <2>2, <3>1 DEF Behind
  <2> QED BY <2>1, <2>2
<1> QED BY <1>2 DEF SchemaInv

\* The initial state satisfies SchemaInv.
LEMMA SchemaStartsWell == SchemaInit => SchemaInv
<1> SUFFICES ASSUME SchemaInit PROVE SchemaInv
  OBVIOUS
<1>1. PICK k \in 0..Len(Script) :
        /\ recorded = 1..k
        /\ applied = UNION {Statements(v) : v \in 1..k}
        /\ legacy \in IF k = 0 THEN {{}} ELSE SUBSET Backfills
  BY DEF SchemaInit
<1>2. 1..k \subseteq Versions
  BY Lengths DEF Versions
<1>3. SchemaTypeOK
  <2>1. proc \in [Processes -> [at : {"off", "failed", "select", "script", "up"},
                                version : 1..(Len(Script) + 1), next : Nat \ {0}]]
    BY Lengths DEF SchemaInit, Off
  <2>2. crashed \in BOOLEAN
    BY Zenon DEF SchemaInit
  <2> QED BY <1>1, <1>2, <2>1, <2>2 DEF SchemaTypeOK
<1>4. RecordedIsApplied
  BY <1>1 DEF RecordedIsApplied
<1>5. \A p \in Processes : Behind(proc[p])
  BY DEF SchemaInit, Off, Behind
<1> QED BY <1>3, <1>4, <1>5 DEF SchemaInv

\* Every step keeps SchemaInv.
LEMMA SchemaStepKeeps == SchemaInv /\ [SchemaNext]_schemaVars => SchemaInv'
<1> SUFFICES ASSUME SchemaInv, [SchemaNext]_schemaVars PROVE SchemaInv'
  OBVIOUS
<1> USE Lengths
<1>0. SchemaTypeOK /\ RecordedIsApplied /\ \A p \in Processes : Behind(proc[p])
  BY DEF SchemaInv
<1>1. CASE UNCHANGED schemaVars
  BY <1>1 DEF schemaVars, SchemaInv, SchemaTypeOK, RecordedIsApplied, Behind
<1>2. ASSUME NEW p \in Processes, Start(p) PROVE SchemaInv'
  <2> DEFINE r == [at |-> "select", version |-> 1, next |-> 1]
  <2>1. SchemaTypeOK' /\ RecordedIsApplied'
    BY <1>0, <1>2 DEF Start, Goes, SchemaTypeOK, RecordedIsApplied
  <2>2. Behind(r)'
    BY DEF Behind
  <2> QED BY <1>2, <2>1, <2>2, Moved DEF Start, Goes
<1>3. ASSUME NEW p \in Processes, Look(p) PROVE SchemaInv'
  <2>0. PICK v : v = proc[p].version
    OBVIOUS
  <2>1. v \in 1..(Len(Script) + 1) /\ 1..(v - 1) \subseteq recorded
    BY <1>0, <1>3, <2>0 DEF Look, SchemaTypeOK, Behind
  <2>2. UNCHANGED <<recorded, applied, legacy, crashed>>
    BY <1>3 DEF Look
  <2>3. RecordedIsApplied'
    BY <1>0, <2>2 DEF RecordedIsApplied
  <2>4. CASE v \notin Versions
    <3> DEFINE r == [at |-> "up", version |-> v, next |-> 1]
    <3>1. Goes(p, "up", v, 1)
      BY <1>3, <2>0, <2>4 DEF Look
    <3>2. SchemaTypeOK'
      BY <1>0, <2>1, <2>2, <3>1 DEF Goes, SchemaTypeOK
    <3>3. Behind(r)'
      BY <2>1, <2>2, <2>4 DEF Behind
    <3> QED BY <2>2, <2>3, <3>1, <3>2, <3>3, Moved DEF Goes
  <2>5. CASE v \in Versions /\ Pending(v)
    <3> DEFINE r == [at |-> "script", version |-> v, next |-> 1]
    <3>1. Goes(p, "script", v, 1)
      BY <1>3, <2>0, <2>5 DEF Look
    <3>2. SchemaTypeOK'
      BY <1>0, <2>1, <2>2, <3>1 DEF Goes, SchemaTypeOK
    <3>3. Behind(r)'
      BY <2>1, <2>2, <2>5 DEF Behind
    <3> QED BY <2>2, <2>3, <3>1, <3>2, <3>3, Moved DEF Goes
  <2>6. CASE v \in Versions /\ ~ Pending(v)
    <3> DEFINE r == [at |-> "select", version |-> v + 1, next |-> 1]
    <3>1. Goes(p, "select", v + 1, 1)
      BY <1>3, <2>0, <2>6 DEF Look
    <3>2. SchemaTypeOK'
      BY <1>0, <2>1, <2>2, <2>6, <3>1 DEF Goes, SchemaTypeOK, Versions
    <3>3. Behind(r)'
      BY <2>1, <2>2, <2>6 DEF Behind, Pending
    <3> QED BY <2>2, <2>3, <3>1, <3>2, <3>3, Moved DEF Goes
  <2> QED BY <2>4, <2>5, <2>6
<1>4. ASSUME NEW p \in Processes, Execute(p) PROVE SchemaInv'
  <2>0. PICK v, n : v = proc[p].version /\ n = proc[p].next
    OBVIOUS
  <2> DEFINE r == [at |-> "script", version |-> v, next |-> n + 1]
  <2>1. /\ v \in Versions /\ n \in 1..Len(Script[v])
        /\ 1..(v - 1) \subseteq recorded /\ {v} \X (1..(n - 1)) \subseteq applied
    BY <1>0, <1>4, <2>0 DEF Execute, ScriptEnds, SchemaTypeOK, Behind
  <2>2. applied' = applied \cup {<<v, n>>} /\ UNCHANGED <<recorded, legacy, crashed>> /\ proc' = [proc EXCEPT ![p] = r]
    BY <1>4, <2>0 DEF Execute, Goes
  <2>3. SchemaTypeOK'
    BY <1>0, <2>1, <2>2 DEF SchemaTypeOK, Statements, Versions
  <2>4. RecordedIsApplied'
    BY <1>0, <2>2 DEF RecordedIsApplied
  <2>5. Behind(r)'
    <3>1. {v} \X (1..n) \subseteq applied'
      BY <2>1, <2>2
    <3> QED BY <2>1, <2>2, <3>1 DEF Behind
  <2> QED BY <2>2, <2>3, <2>4, <2>5, Moved
<1>5. ASSUME NEW p \in Processes, Record(p) PROVE SchemaInv'
  <2>0. PICK v : v = proc[p].version
    OBVIOUS
  <2> DEFINE r == [at |-> "select", version |-> v + 1, next |-> 1]
  <2>1. /\ v \in Versions /\ proc[p].next = Len(Script[v]) + 1
        /\ 1..(v - 1) \subseteq recorded /\ {v} \X (1..(proc[p].next - 1)) \subseteq applied
    BY <1>0, <1>5, <2>0 DEF Record, ScriptEnds, SchemaTypeOK, Behind
  <2>2. Statements(v) \subseteq applied
    BY <2>1 DEF Statements
  <2>3. recorded' = recorded \cup {v} /\ UNCHANGED <<applied, legacy, crashed>> /\ proc' = [proc EXCEPT ![p] = r]
    BY <1>5, <2>0 DEF Record, Goes
  <2>4. SchemaTypeOK'
    BY <1>0, <2>1, <2>3 DEF SchemaTypeOK, Versions
  <2>5. RecordedIsApplied'
    BY <1>0, <2>2, <2>3 DEF RecordedIsApplied
  <2>6. Behind(r)'
    BY <2>1, <2>3 DEF Behind, Versions
  <2> QED BY <2>3, <2>4, <2>5, <2>6, Moved
<1>6. ASSUME NEW p \in Processes, Raise(p) PROVE SchemaInv'
  <2> DEFINE r == [at |-> "failed", version |-> 1, next |-> 1]
  <2>1. SchemaTypeOK' /\ RecordedIsApplied'
    BY <1>0, <1>6 DEF Raise, Goes, SchemaTypeOK, RecordedIsApplied
  <2>2. Behind(r)'
    BY DEF Behind
  <2> QED BY <1>6, <2>1, <2>2, Moved DEF Raise, Goes
<1>7. ASSUME NEW p \in Processes, Crash(p) PROVE SchemaInv'
  <2>1. SchemaTypeOK' /\ RecordedIsApplied'
    BY <1>0, <1>7 DEF Crash, Off, SchemaTypeOK, RecordedIsApplied
  <2>2. Behind(Off)'
    BY DEF Behind, Off
  <2> QED BY <1>7, <2>1, <2>2, Moved DEF Crash
<1> QED BY <1>1, <1>2, <1>3, <1>4, <1>5, <1>6, <1>7 DEF SchemaNext, Step

LEMMA SchemaInvHolds == SchemaSpec => []SchemaInv
BY SchemaStartsWell, SchemaStepKeeps, PTL DEF SchemaSpec

\* A row of schema_migrations stands for a script that ran to its end, for all
\* scripts and through crashes and concurrent starts (apply_migrations).
THEOREM RecordedVersionsAreApplied == SchemaSpec => []RecordedIsApplied
<1>1. SchemaInv => RecordedIsApplied
  BY DEF SchemaInv
<1> QED BY <1>1, SchemaInvHolds, PTL

\* No process serves with a part of the schema missing (create_app and
\* genesis_main call apply_migrations first).
THEOREM UpMeansWholeSchema == SchemaSpec => []UpHasSchema
<1>1. SchemaInv => UpHasSchema
  <2> SUFFICES ASSUME SchemaInv, NEW p \in Processes, proc[p].at = "up", NEW v \in Versions
               PROVE  Statements(v) \subseteq applied
    BY DEF UpHasSchema
  <2>1. proc[p].version = Len(Script) + 1 /\ 1..(proc[p].version - 1) \subseteq recorded
    <3>1. Behind(proc[p]) /\ proc[p].version \in 1..(Len(Script) + 1)
      BY DEF SchemaInv, SchemaTypeOK
    <3> QED BY <3>1, Lengths DEF Behind, Versions
  <2>2. v \in recorded
    BY <2>1, Lengths DEF Versions
  <2> QED BY <2>2 DEF SchemaInv, RecordedIsApplied
<1> QED BY <1>1, SchemaInvHolds, PTL

\* The variables keep their types.
THEOREM SchemaTypesHold == SchemaSpec => []SchemaTypeOK
<1>1. SchemaInv => SchemaTypeOK
  BY DEF SchemaInv
<1> QED BY <1>1, SchemaInvHolds, PTL


--------------------------------------------------------------------------------
(* The registry *)

IInv == TypeOK /\ DialsByOwner /\ PrimaryRouteInSync

--------------------------------------------------------------------------------
(* What the statements on dial_route_entry leave behind *)

NewDial(new, s, r, prio, k) ==
  new = [id |-> inserted + 1, scope |-> s, dial |-> r, priority |-> prio, by |-> k]

LacksDial(rows, s, r) == \A d \in rows : ~ (d.scope = s /\ d.dial = r)

\* A new row of a scope, with an id nobody has, may join rows without that dial.
LEMMA NewRow ==
  ASSUME TypeOK, inserted < MaxDials,
         NEW rows, rows \subseteq dials,
         NEW s \in Scopes, NEW r \in Dials, NEW prio \in Priorities, NEW k \in Keys,
         LacksDial(rows, s, r), NEW new, NewDial(new, s, r, prio, k)
  PROVE  /\ rows \cup {new} \subseteq DialRow
         /\ UniqueRows(rows \cup {new})
         /\ \A d \in rows \cup {new} : d.id <= inserted + 1
<1>1. inserted \in 0..MaxDials /\ MaxDials \in Nat /\ rows \subseteq DialRow
  BY ConstantShape DEF TypeOK
<1>2. new \in DialRow
  BY <1>1 DEF DialRow, NewDial
<1>3. \A d \in rows : d.id \in 1..MaxDials /\ d.id <= inserted
  BY <1>1 DEF TypeOK, DialRow
<1>4. \A d, e \in rows : (d.id = e.id \/ (d.scope = e.scope /\ d.dial = e.dial)) => d = e
  BY DEF TypeOK, UniqueRows
<1>5. \A d \in rows : d.id # new.id /\ ~ (d.scope = new.scope /\ d.dial = new.dial)
  BY <1>1, <1>3 DEF NewDial, LacksDial
<1>6. UniqueRows(rows \cup {new})
  BY <1>4, <1>5 DEF UniqueRows
<1> QED
  BY <1>1, <1>2, <1>3, <1>6 DEF NewDial

\* upsert_merge: rows are well formed and unique, the only row that is not an
\* old one is k's, and other scopes keep theirs.
LEMMA MergedRows ==
  ASSUME TypeOK,
         NEW s \in Scopes, NEW r \in Dials, NEW prio \in Priorities, NEW k \in Keys,
         Conflicting(s, r) = {} => inserted < MaxDials,
         NEW rows, rows = Merged(s, r, prio, k),
         NEW n, n = IF Conflicting(s, r) = {} THEN inserted + 1 ELSE inserted
  PROVE  /\ rows \subseteq DialRow
         /\ UniqueRows(rows)
         /\ n \in 0..MaxDials
         /\ \A d \in rows : d.id <= n
         /\ \A d \in rows : d \in dials \/ (d.scope = s /\ d.by = k)
         /\ \A t \in Scopes : t # s => Of(t, rows) = Of(t, dials)
<1>1. inserted \in 0..MaxDials /\ MaxDials \in Nat /\ dials \subseteq DialRow
  BY ConstantShape DEF TypeOK
<1>2. CASE Conflicting(s, r) = {}
  <2>0. PICK new : NewDial(new, s, r, prio, k)
    BY DEF NewDial
  <2>1. \A d \in dials : ~ (d.scope = s /\ d.dial = r)
    BY <1>2 DEF Conflicting
  <2>2. rows = dials \cup {new} /\ n = inserted + 1
    BY <1>2, <2>0 DEF Merged, NewDial
  <2>3. /\ dials \cup {new} \subseteq DialRow
        /\ UniqueRows(dials \cup {new})
        /\ \A d \in dials \cup {new} : d.id <= inserted + 1
    <3>1. PICK old : old = dials
      OBVIOUS
    <3>2. old \subseteq dials /\ inserted < MaxDials
      BY <1>2, <3>1
    <3>3. LacksDial(old, s, r)
      BY <2>1, <3>1 DEF LacksDial
    <3>4. /\ old \cup {new} \subseteq DialRow
          /\ UniqueRows(old \cup {new})
          /\ \A d \in old \cup {new} : d.id <= inserted + 1
      BY <2>0, <3>2, <3>3, NewRow
    <3> QED
      BY <3>1, <3>4
  <2>4. new.scope = s /\ new.by = k
    BY <2>0 DEF NewDial
  <2>5. n \in 0..MaxDials
    BY <1>1, <1>2, <2>2
  <2>6. \A t \in Scopes : t # s => Of(t, rows) = Of(t, dials)
    BY <2>2, <2>4 DEF Of
  <2> QED
    BY <2>2, <2>3, <2>4, <2>5, <2>6
<1>3. CASE Conflicting(s, r) # {}
  <2>1. PICK hit \in dials : hit.scope = s /\ hit.dial = r
    BY <1>3 DEF Conflicting
  <2> DEFINE new == [id |-> hit.id, scope |-> s, dial |-> r, priority |-> prio, by |-> k]
  <2>2. Conflicting(s, r) = {hit}
    BY <2>1 DEF Conflicting, TypeOK, UniqueRows
  <2>3. rows = (dials \ {hit}) \cup {new} /\ n = inserted
    BY <1>3, <2>2 DEF Merged
  <2>4. hit \in DialRow /\ new \in DialRow
    BY <1>1, <2>1 DEF DialRow
  <2>5. new.id = hit.id /\ new.scope = hit.scope /\ new.dial = hit.dial /\ new.by = k
    BY <2>1
  <2> HIDE DEF new
  <2>6. UniqueRows(rows)
    BY <2>1, <2>3, <2>5 DEF TypeOK, UniqueRows
  <2>7. \A d \in rows : d.id <= n
    BY <2>1, <2>3, <2>5 DEF TypeOK
  <2>8. \A t \in Scopes : t # s => Of(t, rows) = Of(t, dials)
    BY <2>1, <2>3, <2>5 DEF Of
  <2> QED
    BY <1>1, <2>1, <2>3, <2>4, <2>5, <2>6, <2>7, <2>8
<1> QED
  BY <1>2, <1>3

\* replace_all_for_scope, likewise.
LEMMA ReplacedRows ==
  ASSUME TypeOK, inserted < MaxDials,
         NEW s \in Scopes, NEW r \in Dials, NEW prio \in Priorities, NEW k \in Keys,
         NEW rows, rows = Replaced(s, r, prio, k)
  PROVE  /\ rows \subseteq DialRow
         /\ UniqueRows(rows)
         /\ inserted + 1 \in 0..MaxDials
         /\ \A d \in rows : d.id <= inserted + 1
         /\ \A d \in rows : d \in dials \/ (d.scope = s /\ d.by = k)
         /\ \A t \in Scopes : t # s => Of(t, rows) = Of(t, dials)
<1>01. PICK new : NewDial(new, s, r, prio, k)
  BY DEF NewDial
<1>02. PICK old : old = dials \ Of(s, dials)
  OBVIOUS
<1>1. rows = old \cup {new}
  BY <1>01, <1>02 DEF Replaced, NewDial
<1>2. old \subseteq dials /\ \A d \in old : d.scope # s
  BY <1>02 DEF Of
<1>3. /\ old \cup {new} \subseteq DialRow
      /\ UniqueRows(old \cup {new})
      /\ \A d \in old \cup {new} : d.id <= inserted + 1
  <2>1. LacksDial(old, s, r)
    BY <1>2 DEF LacksDial
  <2> QED
    BY <1>2, <1>01, <2>1, NewRow
<1>4. new.scope = s /\ new.by = k
  BY <1>01 DEF NewDial
<1>5. inserted + 1 \in 0..MaxDials
  BY ConstantShape DEF TypeOK
<1>6. \A t \in Scopes : t # s => Of(t, old \cup {new}) = Of(t, dials)
  BY <1>02, <1>4 DEF Of
<1> QED
  BY <1>1, <1>2, <1>3, <1>4, <1>5, <1>6

\* Two first dials of a scope are the same dial.
LEMMA OnePrimary ==
  ASSUME NEW rows, rows \subseteq DialRow, UniqueRows(rows),
         NEW d \in rows, NEW e \in rows, Before(d, e), Before(e, d)
  PROVE  d = e
<1>0. d \in DialRow /\ e \in DialRow
  OBVIOUS
<1>1. d.priority \in Int /\ e.priority \in Int /\ d.id \in Int /\ e.id \in Int
  <2>1. d.priority \in Priorities /\ e.priority \in Priorities /\ d.id \in 1..MaxDials /\ e.id \in 1..MaxDials
    BY <1>0 DEF DialRow
  <2>2. Priorities \subseteq Int
    BY ConstantShape
  <2>3. d.priority \in Int /\ e.priority \in Int
    BY <2>1, <2>2
  <2>4. d.id \in Int /\ e.id \in Int
    BY <2>1
  <2> QED
    BY <2>3, <2>4
<1>2. d.id = e.id
  BY <1>1 DEF Before
<1> QED
  BY <1>2 DEF UniqueRows

\* Each set of natural numbers has a least one.
LEMMA LeastOne ==
  ASSUME NEW S \in SUBSET Nat, S # {}
  PROVE  \E x \in S : \A y \in S : x <= y
<1> DEFINE R == OpToRel(<, Nat)
<1>1. IsWellFoundedOn(R, Nat)
  BY NatLessThanWellFounded, Zenon
<1>2. \A x, y \in Nat : y < x => <<y, x>> \in R
  BY Zenon DEF OpToRel
<1> HIDE DEF R
<1>3. PICK x \in S : \A y \in S : <<y, x>> \notin R
  BY <1>1, WFMin
<1>4. \A y \in S : x <= y
  <2> SUFFICES ASSUME NEW y \in S PROVE x <= y
    OBVIOUS
  <2>1. x \in Nat /\ y \in Nat /\ ~ (y < x)
    BY <1>2, <1>3
  <2> QED
    BY <2>1
<1> QED
  BY <1>4

\* A scope with dials has a first one, so that SyncLegacyRoute always has a route to
\* store: by induction on the age of the newest row that is looked at.
LEMMA FirstDial ==
  ASSUME NEW s, NEW rows \in SUBSET DialRow, UniqueRows(rows), Of(s, rows) # {}
  PROVE  \E d \in rows : Primary(d, s, rows)
<1> DEFINE Upto(n) == {d \in Of(s, rows) : d.id <= n}
           First(d, n) == d \in Upto(n) /\ \A e \in Upto(n) : Before(d, e)
           Without == {n \in Nat : Upto(n) # {} /\ ~ \E d \in rows : First(d, n)}
<1>1. \A d \in rows : d.id \in 1..MaxDials /\ d.id \in Int /\ d.priority \in Int
  <2> SUFFICES ASSUME NEW d \in rows PROVE d.id \in 1..MaxDials /\ d.id \in Int /\ d.priority \in Int
    OBVIOUS
  <2>1. d.id \in 1..MaxDials /\ d.priority \in Priorities
    BY DEF DialRow
  <2>2. d.priority \in Int
    BY <2>1, ConstantShape
  <2> QED
    BY <2>1, <2>2
<1>2. \A n \in Nat : \A d \in Upto(n) : d \in rows /\ d.id \in Int /\ d.priority \in Int /\ 1 <= d.id
  BY <1>1 DEF Of
<1>3. \A d, e, f \in rows : /\ Before(d, d) /\ (Before(d, e) \/ Before(e, d))
                            /\ Before(d, e) /\ Before(e, f) => Before(d, f)
  BY <1>1 DEF Before
<1>4. Without = {}
  <2> SUFFICES ASSUME Without # {} PROVE FALSE
    OBVIOUS
  <2>1. PICK n \in Without : \A m \in Without : n <= m
    <3>1. Without \in SUBSET Nat
      OBVIOUS
    <3> HIDE DEF Without
    <3> QED
      BY <3>1, LeastOne
  <2>2. n \in Nat /\ Upto(n) # {} /\ ~ \E d \in rows : First(d, n)
    BY <2>1
  <2>3. n # 0 /\ n - 1 \in Nat
    BY <1>2, <2>2
  <2>4. n - 1 \notin Without
    <3>1. ~ (n <= n - 1)
      BY <2>2
    <3> QED
      BY <2>1, <3>1
  <2>5. \A e \in Upto(n) : e \in Upto(n - 1) \/ e.id = n
    <3> SUFFICES ASSUME NEW e \in Upto(n), e.id # n PROVE e.id <= n - 1
      OBVIOUS
    <3>1. e.id \in Int /\ e.id <= n
      BY <1>2, <2>2
    <3> QED
      BY <2>2, <3>1
  <2>6. \A e \in Upto(n - 1) : e \in Upto(n)
    BY <1>2, <2>2, <2>3
  <2>7. \A d, e \in rows : d.id = n /\ e.id = n => d = e
    BY DEF UniqueRows
  <2>8. Upto(n) \subseteq rows /\ Upto(n - 1) \subseteq rows
    BY DEF Of
  <2>9. Upto(n - 1) = {} \/ \E d \in rows : First(d, n - 1)
    BY <2>3, <2>4
  <2> HIDE DEF Upto, Without
  <2>10. CASE Upto(n - 1) = {}
    BY <1>3, <2>2, <2>5, <2>7, <2>8, <2>10
  <2>11. ASSUME NEW d \in rows, First(d, n - 1) PROVE FALSE
    <3>1. CASE \A e \in Upto(n) : e \in Upto(n - 1)
      BY <2>2, <2>6, <2>11, <3>1
    <3>2. ASSUME NEW r \in Upto(n), r.id = n PROVE FALSE
      <4>1. \A e \in Upto(n) : e = r \/ e \in Upto(n - 1)
        BY <2>5, <2>7, <2>8, <3>2
      <4>2. CASE Before(d, r)
        BY <2>2, <2>6, <2>11, <4>1, <4>2
      <4>3. CASE Before(r, d)
        BY <1>3, <2>2, <2>8, <2>11, <3>2, <4>1, <4>3
      <4> QED
        BY <1>3, <2>8, <3>2, <4>2, <4>3
    <3> QED
      BY <2>5, <3>1, <3>2
  <2> QED
    BY <2>9, <2>10, <2>11
<1>5. MaxDials \in Nat /\ Upto(MaxDials) = Of(s, rows)
  <2>1. MaxDials \in Nat
    BY ConstantShape
  <2>2. \A d \in Of(s, rows) : d.id <= MaxDials
    BY <1>1, <2>1 DEF Of
  <2> QED
    BY <2>1, <2>2
<1>6. PICK d \in rows : First(d, MaxDials)
  BY <1>4, <1>5
<1> QED
  BY <1>5, <1>6 DEF Primary

--------------------------------------------------------------------------------
(* A handler that changes the dials of one scope *)

\* Whatever a handler leaves in its scope, the legacy route it stores keeps the
\* invariant: SyncLegacyRoute is what every such handler ends with.
LEMMA DialStep ==
  ASSUME IInv,
         NEW s \in Scopes, NEW k \in Keys, MayDial(s, k),
         dials' \subseteq DialRow, UniqueRows(dials'),
         inserted' \in 0..MaxDials, \A d \in dials' : d.id <= inserted',
         \A d \in dials' : d \in dials \/ (d.scope = s /\ d.by = k),
         \A t \in Scopes : t # s => Of(t, dials') = Of(t, dials),
         SyncLegacyRoute(s, dials'), UNCHANGED bindings
  PROVE  IInv'
<1>1. PICK route \in Dials \cup {None, Cleared} :
        /\ SetLegacyRoute(s, route)
        /\ Of(s, dials') = {} => route = IF s = Core THEN None ELSE Cleared
        /\ Of(s, dials') # {} => \E d \in dials' : Primary(d, s, dials') /\ route = d.dial
  <2>1. CASE Of(s, dials') = {} /\ SetLegacyRoute(s, IF s = Core THEN None ELSE Cleared)
    BY <2>1
  <2>2. CASE \E d \in dials' : Primary(d, s, dials') /\ SetLegacyRoute(s, d.dial)
    <3>1. PICK d \in dials' : Primary(d, s, dials') /\ SetLegacyRoute(s, d.dial)
      BY <2>2
    <3>2. d.dial \in Dials /\ d \in Of(s, dials')
      BY <3>1 DEF DialRow, Primary
    <3> QED
      BY <3>1, <3>2
  <2> QED
    BY <2>1, <2>2 DEF SyncLegacyRoute
<1>2. s = Core => route \in Dials \cup {None}
  <2>1. \A d \in dials' : d.dial \in Dials
    BY DEF DialRow
  <2> QED
    BY <1>1, <2>1
<1>3. s # Core => route \in Dials \cup {Cleared} /\ s \in Names /\ modules[s] \in Module
  <2>1. \A d \in dials' : d.dial \in Dials
    BY DEF DialRow
  <2> QED
    BY <1>1, <2>1 DEF Scopes, MayDial, IInv, TypeOK
<1>4. s = Core => modules' = modules /\ advertised' = route
  BY <1>1 DEF SetLegacyRoute
<1>5. s # Core =>
        /\ advertised' = advertised
        /\ modules' = [modules EXCEPT ![s] = [key |-> modules[s].key, sender |-> modules[s].sender, route |-> route]]
  BY <1>1 DEF SetLegacyRoute
<1>6. modules \in [Names -> Module \cup {None}] /\ advertised \in Dials \cup {None}
  BY DEF IInv, TypeOK
<1>61. s # Core => [key |-> modules[s].key, sender |-> modules[s].sender, route |-> route] \in Module
  BY <1>3 DEF Module, Routes
<1>7. modules' \in [Names -> Module \cup {None}] /\ advertised' \in Dials \cup {None}
  <2>1. CASE s = Core
    BY <1>2, <1>4, <1>6, <2>1
  <2>2. CASE s # Core
    BY <1>3, <1>5, <1>6, <1>61, <2>2
  <2> QED
    BY <2>1, <2>2
<1>8. TypeOK'
  BY <1>7 DEF IInv, TypeOK
<1>9. \A n \in Names : modules[n] # None => modules'[n] # None /\ modules'[n].key = modules[n].key
  <2> SUFFICES ASSUME NEW n \in Names, modules[n] # None
               PROVE  modules'[n] # None /\ modules'[n].key = modules[n].key
    OBVIOUS
  <2>1. CASE s # Core /\ n = s
    <3>1. modules'[n] = [key |-> modules[s].key, sender |-> modules[s].sender, route |-> route]
      BY <1>5, <1>6, <2>1
    <3> QED
      BY <1>61, <2>1, <3>1, NoneIsNoRow
  <2>2. CASE s = Core \/ n # s
    BY <1>4, <1>5, <1>6, <2>2
  <2> QED
    BY <2>1, <2>2
<1>10. DialsByOwner'
  <2> SUFFICES ASSUME NEW d \in dials', d.scope # Core
               PROVE  modules'[d.scope] # None /\ modules'[d.scope].key = d.by
    BY DEF DialsByOwner
  <2>1. d.scope \in Names
    BY DEF DialRow, Scopes
  <2>2. CASE d \in dials
    BY <1>9, <2>1, <2>2 DEF IInv, DialsByOwner
  <2>3. CASE d.scope = s /\ d.by = k
    BY <1>9, <2>1, <2>3 DEF MayDial
  <2> QED
    BY <2>2, <2>3
<1>11. PrimaryRouteInSync'
  <2> SUFFICES ASSUME NEW t \in Scopes
               PROVE  /\ \A d \in Of(t, dials') :
                           (\A e \in Of(t, dials') : Before(d, e)) => LegacyRoute(t)' = d.dial
                      /\ (t = Core /\ Of(t, dials') = {}) => advertised' = None
    BY DEF PrimaryRouteInSync
  <2>1. CASE t = s
    <3>1. LegacyRoute(t)' = route
      <4>1. CASE s = Core
        BY <1>4, <2>1, <4>1 DEF LegacyRoute
      <4>2. CASE s # Core
        BY <1>3, <1>5, <1>6, <2>1, <4>2 DEF LegacyRoute
      <4> QED
        BY <4>1, <4>2
    <3>2. ASSUME NEW d \in Of(t, dials'), \A e \in Of(t, dials') : Before(d, e)
          PROVE  LegacyRoute(t)' = d.dial
      <4>1. PICK p \in dials' : Primary(p, s, dials') /\ route = p.dial
        BY <1>1, <2>1, <3>2
      <4>2. d \in dials' /\ Before(d, p) /\ Before(p, d)
        BY <2>1, <3>2, <4>1 DEF Primary, Of
      <4>3. d = p
        BY <4>1, <4>2, OnePrimary
      <4> QED
        BY <3>1, <4>1, <4>3
    <3>3. (t = Core /\ Of(t, dials') = {}) => advertised' = None
      BY <1>1, <1>4, <2>1
    <3> QED
      BY <3>2, <3>3
  <2>2. CASE t # s
    <3>1. Of(t, dials') = Of(t, dials)
      BY <2>2
    <3>2. LegacyRoute(t)' = LegacyRoute(t) /\ (t = Core => advertised' = advertised)
      BY <1>4, <1>5, <1>6, <2>2 DEF LegacyRoute, Scopes
    <3> QED
      BY <3>1, <3>2 DEF IInv, PrimaryRouteInSync
  <2> QED
    BY <2>1, <2>2
<1> QED
  BY <1>8, <1>10, <1>11 DEF IInv
--------------------------------------------------------------------------------
(* The handlers that bind names and publish modules *)

\* What register_org stores is a binding and, with a key, a module's row.
LEMMA OrgRows ==
  ASSUME TypeOK, NEW q \in OrgRequest
  PROVE  BindingFor(q) \in Binding /\ (q.key # None => ModuleFor(q) \in Module)
<1>1. /\ q.name \in Names /\ q.id \in Identities /\ q.route \in Routes \cup {None}
      /\ q.meta \in Metas \cup {None, Omitted} /\ q.key \in Keys \cup {None} /\ q.sender \in Keys
      /\ q.key # None => q.route # None
  BY DEF OrgRequest
<1>2. MetaJson(q) \in Metas \cup {None}
  BY <1>1 DEF MetaJson
<1>3. bindings[q.name] # None => bindings[q.name].meta \in Metas \cup {None}
  BY <1>1 DEF TypeOK, Binding
<1>4. BindingFor(q) \in Binding
  <2>1. (IF bindings[q.name] = None \/ q.meta # Omitted THEN MetaJson(q) ELSE bindings[q.name].meta)
          \in Metas \cup {None}
    BY <1>2, <1>3
  <2> QED
    BY <1>1, <2>1 DEF BindingFor, Binding
<1>5. q.key # None => ModuleFor(q) \in Module
  BY <1>1 DEF ModuleFor, Module
<1> QED
  BY <1>4, <1>5

\* A module's row appears once and then stays as register_org wrote it: an accepted
\* repetition writes what is there.
LEMMA OrgModules ==
  ASSUME TypeOK, NEW q \in OrgRequest, RegisterOrg(q)
  PROVE  /\ modules' \in [Names -> Module \cup {None}]
         /\ \A n \in Names : modules[n] # None => modules'[n] = modules[n]
<1>1. q.name \in Names
  BY DEF OrgRequest
<1>2. modules \in [Names -> Module \cup {None}]
  BY DEF TypeOK
<1>3. modules' = [modules EXCEPT ![q.name] = IF q.key = None THEN modules[q.name] ELSE ModuleFor(q)]
  BY DEF RegisterOrg
<1>4. q.key # None => ModuleFor(q) \in Module /\ modules[q.name] \in {None, ModuleFor(q)}
  BY OrgRows DEF RegisterOrg, OrgAccepted, ModuleAccepts
<1> QED
  BY <1>1, <1>2, <1>3, <1>4

LEMMA StepRegisterOrg ==
  ASSUME IInv, NEW q \in OrgRequest, RegisterOrg(q)
  PROVE  IInv'
<1>1. TypeOK /\ q.name \in Names
  BY DEF IInv, OrgRequest
<1>2. /\ modules' \in [Names -> Module \cup {None}]
      /\ \A n \in Names : modules[n] # None => modules'[n] = modules[n]
  BY <1>1, OrgModules
<1>3. UNCHANGED <<dials, inserted, advertised>>
  BY DEF RegisterOrg
<1>4. TypeOK'
  <2>1. bindings' \in [Names -> Binding \cup {None}]
    BY <1>1, OrgRows DEF TypeOK, RegisterOrg
  <2> QED
    BY <1>1, <1>2, <1>3, <2>1 DEF TypeOK
<1>5. \A d \in dials : d.scope # Core => d.scope \in Names /\ modules[d.scope] # None
  BY <1>1 DEF IInv, TypeOK, DialsByOwner, DialRow, Scopes
<1>6. DialsByOwner'
  BY <1>2, <1>3, <1>5 DEF IInv, DialsByOwner
<1>7. PrimaryRouteInSync'
  <2> SUFFICES ASSUME NEW t \in Scopes
               PROVE  /\ \A d \in Of(t, dials) :
                           (\A e \in Of(t, dials) : Before(d, e)) => LegacyRoute(t)' = d.dial
                      /\ (t = Core /\ Of(t, dials) = {}) => advertised' = None
    BY <1>3 DEF PrimaryRouteInSync
  <2>1. ASSUME NEW d \in Of(t, dials)
        PROVE  LegacyRoute(t)' = LegacyRoute(t)
    BY <1>2, <1>3, <1>5 DEF Of, LegacyRoute
  <2> QED
    BY <1>3, <2>1 DEF IInv, PrimaryRouteInSync
<1> QED
  BY <1>4, <1>6, <1>7 DEF IInv

LEMMA StepRegisterName ==
  ASSUME IInv, NEW n \in Names, NEW b \in Binding, RegisterName(n, b)
  PROVE  IInv'
<1>1. UNCHANGED <<modules, dials, inserted, advertised>>
  BY DEF RegisterName
<1>2. bindings' \in [Names -> Binding \cup {None}]
  BY DEF IInv, TypeOK, RegisterName
<1>3. TypeOK'
  BY <1>1, <1>2 DEF IInv, TypeOK
<1>4. DialsByOwner' /\ PrimaryRouteInSync'
  BY <1>1 DEF IInv, DialsByOwner, PrimaryRouteInSync, LegacyRoute
<1> QED
  BY <1>3, <1>4 DEF IInv

--------------------------------------------------------------------------------
(* The handlers that change dials *)

LEMMA StepSubmitMerge ==
  ASSUME IInv, NEW s \in Scopes, NEW r \in Dials, NEW prio \in Priorities, NEW k \in Keys,
         SubmitMerge(s, r, prio, k)
  PROVE  IInv'
<1>1. PICK rows : rows = Merged(s, r, prio, k)
  OBVIOUS
<1>2. PICK n : n = IF Conflicting(s, r) = {} THEN inserted + 1 ELSE inserted
  OBVIOUS
<1>3. dials' = rows /\ inserted' = n /\ SyncLegacyRoute(s, dials') /\ MayDial(s, k) /\ UNCHANGED bindings
  BY <1>1, <1>2 DEF SubmitMerge
<1>4. /\ rows \subseteq DialRow
      /\ UniqueRows(rows)
      /\ n \in 0..MaxDials
      /\ \A d \in rows : d.id <= n
      /\ \A d \in rows : d \in dials \/ (d.scope = s /\ d.by = k)
      /\ \A t \in Scopes : t # s => Of(t, rows) = Of(t, dials)
  <2>1. TypeOK /\ (Conflicting(s, r) = {} => inserted < MaxDials)
    BY DEF SubmitMerge, IInv
  <2> QED
    BY <1>1, <1>2, <2>1, MergedRows
<1> QED
  BY <1>3, <1>4, DialStep

LEMMA StepSubmitReplaceAll ==
  ASSUME IInv, NEW s \in Scopes, NEW r \in Dials, NEW prio \in Priorities, NEW k \in Keys,
         SubmitReplaceAll(s, r, prio, k)
  PROVE  IInv'
<1>1. PICK rows : rows = Replaced(s, r, prio, k)
  OBVIOUS
<1>2. /\ dials' = rows /\ inserted' = inserted + 1 /\ inserted < MaxDials
      /\ SyncLegacyRoute(s, dials') /\ MayDial(s, k) /\ UNCHANGED bindings
  BY <1>1 DEF SubmitReplaceAll
<1>3. /\ rows \subseteq DialRow
      /\ UniqueRows(rows)
      /\ inserted + 1 \in 0..MaxDials
      /\ \A d \in rows : d.id <= inserted + 1
      /\ \A d \in rows : d \in dials \/ (d.scope = s /\ d.by = k)
      /\ \A t \in Scopes : t # s => Of(t, rows) = Of(t, dials)
  BY <1>1, <1>2, ReplacedRows DEF IInv
<1> QED
  BY <1>2, <1>3, DialStep

LEMMA StepRemoveRoute ==
  ASSUME IInv, NEW s \in Scopes, NEW r \in Dials, NEW k \in Keys, RemoveRoute(s, r, k)
  PROVE  IInv'
<1>1. /\ dials' = {d \in dials : ~ (d.scope = s /\ d.dial = r)} /\ inserted' = inserted
      /\ SyncLegacyRoute(s, dials') /\ MayDial(s, k) /\ UNCHANGED bindings
  BY DEF RemoveRoute
<1>2. dials' \subseteq dials
  BY <1>1
<1>3. dials' \subseteq DialRow /\ inserted' \in 0..MaxDials /\ \A d \in dials' : d.id <= inserted'
  BY <1>1, <1>2 DEF IInv, TypeOK
<1>4. UniqueRows(dials')
  BY <1>2 DEF IInv, TypeOK, UniqueRows
<1>5. \A t \in Scopes : t # s => Of(t, dials') = Of(t, dials)
  BY <1>1 DEF Of
<1>6. \A d \in dials' : d \in dials \/ (d.scope = s /\ d.by = k)
  BY <1>2
<1> QED
  BY <1>1, <1>3, <1>4, <1>5, <1>6, DialStep

--------------------------------------------------------------------------------
(* The theorems *)

LEMMA InitIInv == Init => IInv
<1> SUFFICES ASSUME Init PROVE IInv
  OBVIOUS
<1>1. TypeOK
  BY ConstantShape DEF Init, TypeOK, UniqueRows
<1>2. DialsByOwner /\ PrimaryRouteInSync
  BY DEF Init, DialsByOwner, PrimaryRouteInSync, Of
<1> QED
  BY <1>1, <1>2 DEF IInv

LEMMA NextIInv == IInv /\ [Next]_vars => IInv'
<1> SUFFICES ASSUME IInv, [Next]_vars PROVE IInv'
  OBVIOUS
<1>1. CASE \E q \in OrgRequest : RegisterOrg(q)
  BY <1>1, StepRegisterOrg
<1>2. CASE \E n \in Names, b \in Binding : RegisterName(n, b)
  BY <1>2, StepRegisterName
<1>3. ASSUME NEW s \in Scopes, NEW r \in Dials, NEW k \in Keys, NEW prio \in Priorities,
             SubmitMerge(s, r, prio, k) \/ SubmitReplaceAll(s, r, prio, k)
      PROVE  IInv'
  BY <1>3, StepSubmitMerge, StepSubmitReplaceAll
<1>4. ASSUME NEW s \in Scopes, NEW r \in Dials, NEW k \in Keys, RemoveRoute(s, r, k)
      PROVE  IInv'
  BY <1>4, StepRemoveRoute
<1>5. CASE UNCHANGED vars
  BY <1>5 DEF vars, IInv, TypeOK, DialsByOwner, PrimaryRouteInSync, LegacyRoute
<1> QED
  BY <1>1, <1>2, <1>3, <1>4, <1>5 DEF Next

LEMMA AlwaysIInv == Spec => []IInv
  BY InitIInv, NextIInv, PTL DEF Spec

\* The registry's tables keep their types and keys.
THEOREM TypeCorrect == Spec => []TypeOK
<1>1. IInv => TypeOK
  BY DEF IInv
<1> QED
  BY <1>1, AlwaysIInv, PTL

\* Lookups by the legacy route find the first dial, for any number of names,
\* dials and priorities.
THEOREM LegacyRouteFollowsDials == Spec => []PrimaryRouteInSync
<1>1. IInv => PrimaryRouteInSync
  BY DEF IInv
<1> QED
  BY <1>1, AlwaysIInv, PTL

\* No module with dials, and no core, is left with a legacy route that is none of its
\* dials: the first dial by priority and age exists, and is the one that lookups find.
THEOREM LegacyRouteIsADial ==
  Spec => [](\A s \in Scopes : Of(s, dials) # {} =>
               \E d \in dials : Primary(d, s, dials) /\ LegacyRoute(s) = d.dial)
<1>1. IInv => \A s \in Scopes : Of(s, dials) # {} =>
                \E d \in dials : Primary(d, s, dials) /\ LegacyRoute(s) = d.dial
  <2> SUFFICES ASSUME IInv, NEW s \in Scopes, Of(s, dials) # {}
               PROVE  \E d \in dials : Primary(d, s, dials) /\ LegacyRoute(s) = d.dial
    OBVIOUS
  <2>1. PICK d \in dials : Primary(d, s, dials)
    BY FirstDial DEF IInv, TypeOK
  <2>2. LegacyRoute(s) = d.dial
    BY <2>1 DEF IInv, PrimaryRouteInSync, Primary
  <2> QED
    BY <2>1, <2>2
<1> QED
  BY <1>1, AlwaysIInv, PTL

\* Every dial of a module was submitted under the module's present key.
THEOREM DialsAreTheOwners == Spec => []DialsByOwner
<1>1. IInv => DialsByOwner
  BY DEF IInv
<1> QED
  BY <1>1, AlwaysIInv, PTL

\* A bound name keeps its identity, a registered module its key.
OwnersKept ==
  /\ \A n \in Names : bindings[n] # None =>
       bindings'[n] # None /\ bindings'[n].id = bindings[n].id
  /\ \A n \in Names : modules[n] # None =>
       modules'[n] # None /\ modules'[n].key = modules[n].key

LEMMA OwnersKeptByStep == IInv /\ [Next]_vars => [OwnersKept]_vars
<1> SUFFICES ASSUME IInv, Next PROVE OwnersKept
  BY DEF OwnersKept
<1> USE DEF OwnersKept
<1>1. bindings \in [Names -> Binding \cup {None}] /\ modules \in [Names -> Module \cup {None}] /\ TypeOK
  BY DEF IInv, TypeOK
<1>2. ASSUME NEW q \in OrgRequest, RegisterOrg(q)
      PROVE  OwnersKept
  <2>1. q.name \in Names /\ bindings' = [bindings EXCEPT ![q.name] = BindingFor(q)]
    BY <1>2 DEF RegisterOrg, OrgRequest
  <2>2. BindingFor(q) # None /\ BindingFor(q).id = q.id
    BY <1>1, OrgRows, NoneIsNoRow DEF BindingFor
  <2>3. bindings[q.name] # None => bindings[q.name].id = q.id
    BY <1>2, <2>1 DEF RegisterOrg, OrgAccepted, BindingAccepts, Matches
  <2>4. \A n \in Names : bindings[n] # None => bindings'[n] # None /\ bindings'[n].id = bindings[n].id
    BY <1>1, <2>1, <2>2, <2>3
  <2> QED
    BY <1>1, <1>2, <2>4, OrgModules
<1>3. ASSUME NEW m \in Names, NEW b \in Binding, RegisterName(m, b)
      PROVE  OwnersKept
  BY <1>1, <1>3 DEF RegisterName
<1>4. ASSUME NEW s \in Scopes, NEW k \in Keys, MayDial(s, k), SyncLegacyRoute(s, dials'),
             UNCHANGED bindings
      PROVE  OwnersKept
  <2>1. dials' \subseteq DialRow
    BY NextIInv DEF IInv, TypeOK
  <2>2. PICK route \in Dials \cup {None, Cleared} :
          SetLegacyRoute(s, route) /\ (s # Core => route \in Dials \cup {Cleared})
    BY <1>4, <2>1 DEF SyncLegacyRoute, DialRow
  <2>3. CASE s = Core
    BY <1>4, <2>2, <2>3 DEF SetLegacyRoute
  <2>4. CASE s # Core
    <3>1. s \in Names /\ modules[s] \in Module
      BY <1>1, <1>4, <2>4 DEF Scopes, MayDial
    <3>2. modules' = [modules EXCEPT ![s] = [key |-> modules[s].key, sender |-> modules[s].sender, route |-> route]]
      BY <2>2, <2>4 DEF SetLegacyRoute
    <3>3. [key |-> modules[s].key, sender |-> modules[s].sender, route |-> route] \in Module
      BY <2>2, <2>4, <3>1 DEF Module, Routes
    <3>4. \A n \in Names : modules[n] # None => modules'[n] # None /\ modules'[n].key = modules[n].key
      BY <1>1, <3>1, <3>2, <3>3, NoneIsNoRow
    <3> QED
      BY <1>4, <3>4
  <2> QED
    BY <2>3, <2>4
<1>5. ASSUME NEW s \in Scopes, NEW r \in Dials, NEW k \in Keys, NEW prio \in Priorities,
             SubmitMerge(s, r, prio, k) \/ SubmitReplaceAll(s, r, prio, k)
      PROVE  OwnersKept
  BY <1>4, <1>5 DEF SubmitMerge, SubmitReplaceAll
<1>6. ASSUME NEW s \in Scopes, NEW r \in Dials, NEW k \in Keys, RemoveRoute(s, r, k)
      PROVE  OwnersKept
  BY <1>4, <1>6 DEF RemoveRoute
<1> HIDE DEF OwnersKept
<1> QED
  BY <1>2, <1>3, <1>5, <1>6 DEF Next

\* No message moves a bound name to another identity or a module to another key.
THEOREM OwnersAreFixed == Spec => OwnersFixed
<1>1. IInv /\ [Next]_vars => [OwnersKept]_vars
  BY OwnersKeptByStep
<1>2. QED
  BY <1>1, AlwaysIInv, PTL DEF Spec, OwnersFixed, OwnersKept

--------------------------------------------------------------------------------
(* The state beside the registry *)

HeartbeatRow == [seen : Times, by : Keys]

ReportRow == [phase : Phases, by : Keys]

EntityTypeOK ==
  /\ heartbeats \in [Names -> HeartbeatRow \cup {None}]
  /\ reports \in [Names -> ReportRow \cup {None}]
  /\ orgRows \in [OrgLookups -> OrgRow \cup {None}]
  /\ userRows \in [UserLookups -> UserRow \cup {None}]
  /\ genesis \in GenesisRow \cup {None}
  /\ since \subseteq OrgLookups \cup UserLookups

\* The root name of a completed genesis is bound.
RootBound == genesis # None => bindings[genesis.label] # None

\* A picture set since completion has its row.
SinceHasRows == \A l \in since \cap UserLookups : userRows[l] # None

EInv == IInv /\ EntityTypeOK /\ RootBound /\ SinceHasRows /\ StateByOwner /\ GenesisInStep

--------------------------------------------------------------------------------

\* Genesis is a registration as any other, and the rest does not touch the registry.
LEMMA EntityStepIsRegistryStep == [EntityNext]_allVars => [Next]_vars
<1> SUFFICES ASSUME [EntityNext]_allVars PROVE [Next]_vars
  OBVIOUS
<1>1. ASSUME NEW n \in Names, NEW org \in Identities, NEW op, NEW logo, NEW image,
             CompleteGenesis(n, org, op, logo, image)
      PROVE  [Next]_vars
  <2>1. RootBinding(org) \in Binding
    BY DEF RootBinding, Binding
  <2> QED
    BY <1>1, <2>1 DEF CompleteGenesis, Next
<1> QED
  BY <1>1 DEF EntityNext, allVars, Heartbeat, ReportState, SetOrganizationLogo,
     SetUserProfileImage, SetUserDescription

\* Everything proved of the registry holds with genesis, heartbeats and branding
\* running beside it: they are steps or stutters of the registry.
THEOREM EntityStateKeepsRegistry == EntitySpec => Spec
<1>1. EntityInit => Init
  BY DEF EntityInit
<1> QED
  BY <1>1, EntityStepIsRegistryStep, PTL DEF EntitySpec, Spec

--------------------------------------------------------------------------------
(* The registry's own steps, and the messages of a module *)

\* While the registry moves on, owners stay who they were.
LEMMA OwnersStay ==
  ASSUME EInv, [Next]_vars
  PROVE  /\ IInv'
         /\ \A n \in Names : bindings[n] # None => bindings'[n] # None /\ bindings'[n].id = bindings[n].id
         /\ \A n \in Names : modules[n] # None => modules'[n] # None /\ modules'[n].key = modules[n].key
<1>1. IInv
  BY DEF EInv
<1>2. CASE UNCHANGED vars
  BY <1>1, <1>2, NextIInv DEF vars
<1>3. CASE ~ UNCHANGED vars
  BY <1>1, <1>3, NextIInv, OwnersKeptByStep DEF OwnersKept
<1> QED
  BY <1>2, <1>3

\* Genesis and branding are as they were: so is their agreement.
LEMMA GenesisStays ==
  ASSUME EInv, [Next]_vars, UNCHANGED <<orgRows, userRows, genesis, since>>
  PROVE  RootBound' /\ SinceHasRows' /\ GenesisInStep'
<1>0. SinceHasRows'
  BY DEF EInv, SinceHasRows
<1>1. CASE genesis = None
  BY <1>0, <1>1 DEF RootBound, GenesisInStep
<1>2. CASE genesis # None
  <2>1. genesis.label \in Names /\ bindings[genesis.label] # None
    BY <1>2 DEF EInv, EntityTypeOK, RootBound, GenesisRow
  <2>2. bindings'[genesis.label] # None /\ Root' = Root
    BY <2>1, OwnersStay DEF Root
  <2>3. RootRows' = RootRows
    BY <2>2 DEF RootRows
  <2> QED
    BY <1>0, <1>2, <2>2, <2>3 DEF EInv, GenesisInStep, RootBound
<1> QED
  BY <1>1, <1>2

\* A registration or a dial: what modules said stays under their key.
LEMMA StepRegistry ==
  ASSUME EInv, [Next]_vars, UNCHANGED entityVars
  PROVE  EInv'
<1>1. IInv' /\ RootBound' /\ SinceHasRows' /\ GenesisInStep'
  BY OwnersStay, GenesisStays DEF entityVars
<1>2. EntityTypeOK'
  BY DEF EInv, EntityTypeOK, entityVars
<1>3. StateByOwner'
  BY OwnersStay DEF EInv, StateByOwner, entityVars
<1> QED
  BY <1>1, <1>2, <1>3 DEF EInv

\* The heartbeat of a module with the module's key.
LEMMA StepHeartbeat ==
  ASSUME EInv, NEW n \in Names, NEW t \in Times, NEW k \in Keys, Heartbeat(n, t, k)
  PROVE  EInv'
<1>1. IInv' /\ RootBound' /\ SinceHasRows' /\ GenesisInStep'
  BY OwnersStay, GenesisStays DEF Heartbeat
<1>2. [seen |-> t, by |-> k] \in HeartbeatRow
  BY DEF HeartbeatRow
<1>3. EntityTypeOK'
  BY <1>2 DEF EInv, EntityTypeOK, Heartbeat
<1>4. UNCHANGED modules /\ modules[n] # None /\ modules[n].key = k
  BY DEF Heartbeat, SpeaksFor, vars
<1>5. StateByOwner'
  BY <1>4 DEF EInv, EntityTypeOK, StateByOwner, Heartbeat
<1> QED
  BY <1>1, <1>3, <1>5 DEF EInv

\* The state report of a module with the module's key.
LEMMA StepReportState ==
  ASSUME EInv, NEW n \in Names, NEW ph \in Phases, NEW k \in Keys, ReportState(n, ph, k)
  PROVE  EInv'
<1>1. IInv' /\ RootBound' /\ SinceHasRows' /\ GenesisInStep'
  BY OwnersStay, GenesisStays DEF ReportState
<1>2. [phase |-> ph, by |-> k] \in ReportRow
  BY DEF ReportRow
<1>3. EntityTypeOK'
  BY <1>2 DEF EInv, EntityTypeOK, ReportState
<1>4. UNCHANGED modules /\ modules[n] # None /\ modules[n].key = k
  BY DEF ReportState, SpeaksFor, vars
<1>5. StateByOwner'
  BY <1>4 DEF EInv, EntityTypeOK, StateByOwner, ReportState
<1> QED
  BY <1>1, <1>3, <1>5 DEF EInv

--------------------------------------------------------------------------------
(* Genesis and branding *)

\* Completion binds the root name and starts with copies nobody updated.
LEMMA StepCompleteGenesis ==
  ASSUME EInv, NEW n \in Names, NEW org \in Identities, NEW op \in Identities,
         NEW logo \in Logos \cup {None}, NEW image \in Images \cup {None},
         CompleteGenesis(n, org, op, logo, image)
  PROVE  EInv'
<1>1. RootBinding(org) \in Binding
  BY DEF RootBinding, Binding
<1>2. [Next]_vars
  BY <1>1 DEF CompleteGenesis, Next
<1>3. genesis' \in GenesisRow /\ genesis'.label = n /\ since' = {}
  BY DEF CompleteGenesis, GenesisRow
<1>4. EntityTypeOK'
  BY <1>3 DEF EInv, EntityTypeOK, CompleteGenesis
<1>5. bindings'[n] # None
  <2>1. CASE RegisterName(n, RootBinding(org))
    BY <1>1, <2>1, NoneIsNoRow DEF RegisterName, EInv, IInv, TypeOK
  <2>2. CASE bindings[n] = RootBinding(org) /\ UNCHANGED vars
    BY <1>1, <2>2, NoneIsNoRow DEF vars
  <2> QED
    BY <2>1, <2>2 DEF CompleteGenesis
<1>6. RootBound' /\ SinceHasRows' /\ GenesisInStep'
  BY <1>3, <1>5 DEF RootBound, SinceHasRows, GenesisInStep, RootRows
<1>7. StateByOwner'
  BY <1>2, OwnersStay DEF EInv, StateByOwner, CompleteGenesis
<1> QED
  BY <1>2, <1>4, <1>6, <1>7, OwnersStay DEF EInv

\* What the branding handlers leave alone.
LEMMA BrandingKeeps ==
  ASSUME EInv, UNCHANGED <<vars, heartbeats, reports>>
  PROVE  IInv' /\ StateByOwner' /\ Root' = bindings[genesis'.label].id
<1>1. [Next]_vars
  OBVIOUS
<1> QED
  BY <1>1, OwnersStay DEF EInv, StateByOwner, Root, vars

\* Either the logo goes to the genesis row as well, or the row is not the root's own.
LEMMA StepSetOrganizationLogo ==
  ASSUME EInv, NEW org \in Identities, NEW n \in Names \cup {None}, NEW logo \in Logos \cup {None},
         SetOrganizationLogo(org, n, logo)
  PROVE  EInv'
<1> DEFINE l == OrgLookup(org, n)
<1>1. l \in OrgLookups /\ [logo |-> logo, signer |-> org] \in OrgRow
  BY DEF OrgLookup, OrgLookups, OrgRow
<1>2. /\ orgRows' = [orgRows EXCEPT ![l] = [logo |-> logo, signer |-> org]]
      /\ genesis' = IF IsRootOrg(org, n) THEN [genesis EXCEPT !.logo = logo] ELSE genesis
      /\ since' = IF genesis = None THEN {} ELSE since \cup {l}
      /\ UNCHANGED <<vars, heartbeats, reports, userRows>>
  BY DEF SetOrganizationLogo, SetSince
<1>3. IInv' /\ StateByOwner' /\ Root' = bindings[genesis'.label].id
  BY <1>2, BrandingKeeps
<1>4. genesis # None => genesis \in GenesisRow
  BY DEF EInv, EntityTypeOK
<1>5. /\ genesis = None => genesis' = None
      /\ genesis # None => /\ genesis' \in GenesisRow /\ genesis'.label = genesis.label
                           /\ genesis'.operator = genesis.operator /\ genesis'.image = genesis.image
                           /\ genesis'.logo = IF IsRootOrg(org, n) THEN logo ELSE genesis.logo
  BY <1>2, <1>4 DEF GenesisRow, IsRootOrg
<1>6. EntityTypeOK'
  BY <1>1, <1>2, <1>4, <1>5 DEF EInv, EntityTypeOK
<1>7. UNCHANGED bindings
  BY <1>2 DEF vars
<1>8. RootBound' /\ SinceHasRows'
  <2>1. l \notin UserLookups
    BY DEF OrgLookup, UserLookups, OrgKey, ByName, UserKey, ByHandle
  <2> QED
    BY <1>2, <1>5, <1>7, <2>1, NoneIsNoEntity DEF EInv, RootBound, SinceHasRows
<1>9. CASE genesis = None
  BY <1>3, <1>5, <1>6, <1>8, <1>9 DEF EInv, GenesisInStep
<1>10. CASE genesis # None
  <2>1. /\ genesis' # None /\ Root' = Root /\ since' = since \cup {l}
        /\ UserKey(genesis'.operator) = UserKey(genesis.operator)
    BY <1>2, <1>3, <1>5, <1>10, NoneIsNoEntity DEF Root
  <2>2. UserKey(genesis.operator) # l
    BY DEF UserKey, OrgLookup, OrgKey, ByName
  <2>3. UserKey(genesis'.operator) \in since' =>
          userRows'[UserKey(genesis'.operator)].image = genesis'.image
    BY <1>2, <1>5, <1>10, <2>1, <2>2 DEF EInv, GenesisInStep
  <2>4. RootRows' = {ByName(genesis.label), OrgKey(Root)} \cap since'
    BY <1>5, <1>10, <2>1 DEF RootRows
  <2>5. orgRows'[l] = [logo |-> logo, signer |-> org]
    BY <1>1, <1>2 DEF EInv, EntityTypeOK
  <2>6. CASE IsRootOrg(org, n)
    <3>1. l \in RootRows'
      BY <2>1, <2>4, <2>6 DEF IsRootOrg, OrgLookup
    <3> QED
      BY <1>3, <1>5, <1>6, <1>8, <1>10, <2>1, <2>3, <2>5, <2>6, <3>1 DEF EInv, GenesisInStep
  <2>7. CASE ~ IsRootOrg(org, n) /\ l \in RootRows'
    <3>1. org # Root
      BY <1>10, <2>4, <2>7 DEF IsRootOrg, OrgLookup, OrgKey, ByName
    <3>2. orgRows'[l].signer # Root'
      BY <2>1, <2>5, <3>1
    <3> QED
      BY <1>3, <1>6, <1>8, <2>3, <2>7, <3>2 DEF EInv, GenesisInStep
  <2>8. CASE ~ IsRootOrg(org, n) /\ l \notin RootRows'
    <3>1. RootRows' = RootRows /\ \A k \in RootRows : orgRows'[k] = orgRows[k]
      BY <1>2, <2>1, <2>4, <2>8 DEF EInv, EntityTypeOK, RootRows
    <3>2. genesis'.logo = genesis.logo
      BY <1>5, <1>10, <2>8
    <3> QED
      BY <1>3, <1>6, <1>8, <1>10, <2>1, <2>3, <3>1, <3>2 DEF EInv, GenesisInStep
  <2> QED
    BY <2>6, <2>7, <2>8
<1> QED
  BY <1>9, <1>10

\* The rows of a user are its own and at most one handle's, and no organization's.
LEMMA WrittenLookups ==
  ASSUME NEW user \in Identities, NEW h \in Handles \cup {None}
  PROVE  /\ Written(user, h) \subseteq UserLookups
         /\ UserKey(user) \in Written(user, h)
         /\ \A i \in Identities : UserKey(i) \in Written(user, h) => i = user
         /\ Written(user, h) \cap OrgLookups = {}
BY DEF Written, UserLookups, OrgLookups, UserKey, ByHandle, OrgKey, ByName

\* Either the picture goes to the genesis row as well, or it is another user's.
LEMMA StepSetUserProfileImage ==
  ASSUME EInv, NEW user \in Identities, NEW h \in Handles \cup {None}, NEW image \in Images \cup {None},
         SetUserProfileImage(user, h, image)
  PROVE  EInv'
<1>1. /\ userRows' = [l \in UserLookups |->
           IF l \in Written(user, h) THEN WithImage(userRows[l], image, user) ELSE userRows[l]]
      /\ genesis' = IF genesis # None /\ genesis.operator = user
                    THEN [genesis EXCEPT !.image = image] ELSE genesis
      /\ since' = IF genesis = None THEN {} ELSE since \cup Written(user, h)
      /\ UNCHANGED <<vars, heartbeats, reports, orgRows>>
  BY DEF SetUserProfileImage, SetSince
<1>2. IInv' /\ StateByOwner' /\ Root' = bindings[genesis'.label].id
  BY <1>1, BrandingKeeps
<1>3. genesis # None => genesis \in GenesisRow
  BY DEF EInv, EntityTypeOK
<1>4. /\ genesis = None => genesis' = None
      /\ genesis # None => /\ genesis' \in GenesisRow /\ genesis'.label = genesis.label
                           /\ genesis'.operator = genesis.operator /\ genesis'.logo = genesis.logo
                           /\ genesis'.image = IF genesis.operator = user THEN image ELSE genesis.image
  BY <1>1, <1>3 DEF GenesisRow
<1>5. \A l \in UserLookups : WithImage(userRows[l], image, user) \in UserRow
  BY DEF WithImage, UserRow, EInv, EntityTypeOK
<1>6. EntityTypeOK'
  BY <1>1, <1>3, <1>4, <1>5, WrittenLookups DEF EInv, EntityTypeOK
<1>7. RootBound' /\ SinceHasRows'
  BY <1>1, <1>4, <1>5, NoneIsNoEntity DEF EInv, RootBound, SinceHasRows, vars
<1>8. CASE genesis = None
  BY <1>2, <1>4, <1>6, <1>7, <1>8 DEF EInv, GenesisInStep
<1>9. CASE genesis # None
  <2> DEFINE o == UserKey(genesis.operator)
  <2>1. /\ genesis' # None /\ Root' = Root /\ since' = since \cup Written(user, h)
        /\ UserKey(genesis'.operator) = o /\ genesis.operator \in Identities
    BY <1>1, <1>2, <1>3, <1>4, <1>9, NoneIsNoEntity DEF Root, GenesisRow
  <2>2. o \in UserLookups
    BY <2>1 DEF UserLookups
  <2>4. o \in since' => userRows'[o].image = genesis'.image
    <3>1. CASE genesis.operator = user
      BY <1>1, <1>4, <1>9, <2>2, <3>1, WrittenLookups DEF WithImage
    <3>2. CASE genesis.operator # user
      <4>1. o \notin Written(user, h)
        BY <2>1, <3>2, WrittenLookups
      <4>2. userRows'[o] = userRows[o] /\ genesis'.image = genesis.image /\ (o \in since' => o \in since)
        BY <1>1, <1>4, <1>9, <2>1, <2>2, <3>2, <4>1
      <4> QED
        BY <1>9, <4>2 DEF EInv, GenesisInStep
    <3> QED
      BY <3>1, <3>2
  <2>5. RootRows' = RootRows
    <3>1. {ByName(genesis.label), OrgKey(Root)} \cap Written(user, h) = {}
      BY DEF Written, UserKey, ByHandle, OrgKey, ByName
    <3> QED
      BY <1>4, <1>9, <2>1, <3>1 DEF RootRows
  <2> QED
    BY <1>1, <1>2, <1>4, <1>6, <1>7, <1>9, <2>1, <2>4, <2>5 DEF EInv, GenesisInStep
<1> QED
  BY <1>8, <1>9

\* A description leaves the pictures alone.
LEMMA StepSetUserDescription ==
  ASSUME EInv, NEW user \in Identities, NEW h \in Handles \cup {None}, NEW text \in Texts \cup {None},
         SetUserDescription(user, h, text)
  PROVE  EInv'
<1>1. /\ userRows' = [l \in UserLookups |->
           IF l \in Written(user, h) THEN WithText(userRows[l], text, user) ELSE userRows[l]]
      /\ UNCHANGED <<vars, heartbeats, reports, orgRows, genesis, since>>
  BY DEF SetUserDescription
<1>2. IInv' /\ StateByOwner' /\ Root' = bindings[genesis'.label].id
  BY <1>1, BrandingKeeps
<1>3. \A l \in UserLookups : WithText(userRows[l], text, user) \in UserRow
  BY DEF WithText, UserRow, EInv, EntityTypeOK
<1>4. EntityTypeOK'
  BY <1>1, <1>3 DEF EInv, EntityTypeOK
<1>5. RootBound' /\ Root' = Root
  BY <1>1, <1>2 DEF EInv, RootBound, Root, vars
<1>6. \A l \in UserLookups : userRows[l] # None => userRows'[l].image = userRows[l].image
  BY <1>1 DEF WithText
<1>7. SinceHasRows'
  BY <1>1, <1>3, NoneIsNoEntity DEF EInv, SinceHasRows
<1>8. CASE genesis = None
  BY <1>1, <1>2, <1>4, <1>5, <1>7, <1>8 DEF EInv, GenesisInStep
<1>9. CASE genesis # None
  <2>1. UserKey(genesis.operator) \in UserLookups
    BY <1>9 DEF EInv, EntityTypeOK, GenesisRow, UserLookups
  <2>2. UserKey(genesis.operator) \in since =>
          userRows'[UserKey(genesis.operator)].image = genesis.image
    BY <1>6, <1>9, <2>1 DEF EInv, GenesisInStep, SinceHasRows
  <2>3. RootRows' = RootRows
    BY <1>1, <1>5 DEF RootRows
  <2> QED
    BY <1>1, <1>2, <1>4, <1>5, <1>7, <1>9, <2>2, <2>3 DEF EInv, GenesisInStep
<1> QED
  BY <1>8, <1>9

--------------------------------------------------------------------------------

\* Empty tables satisfy the invariant.
LEMMA EntityInitEInv == EntityInit => EInv
<1> SUFFICES ASSUME EntityInit PROVE EInv
  OBVIOUS
<1>1. IInv
  BY InitIInv DEF EntityInit
<1>2. EntityTypeOK
  BY DEF EntityInit, EntityTypeOK
<1>3. RootBound /\ SinceHasRows /\ StateByOwner /\ GenesisInStep
  BY DEF EntityInit, RootBound, SinceHasRows, StateByOwner, GenesisInStep
<1> QED
  BY <1>1, <1>2, <1>3 DEF EInv

\* Every step keeps it.
LEMMA EntityNextEInv == EInv /\ [EntityNext]_allVars => EInv'
<1> SUFFICES ASSUME EInv, [EntityNext]_allVars PROVE EInv'
  OBVIOUS
<1>1. CASE (Next \/ UNCHANGED vars) /\ UNCHANGED entityVars
  BY <1>1, StepRegistry
<1>2. ASSUME NEW n \in Names, NEW k \in Keys,
             \/ \E t \in Times : Heartbeat(n, t, k)
             \/ \E ph \in Phases : ReportState(n, ph, k)
      PROVE  EInv'
  BY <1>2, StepHeartbeat, StepReportState
<1>3. ASSUME NEW i \in Identities, NEW n \in Names, NEW op \in Identities,
             NEW logo \in Logos \cup {None}, NEW image \in Images \cup {None},
             CompleteGenesis(n, i, op, logo, image)
      PROVE  EInv'
  BY <1>3, StepCompleteGenesis
<1>4. ASSUME NEW i \in Identities, NEW n \in Names \cup {None}, NEW logo \in Logos \cup {None},
             SetOrganizationLogo(i, n, logo)
      PROVE  EInv'
  BY <1>4, StepSetOrganizationLogo
<1>5. ASSUME NEW i \in Identities, NEW h \in Handles \cup {None},
             \/ \E image \in Images \cup {None} : SetUserProfileImage(i, h, image)
             \/ \E text \in Texts \cup {None} : SetUserDescription(i, h, text)
      PROVE  EInv'
  BY <1>5, StepSetUserProfileImage, StepSetUserDescription
<1> QED
  BY <1>1, <1>2, <1>3, <1>4, <1>5 DEF EntityNext, allVars

\* So it always holds.
LEMMA AlwaysEInv == EntitySpec => []EInv
  BY EntityInitEInv, EntityNextEInv, PTL DEF EntitySpec

\* Heartbeats and reports are only ever shown under the key that sent them.
THEOREM StateIsTheOwners == EntitySpec => []StateByOwner
<1>1. EInv => StateByOwner
  BY DEF EInv
<1> QED
  BY <1>1, AlwaysEInv, PTL

\* The root logo and the operator's picture in core_genesis agree with the rows
\* they were copied from.
THEOREM GenesisFollowsBranding == EntitySpec => []GenesisInStep
<1>1. EInv => GenesisInStep
  BY DEF EInv
<1> QED
  BY <1>1, AlwaysEInv, PTL
================================================================================
