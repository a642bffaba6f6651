------------------------------ MODULE Migrations ------------------------------
(***************************************************************************)
(* apply_migrations: every process that opens the database (the server and *)
(* each run of the CLI) brings the schema up to date before anything else. *)
(* executescript runs its statements outside a transaction, so each one is *)
(* committed by itself; processes interleave, crash and are started again. *)
(***************************************************************************)
EXTENDS Integers, Sequences

CONSTANTS
  Processes,   \* processes that start with this database
  Script       \* per version, in order, the kinds of its statements

\* guarded:  IF NOT EXISTS, OR IGNORE or PRAGMA: succeeds again
\* alter:    ALTER TABLE ADD COLUMN: fails when the column is there
\* backfill: copies rows under a UNIQUE key: fails again if it copied any
Kinds == {"guarded", "alter", "backfill"}

ASSUME ScriptShape == Script \in Seq(Seq(Kinds))

Versions == 1..Len(Script)

VARIABLES
  recorded,  \* versions in schema_migrations
  applied,   \* <<version, n>> of the statements that took effect
  legacy,    \* the backfill statements that found rows to copy
  proc,      \* per process: [at, version, next]
  crashed    \* history: whether a process died

schemaVars == <<recorded, applied, legacy, proc, crashed>>

Statements(v) == {v} \X (1..Len(Script[v]))

Backfills ==
  {s \in UNION {Statements(v) : v \in Versions} : Script[s[1]][s[2]] = "backfill"}

Off == [at |-> "off", version |-> 1, next |-> 1]

Goes(p, at, v, n) == proc' = [proc EXCEPT ![p] = [at |-> at, version |-> v, next |-> n]]

--------------------------------------------------------------------------------

\* Start, or start again after a failed start.
Start(p) ==
  /\ proc[p].at \in {"off", "failed"}
  /\ Goes(p, "select", 1, 1)
  /\ UNCHANGED <<recorded, applied, legacy, crashed>>

\* Variant: a version whose tables are there already is skipped.
PendingUntouched(v) == v \notin recorded /\ Statements(v) \cap applied = {}

\* Variant: the newest recorded version counts as pending.
PendingAgain(v) == v \notin recorded \/ (recorded = 1..v /\ v > 1)

Pending(v) == v \notin recorded

\* The SELECT on schema_migrations: skip what is recorded, read the file of
\* what is not; past the last file the process is up.
Look(p) ==
  LET v == proc[p].version
  IN  /\ proc[p].at = "select"
      /\ IF v \notin Versions THEN Goes(p, "up", v, 1)
         ELSE IF Pending(v) THEN Goes(p, "script", v, 1)
         ELSE Goes(p, "select", v + 1, 1)
      /\ UNCHANGED <<recorded, applied, legacy, crashed>>

\* A statement that fails because its effect is there already.
Conflicts(v, n) ==
  /\ <<v, n>> \in applied
  /\ Script[v][n] = "alter" \/ <<v, n>> \in legacy

\* Variant: the last statement is lost with the end of the file.
ScriptEndsEarly(v, n) == n >= Len(Script[v])

\* All statements of the file are done: the INSERT of the version is next.
ScriptEnds(v, n) == n > Len(Script[v])

\* executescript runs and commits one statement.
Execute(p) ==
  LET v == proc[p].version  n == proc[p].next
  IN  /\ proc[p].at = "script"
      /\ ~ ScriptEnds(v, n)
      /\ ~ Conflicts(v, n)
      /\ applied' = applied \cup {<<v, n>>}
      /\ Goes(p, "script", v, n + 1)
      /\ UNCHANGED <<recorded, legacy, crashed>>

\* Its last statement, the INSERT into schema_migrations.
Record(p) ==
  LET v == proc[p].version
  IN  /\ proc[p].at = "script"
      /\ ScriptEnds(v, proc[p].next)
      /\ v \notin recorded
      /\ recorded' = recorded \cup {v}
      /\ Goes(p, "select", v + 1, 1)
      /\ UNCHANGED <<applied, legacy, crashed>>

\* A statement or the INSERT raises: the process does not come up.
Raise(p) ==
  LET v == proc[p].version  n == proc[p].next
  IN  /\ proc[p].at = "script"
      /\ IF ScriptEnds(v, n) THEN v \in recorded ELSE Conflicts(v, n)
      /\ Goes(p, "failed", 1, 1)
      /\ UNCHANGED <<recorded, applied, legacy, crashed>>

\* The process dies, or a statement gives up on a lock (SQLITE_BUSY).
Crash(p) ==
  /\ proc[p] # Off
  /\ proc' = [proc EXCEPT ![p] = Off]
  /\ crashed' = TRUE
  /\ UNCHANGED <<recorded, applied, legacy>>

--------------------------------------------------------------------------------

\* An empty database or one that an earlier release left at some version, with
\* rows to copy or without.
SchemaInit ==
  /\ \E k \in 0..Len(Script) :
       /\ recorded = 1..k
       /\ applied = UNION {Statements(v) : v \in 1..k}
       /\ legacy \in IF k = 0 THEN {{}} ELSE SUBSET Backfills
  /\ proc = [p \in Processes |-> Off]
  /\ crashed = FALSE

Step(p) == Look(p) \/ Execute(p) \/ Record(p) \/ Raise(p)

SchemaNext == \E p \in Processes : Start(p) \/ Step(p) \/ Crash(p)

SchemaSpec == SchemaInit /\ [][SchemaNext]_schemaVars

\* A process keeps running, and is started again when its start failed.
FairSpec == SchemaSpec /\ \A p \in Processes : WF_schemaVars(Step(p)) /\ WF_schemaVars(Start(p))

--------------------------------------------------------------------------------
(* Properties *)

\* Types of the variables.
SchemaTypeOK ==
  /\ recorded \subseteq Versions
  /\ applied \subseteq UNION {Statements(v) : v \in Versions}
  /\ legacy \subseteq Backfills
  /\ proc \in [Processes -> [at : {"off", "failed", "select", "script", "up"},
                             version : 1..(Len(Script) + 1), next : Nat \ {0}]]
  /\ crashed \in BOOLEAN

\* A version is recorded only when each of its statements took effect, though
\* several processes ran parts of the script.
RecordedIsApplied == \A v \in recorded : Statements(v) \subseteq applied

\* A process that came up has the whole schema under it, although it may have
\* gone by the version rows of another one that was still at work.
UpHasSchema ==
  \A p \in Processes :
    proc[p].at = "up" => \A v \in Versions : Statements(v) \subseteq applied

\* While nothing dies, every process comes up: the one that loses a race for a
\* statement fails and finds the version recorded when it is started again.
EveryoneComesUp == \A p \in Processes : <>(proc[p].at = "up" \/ crashed)

\* "One executescript so migration DDL and version row are atomic (avoids applied
\* DDL without a recorded version ...)": outside a running script a version's
\* statements took effect only if it is recorded.
DdlIsRecorded ==
  (\A p \in Processes : proc[p].at # "script") =>
     \A s \in applied : s[1] \in recorded
================================================================================
