-------------------------------- MODULE Genesis --------------------------------
(***************************************************************************)
(* The genesis wizard: an operator proves its signing key by answering a   *)
(* one-shot challenge, completes the wizard once (root organization bound, *)
(* operator key installed as bootstrap key), and may reset it in a lab.    *)
(*                                                                         *)
(* The HTTP server and "modulr-core genesis" are processes that open one   *)
(* SQLite file.  Python opens a transaction at the first INSERT, UPDATE or *)
(* DELETE: every SELECT before it reads the state of its own instant, and  *)
(* the writes up to commit() are one step, for the write lock keeps other  *)
(* writers out and readers see none of them.  conn_lock makes the          *)
(* operations of one process run one after the other.                      *)
(***************************************************************************)
EXTENDS Integers

CONSTANTS
  Processes,      \* processes with the database open
  Cli,            \* those that run the genesis CLI: they can reset, not brand
  Operators,      \* operator signing keys
  OrgKeys,        \* signing keys of root organizations
  Labels,         \* root organization names, already lower case
  Brandings,      \* display name, logo and picture sent with complete
  None,           \* SQL NULL
  Ttl,            \* CHALLENGE_TTL_SECONDS
  Window,         \* GENESIS_COMPLETION_WINDOW_SECONDS
  Overlap,        \* whether operations of different processes may overlap
  MaxChallenges,  \* bound: challenges issued
  Horizon         \* bound: last second of the clock

ASSUME ConstantShape ==
  /\ Cli \subseteq Processes
  /\ Ttl \in Nat /\ Window \in Nat
  /\ MaxChallenges \in Nat /\ Horizon \in Nat
  /\ Overlap \in BOOLEAN
  /\ None \notin Operators \cup OrgKeys \cup Labels \cup Brandings \cup Nat
  /\ None \notin [id : OrgKeys, plain : BOOLEAN]

VARIABLES
  now,         \* seconds
  genesis,     \* the core_genesis row
  challenges,  \* genesis_challenge: rows by challenge_id
  bindings,    \* name_bindings: per label [id, plain] or None
  task,        \* per process: the operation it is in and what it has read
  issued,      \* challenges issued so far (history; an id is never repeated)
  verified,    \* per challenge: how often verify reported success (history)
  signers,     \* keys that proved themselves (history)
  published    \* labels bound by register_org or register_name (history)

store   == <<genesis, challenges, bindings>>
history == <<issued, verified, signers, published>>
vars    == <<now, genesis, challenges, bindings, task, issued, verified, signers, published>>

Ids == 1..MaxChallenges

\* The columns the wizard sets, as migration 007 and reset leave them.
\* brand stands for display name, logo and picture.
Blank(inst) ==
  [complete |-> FALSE, operator |-> None, label |-> None, brand |-> None, instance |-> inst]

Challenge == [subject : Operators, expires : Nat, consumed : Nat \cup {None}]

\* What complete is called with; the CLI has no argument for logo and picture.
Form == [id : Ids, subject : Operators, label : Labels, org : OrgKeys,
         brand : Brandings \cup {None}]

Binding == [id : OrgKeys, plain : BOOLEAN]

Idle == [op |-> "idle"]

--------------------------------------------------------------------------------
(* Beginning and ending an operation *)

\* The first step of an operation of p; without Overlap no process starts one
\* while another is in one.
Begin(p, t) ==
  /\ task[p] = Idle
  /\ Overlap \/ \A q \in Processes : task[q] = Idle
  /\ task' = [task EXCEPT ![p] = t]

\* The next step of the operation p is in.
Advance(p, t) == task' = [task EXCEPT ![p] = t]

\* An error response, a failed check, SQLITE_BUSY, a failed commit or the end of
\* the process: what the operation wrote is rolled back.
Fail(p) ==
  /\ task[p] # Idle
  /\ Advance(p, Idle)
  /\ UNCHANGED <<now, store, history>>

--------------------------------------------------------------------------------
(* issue: POST /genesis/challenge *)

BeginIssue(p, s) ==
  /\ ~ genesis.complete
  /\ Begin(p, [op |-> "issue", subject |-> s, at |-> now, instance |-> genesis.instance])
  /\ UNCHANGED <<now, store, history>>

\* Variant: the instance id is the one read with genesis_complete.
InstanceOfSnapshot(p) ==
  IF task[p].instance = None THEN issued + 1 ELSE task[p].instance

\* get_or_create_instance_id, inside the transaction that touch() opened; a new
\* UUID is named by the challenge it comes with.
InstanceInUse(p) ==
  IF genesis.instance = None THEN issued + 1 ELSE genesis.instance

FinishIssue(p) ==
  /\ task[p].op = "issue"
  /\ issued < MaxChallenges
  /\ issued' = issued + 1
  /\ genesis' = [genesis EXCEPT !.instance = InstanceInUse(p)]
  /\ challenges' = [i \in DOMAIN challenges \cup {issued'} |->
       IF i = issued'
       THEN [subject |-> task[p].subject, expires |-> task[p].at + Ttl, consumed |-> None]
       ELSE challenges[i]]
  /\ Advance(p, Idle)
  /\ UNCHANGED <<now, bindings, verified, signers, published>>

--------------------------------------------------------------------------------
(* verify_and_consume: POST /genesis/challenge/verify *)

BeginVerify(p, i) ==
  /\ ~ genesis.complete
  /\ Begin(p, [op |-> "verify", id |-> i])
  /\ UNCHANGED <<now, store, history>>

\* The row is there, pending and not expired, and the signature over its body
\* is its subject's.
CheckSignature(p) ==
  /\ task[p].op = "verify"
  /\ task[p].id \in DOMAIN challenges
  /\ LET row == challenges[task[p].id]
     IN  /\ row.consumed = None
         /\ now < row.expires
         /\ Advance(p, [op |-> "signed", id |-> task[p].id,
                        subject |-> row.subject, at |-> now])
  /\ UNCHANGED <<now, store, history>>

\* Variant: the UPDATE has no "consumed_at IS NULL".
ConsumableAnyRow(i) == i \in DOMAIN challenges

\* The row the UPDATE of mark_consumed finds.
Consumable(i) == i \in DOMAIN challenges /\ challenges[i].consumed = None

\* mark_consumed changes one row, or verify fails.
FinishVerify(p) ==
  /\ task[p].op = "signed"
  /\ LET i == task[p].id
     IN  /\ Consumable(i)
         /\ challenges' = [challenges EXCEPT ![i] =
              [subject |-> @.subject, expires |-> @.expires, consumed |-> task[p].at]]
         /\ verified' = [verified EXCEPT ![i] = @ + 1]
         /\ signers' = signers \cup {task[p].subject}
  /\ Advance(p, Idle)
  /\ UNCHANGED <<now, genesis, bindings, issued, published>>

--------------------------------------------------------------------------------
(* complete_genesis: POST /genesis/complete *)

\* Variant: completing the same root organization again is allowed.
BeginCompleteAgain(p, form) ==
  /\ genesis.complete => form.label = genesis.label
  /\ p \in Cli => form.brand = None
  /\ Begin(p, [op |-> "complete", form |-> form])
  /\ UNCHANGED <<now, store, history>>

BeginComplete(p, form) ==
  /\ ~ genesis.complete
  /\ p \in Cli => form.brand = None
  /\ Begin(p, [op |-> "complete", form |-> form])
  /\ UNCHANGED <<now, store, history>>

\* Variant: the subject of the request is not compared with the row's.
AnsweredByAnyone(f) ==
  /\ f.id \in DOMAIN challenges
  /\ challenges[f.id].consumed # None
  /\ now - challenges[f.id].consumed <= Window

\* The challenge was verified, for this subject, and not too long ago.
Answered(f) ==
  /\ f.id \in DOMAIN challenges
  /\ challenges[f.id].consumed # None
  /\ challenges[f.id].subject = f.subject
  /\ now - challenges[f.id].consumed <= Window

CheckChallenge(p) ==
  /\ task[p].op = "complete"
  /\ Answered(task[p].form)
  /\ Advance(p, [op |-> "checked", form |-> task[p].form])
  /\ UNCHANGED <<now, store, history>>

\* The name is free, or bound to this organization with no route or metadata.
ReadName(p) ==
  /\ task[p].op = "checked"
  /\ LET f == task[p].form
     IN  /\ bindings[f.label] \in {None, [id |-> f.org, plain |-> TRUE]}
         /\ Advance(p, [op |-> "named", form |-> f, insert |-> bindings[f.label] = None])
  /\ UNCHANGED <<now, store, history>>

\* Variant: INSERT OR REPLACE.
InsertReplaces(f) == TRUE

\* The INSERT of the binding fails when the name was bound since it was read.
InsertSucceeds(f) == bindings[f.label] = None

FinishComplete(p) ==
  /\ task[p].op = "named"
  /\ LET f == task[p].form
     IN  /\ task[p].insert => InsertSucceeds(f)
         /\ bindings' = [bindings EXCEPT ![f.label] =
              IF task[p].insert THEN [id |-> f.org, plain |-> TRUE] ELSE @]
         /\ genesis' = [complete |-> TRUE, operator |-> f.subject, label |-> f.label,
                        brand |-> f.brand, instance |-> genesis.instance]
  /\ Advance(p, Idle)
  /\ UNCHANGED <<now, challenges, history>>

--------------------------------------------------------------------------------
(* reset_genesis_state: modulr-core genesis reset *)

BeginReset(p) ==
  /\ p \in Cli
  /\ Begin(p, [op |-> "reset", complete |-> genesis.complete, label |-> genesis.label])
  /\ UNCHANGED <<now, store, history>>

\* Variant: the label is read after the wizard's state was cleared.
UnboundNothing(t) == bindings

\* delete_by_name of the root label, when the wizard was complete.
Unbound(t) == [l \in Labels |-> IF t.complete /\ l = t.label THEN None ELSE bindings[l]]

\* clear_genesis_wizard_state; instance_id stays.
Cleared == Blank(genesis.instance)

\* Variant: challenges outlive the wizard they were issued for.
ChallengesKept == challenges

\* delete_all_challenges.
ChallengesDeleted == [i \in {} |-> None]

\* The root binding, all challenges and the wizard's columns go.
FinishReset(p) ==
  /\ task[p].op = "reset"
  /\ bindings' = Unbound(task[p])
  /\ challenges' = ChallengesDeleted
  /\ genesis' = Cleared
  /\ Advance(p, Idle)
  /\ UNCHANGED <<now, history>>

--------------------------------------------------------------------------------
(* The rest of the server *)

\* Between two operations of the server.
ServerFree(p) ==
  /\ p \notin Cli
  /\ task[p] = Idle
  /\ Overlap \/ \A q \in Processes : task[q] = Idle

\* register_org or register_name binds a free name.  The row of message_dedup
\* opened the transaction, so what the handler read of the name is still true.
Register(p, l, k) ==
  /\ ServerFree(p)
  /\ bindings[l] = None
  /\ \E plain \in BOOLEAN : bindings' = [bindings EXCEPT ![l] = [id |-> k, plain |-> plain]]
  /\ published' = published \cup {l}
  /\ UNCHANGED <<now, genesis, challenges, task, issued, verified, signers>>

\* register_org with a signing key gives the organization's binding a route.
AddRoute(p, l) ==
  /\ ServerFree(p)
  /\ bindings[l] # None
  /\ bindings' = [bindings EXCEPT ![l] = [id |-> @.id, plain |-> FALSE]]
  /\ UNCHANGED <<now, genesis, challenges, task, history>>

Tick ==
  /\ now < Horizon
  /\ now' = now + 1
  /\ UNCHANGED <<store, task, history>>

--------------------------------------------------------------------------------

Init ==
  /\ now = 0
  /\ genesis = Blank(None)
  /\ challenges = [i \in {} |-> None]
  /\ bindings = [l \in Labels |-> None]
  /\ task = [p \in Processes |-> Idle]
  /\ issued = 0
  /\ verified = [i \in Ids |-> 0]
  /\ signers = {} /\ published = {}

Step(p) ==
  \/ \E s \in Operators : BeginIssue(p, s)
  \/ FinishIssue(p)
  \/ \E i \in Ids : BeginVerify(p, i)
  \/ CheckSignature(p)
  \/ FinishVerify(p)
  \/ \E f \in Form : BeginComplete(p, f)
  \/ CheckChallenge(p)
  \/ ReadName(p)
  \/ FinishComplete(p)
  \/ BeginReset(p)
  \/ FinishReset(p)
  \/ Fail(p)
  \/ \E l \in Labels, k \in OrgKeys : Register(p, l, k)
  \/ \E l \in Labels : AddRoute(p, l)

Next == Tick \/ \E p \in Processes : Step(p)

Spec == Init /\ [][Next]_vars

--------------------------------------------------------------------------------
(* Properties *)

Task ==
  {Idle}
    \cup [op : {"issue"}, subject : Operators, at : Nat, instance : Nat \cup {None}]
    \cup [op : {"verify"}, id : Ids]
    \cup [op : {"signed"}, id : Ids, subject : Operators, at : Nat]
    \cup [op : {"complete", "checked"}, form : Form]
    \cup [op : {"named"}, form : Form, insert : BOOLEAN]
    \cup [op : {"reset"}, complete : BOOLEAN, label : Labels \cup {None}]

\* Types of the variables; challenge rows are issued ones, and the wizard's
\* columns are set together: operator and label with genesis_complete.
TypeOK ==
  /\ now \in Nat
  /\ genesis \in [complete : BOOLEAN, operator : Operators \cup {None},
                  label : Labels \cup {None}, brand : Brandings \cup {None},
                  instance : Nat \cup {None}]
  /\ genesis.complete <=> genesis.operator # None
  /\ genesis.complete <=> genesis.label # None
  /\ issued \in 0..MaxChallenges
  /\ DOMAIN challenges \subseteq 1..issued
  /\ challenges \in [DOMAIN challenges -> Challenge]
  /\ bindings \in [Labels -> Binding \cup {None}]
  /\ task \in [Processes -> Task]
  /\ verified \in [Ids -> Nat]
  /\ signers \subseteq Operators
  /\ published \subseteq Labels

\* A challenge is one-shot: whoever submits it, and however two processes
\* interleave, verify succeeds at most once for it.
VerifiedOnce == \A i \in Ids : verified[i] <= 1

\* instance_id is allocated once: later challenges and resets keep it.
InstanceStable ==
  [][genesis.instance # None => genesis'.instance = genesis.instance]_vars

\* The key that becomes bootstrap key is one that answered a challenge.
OperatorProved == genesis.operator # None => genesis.operator \in signers

\* A completed wizard stands as it is: its operator and root organization
\* change by a reset only, never by a second completion.
OperatorFixed ==
  [][genesis.complete /\ genesis'.complete =>
       genesis'.operator = genesis.operator /\ genesis'.label = genesis.label]_vars

\* While genesis is complete its root name is bound, and the challenge its
\* operator answered is still on record.
CompletionBacked ==
  genesis.complete =>
    /\ bindings[genesis.label] # None
    /\ \E i \in DOMAIN challenges :
         challenges[i].consumed # None /\ challenges[i].subject = genesis.operator

\* The wizard leaves no binding behind: a bound name is the root of the
\* completed genesis or was registered by a message, so after a reset the same
\* name can be given to another organization key.
NoOrphanBinding ==
  \A l \in Labels : bindings[l] # None => l \in published \/ genesis.label = l

\* The core as a caller of the endpoints sees it.
CoreView ==
  [complete |-> genesis.complete, operator |-> genesis.operator, label |-> genesis.label,
   challenges |-> [i \in DOMAIN challenges |->
     [subject |-> challenges[i].subject, answered |-> challenges[i].consumed # None]]]

Service == INSTANCE GenesisService WITH core <- CoreView

\* With one operation at a time, statements, failures and time-outs included,
\* each operation takes effect as a whole or not at all; in particular no
\* challenge of an earlier wizard can complete the one after a reset.
ImplementsGenesis == Service!Spec

\* No message or wizard step hands a bound name to another organization.
BindingsKept ==
  [][\A l \in Labels : bindings[l] # None /\ bindings'[l] # None =>
       bindings'[l].id = bindings[l].id]_vars
================================================================================
