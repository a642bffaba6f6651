----------------------------- MODULE KeymasterVault -----------------------------
(***************************************************************************)
(* Keymaster: a loopback server that keeps signing identities in one       *)
(* encrypted file and, while unlocked, in sessions in its memory.          *)
(*                                                                         *)
(* Handlers have no await, so one server handles one request at a time;    *)
(* but a request that changes the vault reads the file, derives keys and   *)
(* writes it back, and another server on the same file may come between,   *)
(* the write may fail, the process may die.  A handler is far shorter than *)
(* the timeouts: the clock stands still while one runs.                    *)
(***************************************************************************)
EXTENDS Integers

CONSTANTS
  Servers,        \* Keymaster processes on one vault file
  Names,          \* display names
  None,           \* no file
  IdleTimeout,    \* SESSION_IDLE_TIMEOUT_SEC
  MaxLifetime,    \* SESSION_MAX_LIFETIME_SEC
  MaxIdentities,  \* bound: identities generated
  MaxSessions,    \* bound: sessions opened
  Horizon         \* bound: last instant of the clock

ASSUME ConstantShape ==
  /\ IdleTimeout \in Nat /\ MaxLifetime \in Nat
  /\ MaxIdentities \in Nat /\ MaxSessions \in Nat /\ Horizon \in Nat

VARIABLES
  now,       \* time.monotonic()
  file,      \* the profiles in vault.json, names by id, or None
  sessions,  \* keymaster_sessions of all servers, by session id
  task,      \* per server: the request it is in
  minted,    \* identities generated so far
  opened,    \* sessions opened so far
  login,     \* per session: when it was opened (history)
  own,       \* per session: its cookie's last request (history)
  shown      \* identities a browser was shown (history)

memory  == <<sessions, opened>>
history == <<login, own, shown>>
vars    == <<now, file, sessions, task, minted, opened, login, own, shown>>

Ids  == 1..MaxIdentities
Sids == 1..MaxSessions

\* profiles is a list whose ids are distinct: the names by id.
Profiles == UNION {[I -> Names] : I \in SUBSET Ids}

NoProfiles == [i \in {} |-> None]

ASSUME NoneIsNoFile == None \notin Profiles

Session == [server : Servers, vault : Profiles, created : Nat, seen : Nat]

Idle == [op |-> "idle"]

--------------------------------------------------------------------------------
(* Sessions *)

\* SessionRecord.is_expired
Expired(x) == now - x.seen > IdleTimeout \/ now - x.created > MaxLifetime

\* The sessions the middleware leaves before a request of s is handled.
Live(s) == {i \in DOMAIN sessions : ~ (sessions[i].server = s /\ Expired(sessions[i]))}

Pruned(s) == [i \in Live(s) |-> sessions[i]]

\* touch() of one session of a table.
Touched(table, i) ==
  [j \in DOMAIN table |->
     IF j = i
     THEN [server |-> table[j].server, vault |-> table[j].vault,
           created |-> table[j].created, seen |-> now]
     ELSE table[j]]

\* The cookie of i is a live session of s.
Unlocked(s, i) == i \in Live(s) /\ sessions[i].server = s

\* A request with that cookie: pruned, resolved and touched.
OwnRequest(s, i) ==
  /\ Unlocked(s, i)
  /\ sessions' = Touched(Pruned(s), i)
  /\ own' = [own EXCEPT ![i] = now]

\* new_session_id for a vault; the table is pruned again.
Opened(s, v) ==
  [i \in Live(s) \cup {opened + 1} |->
     IF i = opened + 1 THEN [server |-> s, vault |-> v, created |-> now, seen |-> now]
     ELSE sessions[i]]

Open(s, v) ==
  /\ opened < MaxSessions
  /\ opened' = opened + 1
  /\ sessions' = Opened(s, v)
  /\ login' = [login EXCEPT ![opened + 1] = now]
  /\ own' = [own EXCEPT ![opened + 1] = now]

\* Variant: every session is touched.
SharedAndTouched(s, i, v) ==
  [j \in DOMAIN sessions |->
     IF sessions[j].server = s
     THEN [server |-> s, vault |-> v, created |-> sessions[j].created, seen |-> now]
     ELSE sessions[j]]

\* Variant: only the session that wrote gets the new vault.
SharedWithWriter(s, i, v) ==
  [j \in DOMAIN sessions |->
     IF j = i THEN [server |-> s, vault |-> v, created |-> sessions[j].created, seen |-> now]
     ELSE sessions[j]]

\* replace_session_vault: all sessions of s get the vault, i alone is touched.
Shared(s, i, v) ==
  [j \in DOMAIN sessions |->
     IF sessions[j].server = s
     THEN [server |-> s, vault |-> v, created |-> sessions[j].created,
           seen |-> IF j = i THEN now ELSE sessions[j].seen]
     ELSE sessions[j]]

--------------------------------------------------------------------------------
(* Requests *)

Free(s) == task[s] = Idle

Goes(s, t) == task' = [task EXCEPT ![s] = t]

\* A page that needs no session, or a request whose session is gone.
Visit(s) ==
  /\ Free(s)
  /\ sessions' = Pruned(s)
  /\ UNCHANGED <<now, file, task, minted, opened, history>>

\* The list of identities, as the session holds it.
View(s, i) ==
  /\ Free(s)
  /\ OwnRequest(s, i)
  /\ shown' = shown \cup DOMAIN sessions[i].vault
  /\ UNCHANGED <<now, file, task, minted, opened, login>>

\* A page of one identity: its details, a signature, an export, the rename form;
\* or that the session has no such identity.
Use(s, i, p) ==
  /\ Free(s)
  /\ OwnRequest(s, i)
  /\ shown' = shown \cup (DOMAIN sessions[i].vault \cap {p})
  /\ UNCHANGED <<now, file, task, minted, opened, login>>

Lock(s, i) ==
  /\ Free(s)
  /\ i \in DOMAIN sessions /\ sessions[i].server = s
  /\ sessions' = [j \in Live(s) \ {i} |-> sessions[j]]
  /\ UNCHANGED <<now, file, task, minted, opened, history>>

\* POST /unlock reads the file ...
BeginUnlock(s) ==
  /\ Free(s)
  /\ file # None
  /\ sessions' = Pruned(s)
  /\ Goes(s, [op |-> "unlock", profiles |-> file])
  /\ UNCHANGED <<now, file, minted, opened, history>>

\* ... and with the right passphrase opens a session on what it read.
FinishUnlock(s) ==
  /\ task[s].op = "unlock"
  /\ Open(s, task[s].profiles)
  /\ Goes(s, Idle)
  /\ UNCHANGED <<now, file, minted, shown>>

\* Variant: POST /setup trusts the form it served.
MaySetUpAgain == TRUE

\* vault_exists() is false.
MaySetUp == file = None

BeginSetup(s) ==
  /\ Free(s)
  /\ MaySetUp
  /\ sessions' = Pruned(s)
  /\ Goes(s, [op |-> "setup"])
  /\ UNCHANGED <<now, file, minted, opened, history>>

\* The new, empty vault replaces whatever is there.
FinishSetup(s) ==
  /\ task[s].op = "setup"
  /\ file' = NoProfiles
  /\ Open(s, NoProfiles)
  /\ Goes(s, Idle)
  /\ UNCHANGED <<now, minted, shown>>

\* POST /identities/new: session, then the file as it is now.
BeginNew(s, i, n) ==
  /\ Free(s)
  /\ file # None
  /\ OwnRequest(s, i)
  /\ Goes(s, [op |-> "new", sid |-> i, name |-> n, profiles |-> file])
  /\ UNCHANGED <<now, file, minted, opened, login, shown>>

\* POST /identities/{id}/rename: the identity is in the session and in the file.
BeginRename(s, i, p, n) ==
  /\ Free(s)
  /\ file # None
  /\ OwnRequest(s, i)
  /\ p \in DOMAIN sessions[i].vault \cap DOMAIN file
  /\ Goes(s, [op |-> "rename", sid |-> i, id |-> p, name |-> n, profiles |-> file])
  /\ UNCHANGED <<now, file, minted, opened, login, shown>>

\* write_envelope succeeds, the sessions get what was written, the browser is
\* sent to the identity.
Written(s, i, v, p) ==
  /\ file' = v
  /\ sessions' = Shared(s, i, v)
  /\ own' = [own EXCEPT ![i] = now]
  /\ shown' = shown \cup {p}
  /\ Goes(s, Idle)
  /\ UNCHANGED <<now, opened, login>>

\* What a request that writes writes.
WithNew(t) ==
  [j \in DOMAIN t.profiles \cup {minted + 1} |->
     IF j = minted + 1 THEN t.name ELSE t.profiles[j]]

Renamed(t) == [j \in DOMAIN t.profiles |-> IF j = t.id THEN t.name ELSE t.profiles[j]]

FinishNew(s) ==
  /\ task[s].op = "new"
  /\ minted < MaxIdentities
  /\ minted' = minted + 1
  /\ Written(s, task[s].sid, WithNew(task[s]), minted + 1)

FinishRename(s) ==
  /\ task[s].op = "rename"
  /\ Written(s, task[s].sid, Renamed(task[s]), task[s].id)
  /\ UNCHANGED minted

\* A wrong passphrase, a name or file that is refused, a failing write: an error
\* page, and neither file nor sessions change.
Fail(s) ==
  /\ ~ Free(s)
  /\ Goes(s, Idle)
  /\ UNCHANGED <<now, file, minted, memory, history>>

\* The process has ended and is started again: its sessions are gone.
Restarted(s) ==
  /\ sessions' = [i \in {j \in DOMAIN sessions : sessions[j].server # s} |-> sessions[i]]
  /\ Goes(s, Idle)
  /\ UNCHANGED <<now, opened, history>>

\* It ended before the new file was moved into place ...
Crash(s) ==
  /\ Restarted(s)
  /\ UNCHANGED <<file, minted>>

\* ... or after that, before anyone was told.
CrashAfterWrite(s) ==
  /\ Restarted(s)
  /\ \/ /\ task[s].op = "setup"
        /\ file' = NoProfiles
        /\ UNCHANGED minted
     \/ /\ task[s].op = "new"
        /\ minted < MaxIdentities
        /\ minted' = minted + 1
        /\ file' = WithNew(task[s])
     \/ /\ task[s].op = "rename"
        /\ file' = Renamed(task[s])
        /\ UNCHANGED minted

Tick ==
  /\ now < Horizon
  /\ \A s \in Servers : Free(s)
  /\ now' = now + 1
  /\ UNCHANGED <<file, memory, task, minted, history>>

--------------------------------------------------------------------------------

\* No vault yet.
Init ==
  /\ now = 0
  /\ file = None
  /\ sessions = [i \in {} |-> None]
  /\ task = [s \in Servers |-> Idle]
  /\ minted = 0 /\ opened = 0
  /\ login = [i \in Sids |-> 0]
  /\ own = [i \in Sids |-> 0]
  /\ shown = {}

Step(s) ==
  \/ Visit(s)
  \/ \E i \in Sids : View(s, i) \/ Lock(s, i) \/ \E p \in Ids : Use(s, i, p)
  \/ BeginUnlock(s) \/ FinishUnlock(s)
  \/ BeginSetup(s) \/ FinishSetup(s)
  \/ \E i \in Sids, n \in Names : BeginNew(s, i, n) \/ \E p \in Ids : BeginRename(s, i, p, n)
  \/ FinishNew(s) \/ FinishRename(s)
  \/ Fail(s) \/ Crash(s) \/ CrashAfterWrite(s)

Next == Tick \/ \E s \in Servers : Step(s)

Spec == Init /\ [][Next]_vars

--------------------------------------------------------------------------------
(* Properties *)

Task ==
  {Idle} \cup [op : {"setup"}] \cup [op : {"unlock"}, profiles : Profiles]
    \cup [op : {"new"}, sid : Sids, name : Names, profiles : Profiles]
    \cup {t \in [op : {"rename"}, sid : Sids, id : Ids, name : Names, profiles : Profiles] :
            t.id \in DOMAIN t.profiles}

\* Types of the variables; a request that changes the vault has its session.
TypeOK ==
  /\ now \in Nat
  /\ file \in Profiles \cup {None}
  /\ minted \in 0..MaxIdentities /\ opened \in 0..MaxSessions
  /\ DOMAIN sessions \subseteq 1..opened
  /\ sessions \in [DOMAIN sessions -> Session]
  /\ task \in [Servers -> Task]
  /\ \A s \in Servers : task[s].op \in {"new", "rename"} =>
       task[s].sid \in DOMAIN sessions /\ sessions[task[s].sid].server = s
  /\ login \in [Sids -> Nat] /\ own \in [Sids -> Nat]
  /\ shown \subseteq Ids

\* An identity that a browser was shown is in the file: neither another tab, a
\* failing write, a crash nor a second setup loses it.
ShownIsStored == \A p \in shown : file # None /\ p \in DOMAIN file

\* "After a disk write: every active session shares the same vault": every tab
\* shows the vault that is on disk.
SessionsShowFile == \A i \in DOMAIN sessions : sessions[i].vault = file

\* A session is used only within the idle timeout of its own cookie's last
\* request and within the maximum lifetime of its login, whatever other tabs do.
WithinLimits ==
  [][\A i \in Sids : (i <= opened /\ own'[i] # own[i]) =>
       own'[i] - own[i] <= IdleTimeout /\ own'[i] - login[i] <= MaxLifetime]_vars
================================================================================
