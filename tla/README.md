# A verification project for Modulr.Core

TLA+ models of the program in this repository, checked with TLC and, where it says so,
proved with TLAPS. Paths below are relative to the repository; "the server" is
`src/modulr_core` run by `modulr-core`, "the CLI" is `modulr-core genesis ...`, "the
interfaces" are the Next.js application `frontend` and the Vite application `viewer`, which
share most of their components as copies.

    tlc -workers 2 -config MCGenesisSerial.cfg MCGenesis      one run
    tlapm GenesisProofs.tla                                   one module of proofs

PROJECT.json lists the runs, which definition stands for which lines, one mutation of the
code per property that the property catches, the hazards and the theorems.

## 1. Inventory

### Components, their state and their operations

| Component | State | Operations |
|---|---|---|
| Message endpoint and pipeline (`http/app.py`, `messages/pipeline.py`, `http/replay_cache.py`, `repositories/message_dedup.py`) | `message_dedup` rows `(message_id, fingerprint, result_summary, first_seen_at)`; one shared SQLite connection and its open transaction; `conn_lock` | validate, purge, look up or insert the row, dispatch, store the response, commit, answer; replay a stored response; reject; roll back |
| Bootstrap policy (`bootstrap_effective.py`, `operations/authorize.py`) | the configured keys, and the operator in `core_genesis` | asked by the pipeline for every message, and again by privileged handlers |
| Registry (`operations/handlers.py`, `repositories/*`) | `name_bindings`, `modules`, `dial_route_entry`, `core_advertised_route` | `register_name`, `register_org`, `submit_module_route`, `remove_module_route`, and queries |
| Heartbeats and reports (`operations/handlers.py`) | `heartbeat`, `module_state_snapshot` | `heartbeat_update`, `report_module_state`, and queries |
| Branding (`operations/handlers_branding.py`) | `entity_profile_branding`, four columns of `core_genesis` | set logo, set profile image, set description, and queries |
| Genesis wizard (`genesis/*`, `http/genesis.py`, `repositories/core_genesis.py`, `repositories/genesis_challenge.py`) | the `core_genesis` row, `genesis_challenge`, the root organization's row of `name_bindings` | issue a challenge, verify it, complete, reset (CLI only) |
| Migrations (`persistence/migrate.py`, `persistence/connection.py`) | `schema_migrations` and the schema | `apply_migrations`, by every process that starts |
| Configuration, clock, validation, catalogue | none after start | parsing, pure functions, a static table |
| Keymaster (`keymaster/src/modulr_keymaster`) | the vault file; unlocked sessions in memory | set up, unlock, lock, add, rename, sign, export |
| Genesis notice (`AppShell`, `GenesisNoticeModal`, `useCoreVersion`, `lib/genesis*`) | what the core last said of itself; step, form and flags of the wizard | poll, open, dismiss, issue, verify, complete |
| Methods page (`MethodsMock`, `mockMethodCatalog`, `reportModuleStateDetail`, `ReportModuleStateDashboard`) | selected method, search, tab, page; the values of the form; the dashboard of a report | select, search, page, type, execute |
| Backgrounds (`components/background/*`) | the state of each field: balls, board, wall; its animation frame and its resize listener | mount, clean up, frame, resize |
| Settings and shell (`lib/settings.ts`, `AppProviders`, `SettingsPanel`, `ModulrSelect`) | the settings shown and those in `localStorage`; the two panels | load, change, pick a picture, open, close |
| Pages of identity, registration, publishing, resolving, inspecting (`components/*`) | the mocked identity in `localStorage`, the copies the pages keep of it, forms, lookups, object URLs | sign in, claim, register, edit, clear, publish, resolve, inspect |
| Playground, scripts | none | - |

### How they interact

A client signs an envelope and posts it. The pipeline runs under `conn_lock` on the event
loop with no await, so messages of one server never overlap; the handler writes through the
same connection, so its effect, the deduplication row and the stored response are in one
transaction. The genesis routes use the same lock and the same connection but commit by
themselves. The CLI is a second process on the same file: SQLite's locks, not `conn_lock`,
are all there is between it and a running server. Registry and genesis share
`name_bindings`; genesis decides which key the bootstrap policy lets through; branding writes
its own rows and, for the root organization and the operator, the genesis row. Every process
runs the migrations before anything else.

The interfaces talk to a core over HTTP only: the genesis notice to the genesis endpoints,
the Methods page to `POST /message`. The other pages show mocked data and share
`localStorage` and the events that announce a change of it.

### What is hard here

- Python's sqlite3 module opens a transaction at the first write. A SELECT before it is an
  autocommitted read of its own instant, so a check made there may be stale when the write
  comes (genesis completion and reset, challenge verification, migrations).
- `commit()` is called outside every `try` of `POST /message`. When it raises
  `SQLITE_BUSY` the transaction stays open and belongs to the next request.
- Replay protection uses three windows (expiry, skew, replay) over a clock that is a float
  in one place, an `int` in another, and may be stepped back.
- The process may die anywhere; what survives must make sense to a client that retries.
- `executescript` commits each statement by itself: a migration can be half done, and two
  processes may be doing it.
- The registry keeps the best dial of a scope twice, once as a row and once as JSON; branding
  keeps the root logo and the operator's picture twice.
- Keymaster rereads, changes and rewrites a file, with sessions that time out in between.
- In the browser every answer may come late: after the endpoint, the form, the method or the
  identity it was asked for has changed. React cleans an effect up and runs it again on every
  change of an input; a frame, a listener, a timer or an object URL that is missed stays.
- A write to `localStorage` may be refused, and the code swallows it.

### What makes each component correct

- Pipeline: a signed request takes effect at most once; a success the client has seen is
  committed; all answers to one request are the same; a stored row always carries a real
  answer; after failures a retrying client gets its answer.
- Genesis: a challenge is good once; only a proved key becomes the operator; the operator of
  a completed wizard does not change; the instance id is allocated once; no bound name
  changes hands; a reset leaves nothing of the wizard behind. All of it as if each operation
  were one step.
- Migrations: a recorded version was applied whole; a process that is up has the whole
  schema; every process comes up.
- Registry: names and modules keep their owners; the dials of a module are its key's; the
  legacy route is the first dial.
- Heartbeats and reports: what is shown of a module came under the module's key.
- Branding: the copies in `core_genesis` agree with the rows they are copied from.
- Keymaster: no identity is lost, every session sees the vault that is on disk, no session
  outlives its limits.
- Genesis notice: what is shown was said by the core that is configured; a core is completed
  only for the operator that answered it; no button is disabled for good.
- Methods page: what is typed for a report survives, nothing else is carried from one method
  to another, and what is sent meets the core's contract.
- Backgrounds: one loop per field that is shown, none otherwise; the games keep their rules
  through interruptions; whoever waits is drawn.
- Pages: what is shown is what is stored and what was asked for; nothing outlives what it
  belongs to; a reload brings back what was shown.

## 2. Modules

| Module | What it is |
|---|---|
| `IdempotentService` | abstract: the promise of `POST /message` to a client that retries |
| `MessagePipeline` | the endpoint, the deduplication store, the shared transaction, clock and crashes |
| `MessagePipelineProofs` | its invariants, and that it implements `IdempotentService` |
| `GenesisCore` | one core as the callers of its genesis endpoints see it: operators over a record |
| `GenesisService` | abstract: the wizard with operations that are one step each |
| `Genesis`, `GenesisProofs` | the wizard by server and CLI, statement by statement; it implements `GenesisService` |
| `Migrations` | `apply_migrations` by several processes that may crash |
| `Registry` | names, modules, dials and the legacy routes |
| `EntityState` | the registry with heartbeats, reports, branding and genesis completion beside it |
| `DatabaseProofs` | the proofs about these three, which share one database |
| `KeymasterVault`, `KeymasterVaultProofs` | Keymaster's vault file and its sessions, by one or several processes |
| `GenesisNotice`, `GenesisNoticeProofs` | the wizard in the browser, over several `GenesisCore`s |
| `ReportDetail`, `MethodsCatalog`, `MethodsPage`, `MethodsPageProofs` | the report's detail on both sides, the catalogue, and the page that uses them |
| `Metaballs`, `LifeBoard`, `BrickGame`, `Backdrop`, `BackdropProofs` | three games, and the component that starts and stops their loops |
| `AppSettings`, `ShellSettings` | the settings object, and the shell that loads, shows and stores it |
| `RegistrationPricing`, `RegistrationForm`, `PublishForm`, `MockResolve`, `ModuleMetrics` | operators: prices, forms, the resolver, the Inspector's figures and charts |
| `ViewerPages`, `ViewerPagesProofs` | the pages over all of these |
| `MC*` | constants and constraints for TLC |

### MessagePipeline

`db` is what is committed and `work` what the server's only connection sees; both hold the
deduplication rows and `log`, the executions of handlers, which stands for everything a
handler writes. `pc` is the position of the request under the lock. `AcceptFresh` is
validation up to the placeholder row, with the purge that precedes it; `AcceptReplay` is the
branch that finds the same fingerprint; `Reject` every failing check, with the rollback of
`app.py`; then `DispatchSucceeds` or `DispatchFails`, `StoreResult`, and `CommitAndAnswer` or
`CommitRaises`. `CommitRaises` leaves `work` or drops it: busy, or a full disk. The answer may
be lost. `Crash` resets `work` to `db`. An envelope is a record of id, text and two instants;
the fingerprint covers all of them and is therefore the envelope itself. Sizes, JSON and
signatures are decided before state is touched and are abstracted: `Requests` are the
well-formed envelopes, and whatever else arrives is `Reject`.

### Genesis, GenesisCore, GenesisService

Each process has a `task`: the operation it is in and what it has read so far. A step is cut
exactly where another process may come in: after each autocommitted SELECT, never inside the
writes and their commit. `Overlap = FALSE` restricts the system to one operation at a time,
which is what `conn_lock` gives one server and what a careful operator gives server and CLI
by stopping one; `Overlap = TRUE` is a CLI beside a running server. `Fail` is any error,
lock timeout or death of the process: SQLite rolls back. Signatures are modelled by their
outcome: `CheckSignature` succeeds for the subject of the row, or the operation fails.
`Register` and `AddRoute` are what the registry's handlers do to the shared
`name_bindings`. `verified`, `signers` and `published` are history.

`GenesisCore` is the record a caller could reconstruct from the answers: complete or not, for
whom, and the challenges issued since the last reset. `GenesisService` lets one operation at a
time take effect on it; its refinement mapping reads the record off the tables of `Genesis`. The
browser's wizard talks to the same record.

### Migrations

`Script` gives for each version the kinds of its statements; `MCMigrations` states them for
the thirteen files of the repository. A guarded statement can be repeated, `ALTER TABLE ADD
COLUMN` cannot, a backfill cannot when it copied rows. `Look` is one turn of the loop in
`apply_migrations`, `Execute` one statement of `executescript`, `Record` the final INSERT,
`Raise` a statement that fails, `Crash` the end of a process anywhere. The database at the
start is empty or was left by an older release at any version. `crashed` is history. The
specification is called `SchemaSpec`, so that one module can reason about it and the registry.

### Registry and EntityState

The tables as functions from names and as a set of rows, one action per handler. A handler
runs in the transaction its message opened and is rolled back when it raises, so a handler is
one step and a rejected message is no step. The keys are those that the bootstrap policy lets
through. JSON documents are values: a dial's document, other route documents, and `{}`. The
module's version, capabilities and own metadata, which are compared and stored like the route
but never changed afterwards, are left out. `by` in a dial row is history, the key that wrote
it last.

`EntityState` extends `Registry`: its next-state relation has the registry's steps, beside
`Heartbeat`, `ReportState`, `CompleteGenesis`, `SetOrganizationLogo`, `SetUserProfileImage` and
`SetUserDescription`. Branding rows stand under `k:` keys, `h:` handles or `p:` names; a message
may write two. `by` of a heartbeat or a report and `since`, the lookups written since completion,
are history. The branding handlers ask whether the sender may act as bootstrap before they look
at owners; since the pipeline has refused everybody else, that test always succeeds and the
others are never reached, which is why no owner appears in their guards. There is no reset in this
module: a reset unbinds the root and leaves the module, its dials and its branding.

### KeymasterVault

`file` is the list of identities in `vault.json`, `sessions` the table of every process. A
request that changes the vault is two steps, because it reads the file, derives keys and writes
the file back: `BeginNew` to `FinishNew`, `BeginRename` to `FinishRename`, and the same for
unlock and setup. The handlers have no await, so one process is in one request at a time; between
the two steps only another process can come in. `Fail` is an error page, `Crash` and
`CrashAfterWrite` the end of a process before and after `tmp.replace(path)`. `Pruned` is the
middleware, `OwnRequest` the resolution of a cookie, `Shared` is `replace_session_vault`. The clock
stands still during a request, which is far shorter than either timeout. `login`, `own` and
`shown` are history. Encryption, key generation and the pages are left out; a passphrase is right
or the request fails.

### GenesisNotice

`cores` are the cores a user may configure, each a `GenesisCore` that other operators change too;
`base` is the configured one. `net` holds the calls under way: an answer comes at any time and in
any order, as what the core said when it got the call, or never. `version` and `branding` are what the hooks
hold, `dismissed`, `form`, `challenge` and `busy` the modal's state. A step is one event together with
the effects React runs before the next event. Hooks drop an answer whose effect was cleaned up;
the modal's own calls do not, they set flags of whatever is shown by then. `Elsewhere` is one operation on a
core by somebody else: a reset, or an issue, a verification or a completion from a CLI or another browser.

### MethodsPage, MethodsCatalog, ReportDetail

`MethodsPage` has the selection, the search and the pages of the list, the values `visible` in
the form and those `hidden` for the report, the `stash` that keeps the latter while another method
is shown, and the dashboard `dash`. A value knows the method it was typed `under`, as history, and so
does `typed`. What an execution sends is stated by `Runs`, `MeetsContract` and `Composed`. `ReportDetail` has both validators: what the browser composes
from the dashboard and what the core accepts. Texts are told apart only by what either side does
with them (empty, a number, too long). Lists of cards, pies and slices are sequences; what is left of one
after the empty rows are dropped is a function on the positions that stay, since neither validator looks
at anything but the rows and how many there are.

### Backdrop, Metaballs, LifeBoard, BrickGame

Each game is a module of operators and actions over its own variables; where a ball or a brick is
gives way to what happens: two balls touch or one is large, a column reaches the paddle. `Backdrop`
has what the user changes (preset, switch, motion preference, tab, size) and, per field, the
frames asked for and the listeners: an effect that is cleaned up and run again is one step. The
fireflies have a loop and no game; two presets have no loop.

### ViewerPages and what it extends

`who` is the mocked identity in storage, `page` the mounted page with its copies, `photos` the
files being read, `urls` the object URLs that live; `settings`, `saved`, `reads` and `panel` are the
shell's. Going to another page drops the page's state, loading again drops everything but storage. A
registration form is a record that operators take through typing, the pause, the lookup and its
answer; `PublishForm` says which section keeps what of a text. Writes to storage may be refused at
any time. `app` tells the two interfaces apart, which have different routes. `Filtered`, what a list or
a text keeps, is written as a function of how far it has been read, so that proofs can expand it.

## 3. What is checked

| Run | Question | Bounds |
|---|---|---|
| `pipeline` | at most once, durable, same answer, rows backed, id reuse, refinement of `IdempotentService` | three envelopes, two of them under one id; two ticks a second, clock to tick 10, steps back of up to two ticks; three executions, one crash |
| `pipeline_live` | a request that took effect is answered while it can be sent | two rivals under one id, two crashes |
| `genesis_serial` | with one operation at a time: completion backed, no orphan, operator fixed, refinement of `GenesisService` | two operator keys, two organization keys, two labels, two challenges, clock to 2 |
| `genesis_concurrent` | with server and CLI interleaved: challenge once, operator proved, instance and bindings stable | two challenges, one label, clock to 1 |
| `migrations` | recorded versions applied, up means whole schema, everyone comes up | the repository's thirteen scripts, two processes, crashes, any earlier version |
| `migrations_half` (violation) | is DDL recorded with its version | the same |
| `registry` | legacy route in step, dials, heartbeats and reports by owner, genesis copies in step, owners fixed | one module and `modulr.core`, two identities, keys, dials and priorities, four rows ever inserted; one logo, picture, text and handle |
| `keymaster` | what was shown is stored, every tab shows the file, sessions end when they must | one process, two identities, two names, three sessions, clock to 4, timeouts 1 and 2 |
| `genesis_notice` | shown is of this core, completed for its operator, busy is in flight | two cores, two operators, two calls of the wizard at once, two challenges |
| `methods_page` | report survives, nothing leaks, the core takes requests | three methods, pages of one, two tabs, one search; a second card, or a pie of up to three slices |
| `backdrop` | one loop while shown, games keep their rules, waits end | three to four balls, boards of five by five, walls of two columns |
| `pages` | views are current, answers belong to their question, nothing left behind, reload keeps settings | each of the inputs that the code tells apart, one or two of a kind; two lookups, two pictures being read |

Why the bounds are enough. Pipeline: three envelopes give a retry, a rival under the same id
after the window, and an unrelated request that shares an open transaction; two ticks a
second separate the float clock from its `int`; the horizon passes the replay window. Genesis:
two challenges for two operators let one be used with the other's, and two processes are the
server and the CLI. Migrations: two processes are enough for one to change what the other
has looked at. Keymaster: three sessions are two tabs and a new login, and the clock passes both
timeouts of a session that keeps being used. Registry: four insertions fill two scopes, tie
priorities and replace; `IsSmall` keeps the branding rows to two, which is one entity under both of
its lookups or two entities, and combines branding, heartbeats and dials only where they meet (a
heartbeat with the registration of its module, a completion with one dial): no handler reads more.
Genesis notice: two cores are the one that was asked and the one that is configured now, and two
challenges the one that was asked about and the one that is shown; with two calls the answers of an
issue and a verification cross. Methods: `report_module_state`,
the one whose values survive, one that shares a field with it and one whose parameters exclude each
other; `IsSmall` grows the cards or the pies, which are validated one after the other. Backdrop: the smallest sizes at which balls merge and split, a glider wraps around the torus, a
column reaches the paddle. Pages: `IsSmall` lets a visit change two settings or use the
pages, which do not read each other's state except through the link and the reload, which both
parts have. Names, keys, dials and results are symmetric in the runs that say so; those check safety
only.

`MCViewerPages` and `MCBackdrop` also check pure operators over their inputs, as assumptions that TLC
evaluates: normalizing twice is normalizing once, an accepted picture is kept, a shorter name is never
cheaper, organization keys of two or three labels cost less than their root, the shares and the slices of a
chart add up to its total, a pointer finds every column; a glider glides.

### Where text and code disagree

The run `migrations_half` shows that `executescript` commits DDL before the version is
recorded, against the comment "One executescript so migration DDL and version row are atomic"; after
a crash in a script with an `ALTER TABLE` the server does not start again.

The following come from the modelling too. For the first four a property stated the
text and TLC found it violated in a model of this project; no run keeps them.

1. The purge of `message_dedup` goes by the replay window (24 h), an envelope may live for the
   expiry window (7 days): an envelope is executed again in between. The protocol document
   calls `message_id` a replay protection. The theorems on at-most-once assume
   `WindowCoversExpiry`, which the default settings do not satisfy.
2. `complete_genesis` says "atomically", but decides on values read before its transaction:
   beside the CLI a second completion replaces the operator of a completed wizard (`OperatorFixed`
   with `Overlap = TRUE`).
3. `register_org` is documented as idempotent for the module's row (`operations/handlers.py:1126`), but
   compares the route that `submit_module_route` has rewritten since.
4. The answer to a verification marks the challenge shown in the genesis notice as verified, also
   when that is a newer one (`GenesisNoticeModal.tsx:387`). The completion that follows is refused.
5. The catalogue says that a logo or a picture is looked up in genesis first
   (`messages/wire_method_catalog.py:103` and `:117`); the handlers look at the entity's rows first. A
   description set for the operator creates a row without a picture, which hides the wizard's.
6. A `k:` row of branding may be written under another key than the one it names, and then
   `core_genesis` is not updated; picture and description of one handle may come from two users.
7. `mockRegistrationPricing.ts:207` calls organization keys "priced slightly below a fresh root"; with
   four labels or more they cost more (`LabelsArePriced`).
8. A picture still being read when the mocked identity is cleared is stored after the clear, though
   `ProfileHeroEdit.tsx` says that clearing removes the photo; of two pictures picked in a row the
   first may win.
9. The comments of `MetaballField.tsx` promise five balls; a merge that is interrupted by a
   clean-up can leave four. `BallsBounded` states the bound that holds.
10. Smaller ones: two tabs overwrite each other's whole settings object; an emptied resolver field
    shows its last answer until the pause is over; Escape with the listbox focused closes the Settings as well;
    an answer on the Methods page is shown under whatever method is selected when it comes; the
    donut's tooltip stays when the module changes under the pointer.

### Fairness

Three runs are about liveness; the others have no fairness.

`pipeline_live`: the steps under the lock are weakly fair, for they are straight-line code on the
event loop; the restart is, by the supervisor; a replayed request is strongly fair, because a
client without an answer sends again and the lock is free again and again; commit and delivery do
not fail for ever. Nothing is assumed of `AcceptFresh`: a request that never arrives is not owed
anything.

`migrations`: a running process takes its next step, and a process whose start failed is started
again. `EveryoneComesUp` is about behaviours in which nothing crashes (a process that is killed
each time never comes up, and a half-applied `ALTER TABLE` stops every later start).

`backdrop`: frames are called again and again while the tab is visible, which is the browser's promise
for `requestAnimationFrame`, and the pause between two games ends with the first frame after its
time. Both are strongly fair, because hiding the tab or changing the preset takes frames away and
brings them back. Nothing is assumed of the user or of the tab: `WaitsEnd` allows for a tab that
stays hidden and for a field that is no longer shown.

## 4. What is proved

For all values of the constants, with named assumptions only (`ConstantShape`,
`RequestShape`, `ScriptShape`, `NoneIsNoRow`, `NoneIsNoFile` and the like: shapes, and that a
null is not a value).

- `MessagePipelineProofs`. `IInv` says that what is committed is a prefix of what is visible,
  that each row with a stored answer has its execution in the log, that rows are missing only
  when the purge was allowed to take them, and where the current request stands. At most once,
  same answer and "live requests are remembered" hold under `WindowCoversExpiry`; durability,
  backing of rows and id reuse for every setting; with the window covered, every step is a step
  or a stutter of `IdempotentService`.
- `GenesisProofs`. `OneShotInv` ties `verified` and `signers` to the challenge rows and to what
  a process in the middle of a verification or completion has read; it needs no restriction on
  overlap, since the decisive test is in the UPDATE. `SerialInv` adds that what a task has read
  is still true, which holds because only one task exists at a time; the properties that
  fail with `Overlap` are proved without it, and with them that the last statement of each
  operation is a step of `GenesisService` and every other one a stutter.
- `DatabaseProofs`, in three parts. Migrations: while a process is at statement n of a script,
  statements 1 to n-1 are applied, whoever applied them, and nothing is ever taken back. Registry:
  dials exist only under registered modules and were written by the module's key; hence a newly
  published module finds no dials and its route is nobody's primary. The lemma `DialStep` covers every
  handler that ends in `_sync_legacy_route_to_primary_dial`; `LegacyRouteIsADial` adds that a scope with
  dials always has a first one, so that the guard of `SyncLegacyRoute` blocks no handler. Beside it:
  every step of `EntityState` is a step or a stutter of `Registry` (`EntityStateKeepsRegistry`), so what is
  proved of the registry holds beside genesis and branding. `StateIsTheOwners` rests on it: a
  heartbeat came under the key its module had then, and that key stays. `GenesisFollowsBranding` needs
  that no registration rebinds the root name to another identity, which is `OwnersKept`.
- `KeymasterVaultProofs`. For any number of processes: types, and that a session is used only
  within its limits, because each record agrees with the history of its own cookie and a write
  touches no other. For one process (`OneServer`): nothing shown is lost and every tab shows the
  file, because the vault a request has read is still the file when it writes, and before the
  first setup there is neither a session nor anything shown. With two processes both are false,
  and nothing in the code keeps a second one away.

- `GenesisNoticeProofs`, for any cores and keys and any number of calls in flight. `IInv` says what is on
  the way: a query only to the configured core and only while the hook waits for it, at most one about the
  version, and branding only once genesis is known to have run; with it what the shell holds was said
  by this core. That a core is completed only for an operator who answered holds because the core decides,
  on its own record, whatever the form mixes up; and a flag that is set has its call in `net`.
  `CoresAreServices`: seen from one core, every step here is a step or a stutter of `GenesisService`,
  which `GenesisProofs` shows the server to implement, so the browser relies on nothing that the server
  does not provide.
- `BackdropProofs`. Each field has as many frames and listeners as it is shown for, because an effect that
  is run again has been cleaned up before; each game's invariant is a lemma on its frame, its seeding and its
  interruption. The balls need more than their bounds: a merge that is under way leaves room for
  the ball that a split may add before it is through.
- `MethodsPageProofs`. The values below the form are those of the method that is shown, and the stash
  is what was last typed; `ComposedIsAccepted` puts the browser's composition of a report against the core's
  validation field by field, `ContractsAreMet` the other methods against their parameters.
- `ViewerPagesProofs`. `IInv` is about one page and the stored identity: the page has its fields, its
  copies are those that are stored, each lookup that has not been cancelled is about the key in the field,
  and the only object URL is that of the icon shown. `SettingsInv` adds the shell: what the dialog accepts is what
  `normalizeSettings` leaves alone, so that a reload after a write that was taken brings the settings back;
  the endpoints are the exception and are mended once and for all. Prices and shares of the charts are proved
  for every length, figure and hash.

The bounds of the runs do not appear in these theorems, except where a module's own guards
name them (`MaxCalls`, `MaxChallenges`, `MaxLookups`, `MaxEndpoints`), and there for every value.

Induction. The library's induction theorems take an operator and cannot be used; the same principle about a
set can (`CountingUp` in `ViewerPagesProofs`, `LeastOne` in `DatabaseProofs`, from the well-foundedness of the
order of the naturals), and so can recursive functions, once their recursion is shown to have a solution
(`FilteredIsDefined`). In this way `FirstDial` is proved for any set of rows and `FilteredIsKept` and `FilteredKeepsAll` for
any text.

Only model-checked: liveness (`EffectIsAnswered`, `EveryoneComesUp`, `WaitsEnd`), the violation, and the folds in
`ModuleMetrics` and `ReportDetail` as far as a theorem would need what they compute: they are
evaluated over bounded inputs. `SelectSeq` cannot be expanded in a proof; where it is left (what a field of the
publishing form keeps, which shares a chart draws) no theorem depends on what it returns.

## 5. Not modelled

- Cryptography, JSON and name normalisation, the validators of SVG and picture bytes, wording and
  status codes, CORS, static files, playground and scripts: pure functions or I/O with no state.
- The queries of the server, which change nothing. Two of them read two tables whose order a reader
  may argue about (`resolve_name` answers with the route stored at registration; see 5 above).
- The bootstrap policy as state of a running registry: `Registry` and `EntityState` take the
  admitted keys as a constant, so an operator replaced between the pipeline's test and the handler's
  is not seen. A reset beside the registry: it leaves the root's module, dials and branding, and whoever
  binds the name next inherits them; `OwnersFixed` would not survive it.
- `BEGIN` modes and WAL files are SQLite's; the models take its documented isolation.
- In the interfaces: the mocked answers of the Methods page, signing of envelopes in the browser, the
  Keymaster hint, the motion of balls and bricks, colours and layout, a second tab of the same
  browser, the browser's history, the dashboard and the static pages.

## 6. Plan

Done, the most important behaviour first: pipeline, genesis, migrations, registry, Keymaster; then
heartbeats, reports and branding beside the registry, the abstract genesis service, and the
interfaces: genesis notice, Methods page, backgrounds, pages.

Left:

- Pipeline, genesis and registry over one database, with the bootstrap policy as state, and an
  abstract specification of ownership that is kept across a reset or says what a reset gives up.
- An abstract specification of Keymaster: a store of identities that one operator reads and extends.
- What the folds compute, by the induction of `ViewerPagesProofs`: the percentages of a report and the arcs of
  a chart.
