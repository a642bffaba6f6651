------------------------------- MODULE Registry -------------------------------
(***************************************************************************)
(* The registry behind the signed messages: names bound to identities,     *)
(* modules with their signing key, and the dials (endpoints) under which   *)
(* modulr.core and the modules can be reached.  A handler runs inside the  *)
(* transaction its message opened, so each is one step, and a rejected     *)
(* message changes nothing.                                                *)
(*                                                                         *)
(* The best dial of a scope is kept a second time as its "legacy route":   *)
(* in the module's row, or in core_advertised_route for modulr.core.       *)
(***************************************************************************)
EXTENDS Integers

CONSTANTS
  Names,      \* organization names; each is the key of its module too
  Core,       \* modulr.core: a scope for dials, no module row
  Identities, \* resolved ids
  Keys,       \* signing keys the bootstrap policy lets through
  Dials,      \* endpoints <<route_type, route>> as JSON documents
  Documents,  \* other route documents: not an endpoint
  Metas,      \* metadata objects
  Priorities, \* priorities; lower comes first
  None,       \* JSON null and SQL NULL
  Omitted,    \* the metadata field is not in the payload
  Cleared,    \* the empty document {}
  MaxDials    \* bound: rows ever inserted into dial_route_entry

ASSUME ConstantShape ==
  /\ Core \notin Names
  /\ Priorities \subseteq Int /\ MaxDials \in Nat
  /\ Cleared \notin Dials \cup Documents
  /\ None \notin Dials \cup Documents \cup Keys \cup Metas \cup {Cleared}
  /\ Omitted \notin Metas \cup {None}

VARIABLES
  bindings,    \* name_bindings: per name [id, route, meta] or None
  modules,     \* modules: per name [key, sender, route] or None
  dials,       \* dial_route_entry: rows [id, scope, dial, priority, by]; by is history
  inserted,    \* AUTOINCREMENT of dial_route_entry
  advertised   \* core_advertised_route: a route or None

vars == <<bindings, modules, dials, inserted, advertised>>

Scopes == Names \cup {Core}
Routes == Dials \cup Documents

\* A register_org message; key is signing_public_key, which needs a route.
OrgRequest ==
  {q \in [name : Names, id : Identities, route : Routes \cup {None},
          meta : Metas \cup {None, Omitted}, key : Keys \cup {None}, sender : Keys] :
     q.key # None => q.route # None}

Binding == [id : Identities, route : Routes \cup {None}, meta : Metas \cup {None}]

Module == [key : Keys, sender : Keys, route : Routes \cup {Cleared}]

ASSUME NoneIsNoRow == None \notin Binding \cup Module

DialRow == [id : 1..MaxDials, scope : Scopes, dial : Dials, priority : Priorities, by : Keys]

--------------------------------------------------------------------------------
(* Names and organizations *)

MetaJson(q) == IF q.meta = Omitted THEN None ELSE q.meta

\* _binding_row_matches
Matches(b, q) == b = [id |-> q.id, route |-> q.route, meta |-> MetaJson(q)]

\* Variant: an organization that publishes its module may take over the name.
BindingAcceptsPublisher(q) ==
  LET b == bindings[q.name]
  IN  b # None => Matches(b, q) \/ q.key # None

\* The name is free, bound to the same data, or bound to the same identity,
\* which publishes its module now.
BindingAccepts(q) ==
  LET b == bindings[q.name]
  IN  b # None => Matches(b, q) \/ (q.key # None /\ b.id = q.id)

\* The binding afterwards; metadata that was not sent is kept.
BindingFor(q) ==
  LET b == bindings[q.name]
  IN  [id |-> q.id, route |-> q.route,
       meta |-> IF b = None \/ q.meta # Omitted THEN MetaJson(q) ELSE b.meta]

ModuleFor(q) == [key |-> q.key, sender |-> q.sender, route |-> q.route]

\* The INSERT finds no row, or one with exactly this data.
ModuleAccepts(q) == modules[q.name] \in {None, ModuleFor(q)}

OrgAccepted(q) == BindingAccepts(q) /\ (q.key # None => ModuleAccepts(q))

\* handle_register_org; when the module's row is refused the binding is rolled back.
RegisterOrg(q) ==
  /\ OrgAccepted(q)
  /\ bindings' = [bindings EXCEPT ![q.name] = BindingFor(q)]
  /\ modules' = [modules EXCEPT ![q.name] = IF q.key = None THEN @ ELSE ModuleFor(q)]
  /\ UNCHANGED <<dials, inserted, advertised>>

\* handle_register_name: a free name is bound, an equal binding stays.
RegisterName(n, b) ==
  /\ bindings[n] = None
  /\ bindings' = [bindings EXCEPT ![n] = b]
  /\ UNCHANGED <<modules, dials, inserted, advertised>>

--------------------------------------------------------------------------------
(* Dials *)

\* Variant: any sender the bootstrap policy lets through.
MayDialAnyone(s, k) == s # Core => modules[s] # None

\* Who may change the dials of a scope: for a module, its own key.
MayDial(s, k) == s # Core => modules[s] # None /\ modules[s].key = k

Of(s, rows) == {d \in rows : d.scope = s}

\* ORDER BY priority ASC, id ASC
Before(d, e) == d.priority < e.priority \/ (d.priority = e.priority /\ d.id <= e.id)

\* Variant: the oldest dial, whatever its priority.
Oldest(d, s, rows) == d \in Of(s, rows) /\ \A e \in Of(s, rows) : d.id <= e.id

\* rows[0] of list_by_scope.
Primary(d, s, rows) == d \in Of(s, rows) /\ \A e \in Of(s, rows) : Before(d, e)

SetLegacyRoute(s, route) ==
  /\ advertised' = IF s = Core THEN route ELSE advertised
  /\ modules' = IF s = Core THEN modules
                ELSE [modules EXCEPT ![s] = [key |-> @.key, sender |-> @.sender, route |-> route]]

\* _sync_legacy_route_to_primary_dial, for the rows a handler leaves.
SyncLegacyRoute(s, rows) ==
  \/ Of(s, rows) = {} /\ SetLegacyRoute(s, IF s = Core THEN None ELSE Cleared)
  \/ \E d \in rows : Primary(d, s, rows) /\ SetLegacyRoute(s, d.dial)

\* The row ON CONFLICT(scope, route_type, route) finds.
Conflicting(s, r) == {d \in dials : d.scope = s /\ d.dial = r}

\* upsert_merge: a conflicting row keeps its id.
Merged(s, r, prio, k) ==
  LET hit == Conflicting(s, r)
  IN  IF hit = {}
      THEN dials \cup {[id |-> inserted + 1, scope |-> s, dial |-> r, priority |-> prio, by |-> k]}
      ELSE (dials \ hit) \cup
             {[id |-> d.id, scope |-> s, dial |-> r, priority |-> prio, by |-> k] : d \in hit}

\* replace_all_for_scope
Replaced(s, r, prio, k) ==
  (dials \ Of(s, dials)) \cup
    {[id |-> inserted + 1, scope |-> s, dial |-> r, priority |-> prio, by |-> k]}

\* handle_submit_module_route, mode "merge".
SubmitMerge(s, r, prio, k) ==
  /\ MayDial(s, k)
  /\ Conflicting(s, r) = {} => inserted < MaxDials
  /\ dials' = Merged(s, r, prio, k)
  /\ inserted' = IF Conflicting(s, r) = {} THEN inserted + 1 ELSE inserted
  /\ SyncLegacyRoute(s, dials')
  /\ UNCHANGED bindings

\* handle_submit_module_route, mode "replace_all" or none.
SubmitReplaceAll(s, r, prio, k) ==
  /\ MayDial(s, k)
  /\ inserted < MaxDials
  /\ dials' = Replaced(s, r, prio, k)
  /\ inserted' = inserted + 1
  /\ SyncLegacyRoute(s, dials')
  /\ UNCHANGED bindings

\* handle_remove_module_route; DIAL_NOT_FOUND when there is no such dial.
RemoveRoute(s, r, k) ==
  /\ MayDial(s, k)
  /\ \E d \in dials : d.scope = s /\ d.dial = r
  /\ dials' = {d \in dials : ~ (d.scope = s /\ d.dial = r)}
  /\ SyncLegacyRoute(s, dials')
  /\ UNCHANGED <<bindings, inserted>>

--------------------------------------------------------------------------------

Init ==
  /\ bindings = [n \in Names |-> None]
  /\ modules = [n \in Names |-> None]
  /\ dials = {}
  /\ inserted = 0
  /\ advertised = None

Next ==
  \/ \E q \in OrgRequest : RegisterOrg(q)
  \/ \E n \in Names, b \in Binding : RegisterName(n, b)
  \/ \E s \in Scopes, r \in Dials, k \in Keys :
       \/ \E prio \in Priorities : SubmitMerge(s, r, prio, k) \/ SubmitReplaceAll(s, r, prio, k)
       \/ RemoveRoute(s, r, k)

Spec == Init /\ [][Next]_vars

--------------------------------------------------------------------------------
(* Properties *)

\* PRIMARY KEY and UNIQUE (scope, route_type, route) of dial_route_entry.
UniqueRows(rows) ==
  \A d, e \in rows : (d.id = e.id \/ (d.scope = e.scope /\ d.dial = e.dial)) => d = e

\* Types of the variables, and the keys of dial_route_entry, whose rows are older
\* than its next id.
TypeOK ==
  /\ bindings \in [Names -> Binding \cup {None}]
  /\ modules \in [Names -> Module \cup {None}]
  /\ dials \subseteq DialRow
  /\ UniqueRows(dials)
  /\ inserted \in 0..MaxDials
  /\ \A d \in dials : d.id <= inserted
  /\ advertised \in Dials \cup {None}

\* The legacy route of a scope is its first dial by priority and age, and a
\* scope without dials advertises no stale endpoint of a dial that was removed.
LegacyRoute(s) == IF s = Core THEN advertised ELSE modules[s].route

PrimaryRouteInSync ==
  \A s \in Scopes :
    /\ \A d \in Of(s, dials) :
         (\A e \in Of(s, dials) : Before(d, e)) => LegacyRoute(s) = d.dial
    /\ (s = Core /\ Of(s, dials) = {}) => advertised = None

\* A module's dials are the work of its own key, from its registration on.
DialsByOwner ==
  \A d \in dials : d.scope # Core =>
    modules[d.scope] # None /\ modules[d.scope].key = d.by

\* A bound name keeps its identity and a registered module its key, whatever
\* is registered, published or submitted later.
OwnersFixed ==
  [][/\ \A n \in Names : bindings[n] # None =>
          bindings'[n] # None /\ bindings'[n].id = bindings[n].id
     /\ \A n \in Names : modules[n] # None =>
          modules'[n] # None /\ modules'[n].key = modules[n].key]_vars
================================================================================
