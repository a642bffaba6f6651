------------------------------ MODULE EntityState ------------------------------
(***************************************************************************)
(* What the core keeps about the entities of its registry: the latest      *)
(* heartbeat and the latest state report of a module, logos, profile       *)
(* pictures and descriptions, and the genesis row, which holds the root    *)
(* organization's logo and the operator's picture a second time.           *)
(*                                                                         *)
(* The steps of Registry are steps of this module.  The bootstrap policy   *)
(* lets a message through only when its sender may act as bootstrap, so    *)
(* the branding handlers find every sender authorized.                     *)
(***************************************************************************)
EXTENDS Registry

CONSTANTS
  Times,    \* last_seen_at, from the payload or the clock
  Phases,   \* module state phases
  Handles,  \* user handles
  Logos,    \* SVG documents
  Images,   \* pictures with their MIME type
  Texts     \* descriptions

VARIABLES
  heartbeats,  \* heartbeat_state: per module [seen, by] or None; by is history
  reports,     \* module_state_snapshot: per module [phase, by] or None; by is history
  orgRows,     \* entity_profile_branding, kind org: per lookup [logo, signer] or None
  userRows,    \* the same table, kind user: per lookup [image, text, signer] or None
  genesis,     \* core_genesis: [label, operator, logo, image], None until complete
  since        \* history: lookups whose logo or picture was set since then

entityVars == <<heartbeats, reports, orgRows, userRows, genesis, since>>

allVars == <<vars, entityVars>>

\* Lookup keys: k:<name> and p:<key> of an organization, p:<key> and h:<handle> of a user.
ByName(n) == <<"k", n>>
OrgKey(i) == <<"org", i>>
UserKey(i) == <<"user", i>>
ByHandle(h) == <<"h", h>>

OrgLookups == {ByName(n) : n \in Names} \cup {OrgKey(i) : i \in Identities}
UserLookups == {UserKey(i) : i \in Identities} \cup {ByHandle(h) : h \in Handles}

OrgRow == [logo : Logos \cup {None}, signer : Identities]

UserRow == [image : Images \cup {None}, text : Texts \cup {None}, signer : Identities]

GenesisRow == [label : Names, operator : Identities,
               logo : Logos \cup {None}, image : Images \cup {None}]

ASSUME NoneIsNoEntity == None \notin OrgRow \cup UserRow \cup GenesisRow

--------------------------------------------------------------------------------
(* Heartbeats and state reports *)

\* Variant: any sender may speak for a registered module.
SpeaksForAny(n, k) == modules[n] # None

\* The module is registered, and the sender's key is the one it was registered with.
SpeaksFor(n, k) == modules[n] # None /\ modules[n].key = k

\* handle_heartbeat_update
Heartbeat(n, t, k) ==
  /\ SpeaksFor(n, k)
  /\ heartbeats' = [heartbeats EXCEPT ![n] = [seen |-> t, by |-> k]]
  /\ UNCHANGED <<vars, reports, orgRows, userRows, genesis, since>>

\* handle_report_module_state
ReportState(n, ph, k) ==
  /\ SpeaksFor(n, k)
  /\ reports' = [reports EXCEPT ![n] = [phase |-> ph, by |-> k]]
  /\ UNCHANGED <<vars, heartbeats, orgRows, userRows, genesis, since>>

--------------------------------------------------------------------------------
(* Genesis and branding *)

RootBinding(org) == [id |-> org, route |-> None, meta |-> None]

\* complete_genesis: the root name is free, or bound to just this identity.
CompleteGenesis(n, org, op, logo, image) ==
  /\ genesis = None
  /\ \/ RegisterName(n, RootBinding(org))
     \/ bindings[n] = RootBinding(org) /\ UNCHANGED vars
  /\ genesis' = [label |-> n, operator |-> op, logo |-> logo, image |-> image]
  /\ since' = {}
  /\ UNCHANGED <<heartbeats, reports, orgRows, userRows>>

Root == bindings[genesis.label].id

\* _is_genesis_root_org
IsRootOrg(org, n) == genesis # None /\ org = Root /\ n \in {None, genesis.label}

OrgLookup(org, n) == IF n = None THEN OrgKey(org) ELSE ByName(n)

SetSince(lookups) == since' = IF genesis = None THEN {} ELSE since \cup lookups

\* handle_set_organization_logo, under the name if one is given, else under the key.
SetOrganizationLogo(org, n, logo) ==
  /\ orgRows' = [orgRows EXCEPT ![OrgLookup(org, n)] = [logo |-> logo, signer |-> org]]
  /\ genesis' = IF IsRootOrg(org, n) THEN [genesis EXCEPT !.logo = logo] ELSE genesis
  /\ SetSince({OrgLookup(org, n)})
  /\ UNCHANGED <<vars, heartbeats, reports, userRows>>

\* The rows a message about a user writes: by key, and by handle if one is given.
Written(user, h) == {UserKey(user)} \cup (IF h = None THEN {} ELSE {ByHandle(h)})

\* upsert_user: the description stays.
WithImage(row, image, user) ==
  [image |-> image, text |-> IF row = None THEN None ELSE row.text, signer |-> user]

\* Variant: the row is replaced as a whole.
WithTextOnly(row, text, user) == [image |-> None, text |-> text, signer |-> user]

\* upsert_user_description: the picture stays.
WithText(row, text, user) ==
  [image |-> IF row = None THEN None ELSE row.image, text |-> text, signer |-> user]

\* handle_set_user_profile_image; the operator's picture goes into core_genesis too.
SetUserProfileImage(user, h, image) ==
  /\ userRows' = [l \in UserLookups |->
       IF l \in Written(user, h) THEN WithImage(userRows[l], image, user) ELSE userRows[l]]
  /\ genesis' = IF genesis # None /\ genesis.operator = user
                THEN [genesis EXCEPT !.image = image] ELSE genesis
  /\ SetSince(Written(user, h))
  /\ UNCHANGED <<vars, heartbeats, reports, orgRows>>

\* handle_set_user_description
SetUserDescription(user, h, text) ==
  /\ userRows' = [l \in UserLookups |->
       IF l \in Written(user, h) THEN WithText(userRows[l], text, user) ELSE userRows[l]]
  /\ UNCHANGED <<vars, heartbeats, reports, orgRows, genesis, since>>

--------------------------------------------------------------------------------

EntityInit ==
  /\ Init
  /\ heartbeats = [n \in Names |-> None]
  /\ reports = [n \in Names |-> None]
  /\ orgRows = [l \in OrgLookups |-> None]
  /\ userRows = [l \in UserLookups |-> None]
  /\ genesis = None
  /\ since = {}

EntityNext ==
  \/ Next /\ UNCHANGED entityVars
  \/ \E n \in Names, k \in Keys :
       \/ \E t \in Times : Heartbeat(n, t, k)
       \/ \E ph \in Phases : ReportState(n, ph, k)
  \/ \E i \in Identities :
       \/ \E n \in Names, op \in Identities, logo \in Logos \cup {None}, image \in Images \cup {None} :
            CompleteGenesis(n, i, op, logo, image)
       \/ \E n \in Names \cup {None}, logo \in Logos \cup {None} : SetOrganizationLogo(i, n, logo)
       \/ \E h \in Handles \cup {None} :
            \/ \E image \in Images \cup {None} : SetUserProfileImage(i, h, image)
            \/ \E text \in Texts \cup {None} : SetUserDescription(i, h, text)

EntitySpec == EntityInit /\ [][EntityNext]_allVars

--------------------------------------------------------------------------------
(* Properties *)

\* What the core shows of a module was said with the module's own key, whatever
\* was registered, published or rebound in between: a heartbeat or a report
\* never stays behind for a name without a module, or from another key.
StateByOwner ==
  \A n \in Names :
    /\ heartbeats[n] # None => modules[n] # None /\ heartbeats[n].by = modules[n].key
    /\ reports[n] # None => modules[n] # None /\ reports[n].by = modules[n].key

\* The copies in core_genesis do not fall behind the rows they are copied from.
\* Once the operator's picture is set after completion, the row under the
\* operator's key and the genesis row show the same one, whatever descriptions
\* and handles were written since; and while the rows of the root organization
\* set since completion carry its own key, its genesis logo is that of one of them.
RootRows == {ByName(genesis.label), OrgKey(Root)} \cap since

GenesisInStep ==
  genesis # None =>
    /\ UserKey(genesis.operator) \in since =>
         userRows[UserKey(genesis.operator)].image = genesis.image
    /\ RootRows # {} /\ (\A l \in RootRows : orgRows[l].signer = Root) =>
         \E l \in RootRows : orgRows[l].logo = genesis.logo
================================================================================
