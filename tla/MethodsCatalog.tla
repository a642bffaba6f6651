----------------------------- MODULE MethodsCatalog -----------------------------
(***************************************************************************)
(* The catalogue of the Methods page: the methods it offers and their      *)
(* parameters, which of them it sends to a core, and what a core requires  *)
(* of the payload.                                                         *)
(***************************************************************************)
LOCAL INSTANCE Integers
LOCAL INSTANCE Sequences
LOCAL INSTANCE FiniteSets

\* An entry; parameters with a list of options always have a value.
Method(id, category, required, optional) ==
  [id |-> id, category |-> category, required |-> required, optional |-> optional]

OptionParams == {"route_type", "mode", "state_phase"}

Core == <<
  Method("get_protocol_version", "protocol", {}, {}),
  Method("get_protocol_methods", "protocol", {}, {}),
  Method("get_core_genesis_branding", "protocol", {}, {})>>

BrandingReads == <<
  Method("get_organization_logo", "protocol", {},
    {"organization_key", "organization_signing_public_key_hex"}),
  Method("get_user_profile_image", "protocol", {},
    {"user_handle", "user_signing_public_key_hex"}),
  Method("get_user_description", "protocol", {},
    {"user_handle", "user_signing_public_key_hex"})>>

BrandingWrites == <<
  Method("set_organization_logo", "protocol", {"organization_signing_public_key_hex"},
    {"organization_key", "logo_svg"}),
  Method("set_user_profile_image", "protocol", {"user_signing_public_key_hex"},
    {"user_handle", "profile_image_base64", "profile_image_mime"}),
  Method("set_user_description", "protocol", {"user_signing_public_key_hex"},
    {"user_handle", "description"})>>

Lookups == <<
  Method("lookup_module", "validator", {"module_name"}, {}),
  Method("get_module_methods", "validator", {"module_id"}, {})>>

Routes == <<
  Method("submit_module_route", "protocol", {"module_id", "route_type", "route"},
    {"mode", "priority", "endpoint_signing_public_key_hex"}),
  Method("remove_module_route", "protocol", {"module_id", "route_type", "route"}, {}),
  Method("get_module_route", "validator", {"module_id"}, {})>>

States == <<
  Method("report_module_state", "protocol", {"module_id", "state_phase"}, {}),
  Method("get_module_state", "validator", {"module_id"}, {})>>

Unwired == <<
  Method("publish_module_signature", "protocol",
    {"module_id", "signed_subject_digest", "proof_payload"}, {"context_notes"}),
  Method("register_org", "protocol", {"organization_key"}, {}),
  Method("register_name", "protocol", {"name_handle"}, {}),
  Method("resolve_name", "validator", {"query"}, {}),
  Method("reverse_resolve_name", "validator", {"address"}, {}),
  Method("heartbeat_update", "protocol", {"module_id"}, {"note"})>>

METHOD_CATALOG ==
  Core \o BrandingReads \o BrandingWrites \o Lookups \o Routes \o States \o Unwired

METHOD_CATEGORY_TABS == {"protocol", "validator", "provider", "client"}

\* LIVE_SIGNED_METHOD_IDS: all but the last group is sent to the core.
Live(m) == \A i \in DOMAIN Unwired : Unwired[i].id # m.id

Params(m) == m.required \cup m.optional

--------------------------------------------------------------------------------
(* What the handlers of a core require of the payload, by their contract *)

OneOf(p, a, b) == (a \in p) # (b \in p)
AllOrNone(p, a, b) == (a \in p) = (b \in p)

\* p: the non-empty parameters of a call of this operation.
MeetsContract(op, p) ==
  CASE op \in {"get_protocol_version", "get_protocol_methods",
               "get_core_genesis_branding"} -> p = {}
    [] op = "get_organization_logo" ->
         OneOf(p, "organization_key", "organization_signing_public_key_hex")
    [] op \in {"get_user_profile_image", "get_user_description"} ->
         OneOf(p, "user_handle", "user_signing_public_key_hex")
    [] op = "set_organization_logo" -> "organization_signing_public_key_hex" \in p
    [] op = "set_user_description" -> "user_signing_public_key_hex" \in p
    [] op = "set_user_profile_image" ->
         /\ "user_signing_public_key_hex" \in p
         /\ AllOrNone(p, "profile_image_base64", "profile_image_mime")
    [] op = "lookup_module" -> "module_name" \in p
    [] op \in {"get_module_methods", "get_module_route", "get_module_state"} ->
         "module_id" \in p
    [] op \in {"submit_module_route", "remove_module_route"} ->
         {"module_id", "route_type", "route"} \subseteq p
    [] op = "report_module_state" -> {"module_id", "state_phase"} \subseteq p
================================================================================
