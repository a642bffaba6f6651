------------------------------ MODULE MethodsPage ------------------------------
(***************************************************************************)
(* The Methods page: an operator picks a method of the catalogue, fills in *)
(* its parameters and executes it, against the configured core or as a     *)
(* mock.  What is typed for report_module_state outlives a change of       *)
(* method; everything else starts blank.  A step is an event with the      *)
(* React effects it triggers.                                              *)
(***************************************************************************)
EXTENDS ReportDetail, MethodsCatalog, Integers, Sequences, SequencesExt

CONSTANTS
  Offered,       \* positions in METHOD_CATALOG of the methods offered
  Tabs,          \* the tabs that are visited
  Searches,      \* what a search may match: sets of positions
  PAGE_SIZE,     \* METHODS_PAGE_SIZE
  Inputs,        \* hidden key -> texts the operator types there
  CardInputs, PieInputs, SliceInputs    \* what is typed into the dashboard

None == "none"
Report == "report_module_state"
Id(i) == METHOD_CATALOG[i].id

ASSUME PageAssumption ==
  /\ Offered \subseteq DOMAIN METHOD_CATALOG /\ \E i \in Offered : Id(i) = Report
  /\ Searches \subseteq SUBSET Offered
  /\ "protocol" \in Tabs /\ Tabs \subseteq METHOD_CATEGORY_TABS
  /\ PAGE_SIZE \in Nat \ {0}

ASSUME InputsAssumption ==
  /\ DOMAIN Inputs \subseteq HiddenKeys /\ \A k \in DOMAIN Inputs : Inputs[k] \subseteq Texts
  /\ CardInputs \subseteq CardRows /\ PieInputs \subseteq PieRows /\ SliceInputs \subseteq SliceRows

VARIABLES
  category, search, selectedId, page,   \* the list of methods
  visible,   \* filled parameters of the form; under: the method they were typed for
  hidden,    \* the hidden values of the form, NoHidden when it has none
  stash,     \* reportHiddenStashRef
  dash,      \* reportDashboard
  loading,   \* is a call under way, and the form locked
  outcome,   \* is an outcome shown
  typed      \* what was typed last for each hidden key

nav      == <<category, search, selectedId, page>>
form     == <<visible, hidden, stash, dash, typed>>
exec     == <<loading, outcome>>
vars     == <<category, search, selectedId, page, visible, hidden, stash, dash,
              loading, outcome, typed>>

--------------------------------------------------------------------------------
(* The list of methods *)

(* A list of methods is the set of their positions, searches are too. *)

Entry(id) == METHOD_CATALOG[CHOOSE i \in Offered : Id(i) = id]

FilteredBy(cat, s) == {i \in s : METHOD_CATALOG[i].category = cat}
Filtered == FilteredBy(category, search)

\* methodPageMax of n methods.
PageMax(n) == IF n = 0 THEN 0 ELSE (n + PAGE_SIZE - 1) \div PAGE_SIZE - 1

\* pagedMethods: the positions of the methods on the page.
Listed == {i \in Filtered : Cardinality({j \in Filtered : j < i}) \div PAGE_SIZE = page}

\* "selected": the chosen method, or the first of those that are left.
ShownOf(id, methods) ==
  IF \E i \in methods : Id(i) = id THEN id
  ELSE IF methods = {} THEN None ELSE Id(Min(methods))

Shown == ShownOf(selectedId, Filtered)

--------------------------------------------------------------------------------
(* The form *)

NoHidden == [k \in {} |-> Blank]

Param(name, under) == [name |-> name, under |-> under]

\* A list of options starts with its first one.
OptionFields(m) == {Param(n, m.id) : n \in Params(m) \cap OptionParams}

\* Variant: values of parameters of the same name are taken over.
FieldsKept(m) == OptionFields(m) \cup {v \in visible : v.name \in Params(m) \ OptionParams}

\* buildInitialValuesForMethod, visible parameters: only options have a value.
FreshFields(m) == OptionFields(m)

\* Variant: the stash is not consulted.
HiddenOfValues == IF hidden # NoHidden THEN hidden ELSE [k \in HiddenKeys |-> Blank]

\* buildInitialValuesForMethod, hidden parameters: of the values, else of the stash.
HiddenOrStash == IF hidden # NoHidden THEN hidden ELSE stash

\* Values and stash are rebuilt for the method id.
Rebuild(id) ==
  /\ visible' = FreshFields(Entry(id))
  /\ hidden' = IF id = Report THEN HiddenOrStash ELSE NoHidden
  /\ stash' = IF id = Report THEN HiddenOrStash ELSE stash

\* The effect on [selected]: only a change of what is shown rebuilds.
RebuildOnChange(old, new) ==
  IF new = old \/ new = None THEN UNCHANGED <<visible, hidden, stash>> ELSE Rebuild(new)

\* A tab: the search is cleared and the first page shown.
ChooseCategory(cat) ==
  /\ category' = cat /\ search' = Offered /\ page' = 0
  /\ RebuildOnChange(Shown, ShownOf(selectedId, FilteredBy(cat, Offered)))
  /\ UNCHANGED <<selectedId, dash, typed, exec>>

Search(s) ==
  /\ search' = s /\ page' = 0
  /\ RebuildOnChange(Shown, ShownOf(selectedId, FilteredBy(category, s)))
  /\ UNCHANGED <<category, selectedId, dash, typed, exec>>

NextPage ==
  /\ page < PageMax(Cardinality(Filtered))
  /\ page' = page + 1
  /\ UNCHANGED <<category, search, selectedId, form, exec>>

PreviousPage ==
  /\ page > 0
  /\ page' = page - 1
  /\ UNCHANGED <<category, search, selectedId, form, exec>>

\* onSelectMethod, also for the method that is already shown.
Select(i) ==
  /\ i \in Listed
  /\ selectedId' = Id(i)
  /\ outcome' = FALSE
  /\ Rebuild(Id(i))
  /\ UNCHANGED <<category, search, page, dash, typed, loading>>

\* setParam of a parameter of the form; a list of options is never emptied.
Fill(name) ==
  /\ visible' = LET rest == {v \in visible : v.name # name}
                IN  IF rest # visible THEN rest ELSE rest \cup {Param(name, Shown)}
  /\ UNCHANGED <<nav, hidden, stash, dash, typed, exec>>

\* setParam: the stash follows the value.
StashWith(k, t) == [stash EXCEPT ![k] = t]

\* setParam of a hidden parameter, below the form.
FillHidden(k, t) ==
  /\ hidden' = [hidden EXCEPT ![k] = FieldText(k, t)]
  /\ stash' = StashWith(k, FieldText(k, t))
  /\ typed' = [typed EXCEPT ![k] = FieldText(k, t)]
  /\ UNCHANGED <<nav, visible, dash, exec>>

\* fillReportModuleStateMock.
FillMock ==
  /\ Shown = Report
  /\ dash' = defaultReportModuleDashboard
  /\ hidden' = reportModuleStateMockFormPatch
  /\ stash' = reportModuleStateMockFormPatch
  /\ typed' = reportModuleStateMockFormPatch
  /\ UNCHANGED <<nav, visible, exec>>

--------------------------------------------------------------------------------
(* The dashboard below the form *)

Edit(cards, pies) ==
  /\ dash' = [cards |-> cards, pies |-> pies]
  /\ UNCHANGED <<nav, visible, hidden, stash, typed, exec>>

RoomForCards == Len(dash.cards) < MaxCards

AddCard == RoomForCards /\ Edit(Append(dash.cards, emptyCard), dash.pies)

RemoveCard(i) == Len(dash.cards) > 1 /\ Edit(RemoveAt(dash.cards, i), dash.pies)

EditCard(i, c) ==
  Edit([dash.cards EXCEPT ![i] = Card(c.title, NumberText(c.value), ShortText(c.description))],
       dash.pies)

AddPie == Len(dash.pies) < MaxPies /\ Edit(dash.cards, Append(dash.pies, emptyPie))

RemovePie(i) == Edit(dash.cards, RemoveAt(dash.pies, i))

EditPie(i, p) == Edit(dash.cards, [dash.pies EXCEPT ![i].metric_name = p.metric_name,
                                                    ![i].total = NumberText(p.total)])

SlicesOf(i, slices) == Edit(dash.cards, [dash.pies EXCEPT ![i].slices = slices])

AddSlice(i) ==
  /\ Len(dash.pies[i].slices) < MaxSlices
  /\ SlicesOf(i, Append(dash.pies[i].slices, emptySlice))

RemoveSlice(i, j) ==
  /\ Len(dash.pies[i].slices) > 1
  /\ SlicesOf(i, RemoveAt(dash.pies[i].slices, j))

EditSlice(i, j, s) ==
  SlicesOf(i, [dash.pies[i].slices EXCEPT ![j] = Slice(s.label, PercentText(s.percent))])

\* ReportModuleStateDashboardFields is shown below the form of report_module_state.
EditDashboard ==
  Shown = Report /\
  \/ AddCard \/ AddPie
  \/ \E i \in DOMAIN dash.cards : RemoveCard(i) \/ \E c \in CardInputs : EditCard(i, c)
  \/ \E i \in DOMAIN dash.pies :
       \/ RemovePie(i) \/ AddSlice(i)
       \/ \E p \in PieInputs : EditPie(i, p)
       \/ \E j \in DOMAIN dash.pies[i].slices :
            RemoveSlice(i, j) \/ \E s \in SliceInputs : EditSlice(i, j, s)

--------------------------------------------------------------------------------
(* Executing *)

Has == {v.name : v \in visible}

\* Variant: filling in both is accepted.
PairsLoose(id) ==
  CASE id = "get_organization_logo" ->
         Has \cap {"organization_key", "organization_signing_public_key_hex"} # {}
    [] OTHER -> TRUE

\* The checks of the branches of runExecute on pairs of parameters.
PairsFit(id) ==
  CASE id = "get_organization_logo" ->
         OneOf(Has, "organization_key", "organization_signing_public_key_hex")
    [] id \in {"get_user_profile_image", "get_user_description"} ->
         OneOf(Has, "user_handle", "user_signing_public_key_hex")
    [] id = "set_user_profile_image" ->
         AllOrNone(Has, "profile_image_base64", "profile_image_mime")
    [] OTHER -> TRUE

\* The branch of report_module_state.
ReportRuns(seed) == seed /\ Composes(hidden, dash)

\* runExecute reaches its request, when a core is configured (base) and the
\* settings hold a signing seed (seed).
Runs(m, base, seed) ==
  /\ m.required \subseteq Has
  /\ Live(m) => base /\ PairsFit(m.id)
  /\ m.id = Report => ReportRuns(seed)

\* The button, and Enter in the last field, are dead while a call is under way.
MayExecute == Shown # None /\ ~ loading

\* runExecute: what is wrong is said at once, else a request is under way.  The
\* settings are those of this moment: the panel above the page may have changed them.
Execute(base, seed) ==
  LET m == Entry(Shown)
  IN  /\ MayExecute
      /\ IF Runs(m, base, seed)
         THEN /\ outcome' = FALSE /\ loading' = TRUE
         ELSE /\ outcome' = TRUE /\ UNCHANGED loading
      /\ UNCHANGED <<nav, form>>

\* A call resolves or rejects; its outcome is shown, whatever is shown by then.
Settle ==
  /\ loading
  /\ outcome' = TRUE /\ loading' = FALSE
  /\ UNCHANGED <<nav, form>>

--------------------------------------------------------------------------------

\* The page is mounted: the first method of the catalogue, and the values rebuilt
\* for the method that is shown.
Init ==
  /\ category = "protocol" /\ search = Offered /\ page = 0
  /\ selectedId = Id(Min(Offered))
  /\ stash = [k \in HiddenKeys |-> Blank] /\ typed = stash
  /\ visible = OptionFields(Entry(Shown))
  /\ hidden = IF Shown = Report THEN stash ELSE NoHidden
  /\ dash = defaultReportModuleDashboard
  /\ loading = FALSE /\ outcome = FALSE

Next ==
  \/ \E cat \in Tabs : ChooseCategory(cat)
  \/ \E s \in Searches : Search(s)
  \/ NextPage \/ PreviousPage
  \/ \E i \in Offered : Select(i)
  \/ Shown # None /\ \E n \in Params(Entry(Shown)) \ OptionParams : Fill(n)
  \/ Shown = Report /\ \E k \in DOMAIN Inputs : \E t \in Inputs[k] : FillHidden(k, t)
  \/ FillMock \/ EditDashboard
  \/ \E base, seed \in BOOLEAN : Execute(base, seed)
  \/ Settle

Spec == Init /\ [][Next]_vars

--------------------------------------------------------------------------------
(* Properties *)

\* What was typed for a report comes back unchanged, whichever methods, tabs and
\* searches were visited in between.
ReportSurvives ==
  IF hidden # NoHidden THEN hidden = typed /\ stash = typed ELSE stash = typed

\* No value typed for one method is ever sent with another one.
NothingLeaks ==
  Shown # None => \A v \in visible : v.under = Shown /\ v.name \in Params(Entry(Shown))

\* What is sent to a core never fails there for the shape of its payload, and a
\* composed report only for its length.
CoreTakesRequests ==
  Shown # None /\ Live(Entry(Shown)) /\ Runs(Entry(Shown), TRUE, TRUE) =>
    /\ MeetsContract(Shown, Has)
    /\ Shown = Report =>
         LET d == Composed(hidden, dash) IN DetailFits(d) => Accepts(d)
================================================================================
