---------------------------- MODULE MethodsPageProofs ----------------------------
(***************************************************************************)
(* Proofs about the Methods page, for any part of the catalogue, any page  *)
(* size and any limits of the form, and about the two validations of a     *)
(* report.                                                                 *)
(***************************************************************************)
EXTENDS MethodsPage, SequenceTheorems, WellFoundedInduction, TLAPS

--------------------------------------------------------------------------------
(* The catalogue *)

\* The smallest position of a list is one of its own.
LEMMA MinIsIn ==
  ASSUME NEW S \in SUBSET Nat, S # {}
  PROVE  Min(S) \in S
<1> DEFINE R == OpToRel(<, Nat)
<1>1. IsWellFoundedOn(R, Nat)
  BY NatLessThanWellFounded, Zenon
<1>2. \A x, y \in Nat : y < x => <<y, x>> \in R
  BY Zenon DEF OpToRel
<1> HIDE DEF R
<1>3. PICK x \in S : \A y \in S : <<y, x>> \notin R
  BY <1>1, WFMin
<1>4. \A y \in S : x <= y
  <2> SUFFICES ASSUME NEW y \in S PROVE x <= y
    OBVIOUS
  <2>1. x \in Nat /\ y \in Nat /\ ~ (y < x)
    BY <1>2, <1>3
  <2> QED
    BY <2>1
<1> QED
  BY <1>4, Zenon DEF Min

\* What a list of entries holds.
LEMMA Joined ==
  ASSUME NEW S, NEW a \in Seq(S), NEW b \in Seq(S)
  PROVE  a \o b \in Seq(S) /\ Range(a \o b) = Range(a) \cup Range(b)
<1>1. /\ a \o b \in Seq(S) /\ Len(a \o b) = Len(a) + Len(b)
      /\ \A i \in 1..Len(a) + Len(b) : (a \o b)[i] = IF i <= Len(a) THEN a[i] ELSE b[i - Len(a)]
  BY ConcatProperties
<1>2. /\ DOMAIN a = 1..Len(a) /\ DOMAIN b = 1..Len(b) /\ Len(a) \in Nat /\ Len(b) \in Nat
      /\ DOMAIN (a \o b) = 1..Len(a) + Len(b)
  BY <1>1
<1>3. ASSUME NEW i \in DOMAIN a PROVE a[i] \in Range(a \o b)
  <2>1. i \in DOMAIN (a \o b) /\ (a \o b)[i] = a[i]
    BY <1>1, <1>2
  <2> QED
    BY <2>1 DEF Range
<1>4. ASSUME NEW i \in DOMAIN b PROVE b[i] \in Range(a \o b)
  <2>1. /\ Len(a) + i \in DOMAIN (a \o b) /\ ~ Len(a) + i <= Len(a)
        /\ Len(a) + i - Len(a) = i
    BY <1>2
  <2>2. (a \o b)[Len(a) + i] = b[i]
    BY <1>1, <1>2, <2>1
  <2> QED
    BY <2>1, <2>2 DEF Range
<1>5. ASSUME NEW i \in DOMAIN (a \o b) PROVE (a \o b)[i] \in Range(a) \cup Range(b)
  <2>1. CASE i <= Len(a)
    BY <1>1, <1>2, <2>1 DEF Range
  <2>2. CASE ~ i <= Len(a)
    <3>1. i - Len(a) \in DOMAIN b /\ (a \o b)[i] = b[i - Len(a)]
      BY <1>1, <1>2, <2>2
    <3> QED
      BY <3>1 DEF Range
  <2> QED
    BY <2>1, <2>2
<1> QED
  BY <1>1, <1>3, <1>4, <1>5 DEF Range

Entries == Range(Core) \cup Range(BrandingReads) \cup Range(BrandingWrites)
           \cup Range(Lookups) \cup Range(Routes) \cup Range(States) \cup Range(Unwired)

LEMMA CatalogEntries ==
  METHOD_CATALOG \in Seq(Entries) /\ Range(METHOD_CATALOG) = Entries
<1>1. Core \in Seq(Entries)
  BY DEF Core, Range, Entries
<1>2. BrandingReads \in Seq(Entries)
  BY DEF BrandingReads, Range, Entries
<1>3. BrandingWrites \in Seq(Entries)
  BY DEF BrandingWrites, Range, Entries
<1>4. Lookups \in Seq(Entries)
  BY DEF Lookups, Range, Entries
<1>5. Routes \in Seq(Entries)
  BY DEF Routes, Range, Entries
<1>6. States \in Seq(Entries)
  BY DEF States, Range, Entries
<1>7. Unwired \in Seq(Entries)
  BY DEF Unwired, Range, Entries
<1> DEFINE b == Core \o BrandingReads
           c == b \o BrandingWrites
           d == c \o Lookups
           e == d \o Routes
           f == e \o States
<1>8. b \in Seq(Entries) /\ Range(b) = Range(Core) \cup Range(BrandingReads)
  BY <1>1, <1>2, Joined
<1> HIDE DEF b
<1>9. c \in Seq(Entries) /\ Range(c) = Range(b) \cup Range(BrandingWrites)
  BY <1>3, <1>8, Joined
<1> HIDE DEF c
<1>10. d \in Seq(Entries) /\ Range(d) = Range(c) \cup Range(Lookups)
  BY <1>4, <1>9, Joined
<1> HIDE DEF d
<1>11. e \in Seq(Entries) /\ Range(e) = Range(d) \cup Range(Routes)
  BY <1>5, <1>10, Joined
<1> HIDE DEF e
<1>12. f \in Seq(Entries) /\ Range(f) = Range(e) \cup Range(States)
  BY <1>6, <1>11, Joined
<1> HIDE DEF f
<1>13. f \o Unwired \in Seq(Entries) /\ Range(f \o Unwired) = Range(f) \cup Range(Unwired)
  BY <1>7, <1>12, Joined
<1>14. METHOD_CATALOG = f \o Unwired
  BY Zenon DEF METHOD_CATALOG, f, e, d, c, b
<1> QED
  BY <1>8, <1>9, <1>10, <1>11, <1>12, <1>13, <1>14 DEF Entries

\* Whatever is filled in, a method the page sends with its required parameters, no
\* other ones and the pairs it checks, meets the contract of the core's handler.
LEMMA ContractsAreMet ==
  ASSUME NEW m \in Entries, Live(m), m.required \subseteq Has, Has \subseteq Params(m),
         PairsFit(m.id)
  PROVE  MeetsContract(m.id, Has)
<1>1. CASE m \in Range(Core)
  <2>1. m.id \in {"get_protocol_version", "get_protocol_methods", "get_core_genesis_branding"}
        /\ Params(m) = {}
    BY <1>1 DEF Core, Range, Method, Params
  <2> QED
    BY <2>1 DEF MeetsContract
<1>2. CASE m \in Range(BrandingReads)
  <2>1. m.id \in {"get_organization_logo", "get_user_profile_image", "get_user_description"}
    BY <1>2 DEF BrandingReads, Range, Method
  <2> QED
    BY <2>1 DEF MeetsContract, PairsFit
<1>3. CASE m \in Range(BrandingWrites)
  <2>1. \/ m.id = "set_organization_logo" /\ "organization_signing_public_key_hex" \in m.required
        \/ m.id = "set_user_profile_image" /\ "user_signing_public_key_hex" \in m.required
        \/ m.id = "set_user_description" /\ "user_signing_public_key_hex" \in m.required
    BY <1>3 DEF BrandingWrites, Range, Method
  <2> QED
    BY <2>1 DEF MeetsContract, PairsFit
<1>4. CASE m \in Range(Lookups)
  <2>1. \/ m.id = "lookup_module" /\ "module_name" \in m.required
        \/ m.id = "get_module_methods" /\ "module_id" \in m.required
    BY <1>4 DEF Lookups, Range, Method
  <2> QED
    BY <2>1 DEF MeetsContract
<1>5. CASE m \in Range(Routes)
  <2>1. \/ /\ m.id \in {"submit_module_route", "remove_module_route"}
           /\ {"module_id", "route_type", "route"} \subseteq m.required
        \/ m.id = "get_module_route" /\ "module_id" \in m.required
    BY <1>5 DEF Routes, Range, Method
  <2> QED
    BY <2>1 DEF MeetsContract
<1>6. CASE m \in Range(States)
  <2>1. \/ m.id = "report_module_state" /\ {"module_id", "state_phase"} \subseteq m.required
        \/ m.id = "get_module_state" /\ "module_id" \in m.required
    BY <1>6 DEF States, Range, Method
  <2> QED
    BY <2>1 DEF MeetsContract
<1>7. CASE m \in Range(Unwired)
  BY <1>7 DEF Live, Range
<1> QED
  BY <1>1, <1>2, <1>3, <1>4, <1>5, <1>6, <1>7 DEF Entries

--------------------------------------------------------------------------------
(* The two validations of a report *)

\* A percentage the browser accepts is one the core accepts.
LEMMA PercentsAgree ==
  ASSUME NEW t, t.n \in Nat, parsePct(t)
  PROVE  PctInt(t)
<1>1. t.kind = "digits" /\ t.n <= 100
  BY DEF parsePct
<1>2. t.n \in 0..100
  BY <1>1
<1> QED
  BY <1>1, <1>2, Zenon DEF PctInt

\* Of typed texts, what the browser composes is what the core accepts, but for its
\* length.
LEMMA ComposedIsAccepted ==
  ASSUME NEW h \in [HiddenKeys -> Texts], NEW cards \in Seq(CardRows), NEW pies \in Seq(PieRows),
         NEW d, d = [cards |-> cards, pies |-> pies],
         Composes(h, d), DetailFits(Composed(h, d))
  PROVE  Accepts(Composed(h, d))
<1> DEFINE c == Composed(h, d)
           named == Named(pies)
<1>1. c.fields = h /\ c.cards = Titled(cards)
      /\ c.pies = [i \in DOMAIN named |->
                    Pie(named[i].metric_name, named[i].total, SlicesIn(named[i].slices))]
  BY DEF Composed
<1>2. /\ \A k \in Metrics : NonNegInt(c.fields[k])
      /\ \A k \in Shares : PctInt(c.fields[k])
      /\ SharesOf(c.fields) = 100
      /\ \A k \in Series : c.fields[k].kind = "csv24"
      /\ \A k \in AuxLabels : Filled(c.fields[k]) /\ c.fields[k].kind \notin {"long", "csv24"}
  <2>1. /\ \A k \in Metrics : parseNonNegInt(h[k])
        /\ \A k \in Shares : parsePct(h[k])
        /\ SharesOf(h) = 100
        /\ \A k \in Series : parseHealthSeries24Csv(h[k])
        /\ \A k \in AuxLabels : parseHealthAuxLabel(h[k])
    BY DEF Composes, HealthPreviewed
  <2>2. \A k \in Shares : h[k].n \in Nat
    BY DEF HiddenKeys, Texts
  <2>3. \A k \in Metrics : NonNegInt(h[k])
    BY <2>1 DEF parseNonNegInt, NonNegInt
  <2>4. \A k \in Shares : PctInt(h[k])
    BY <2>1, <2>2, PercentsAgree
  <2>5. \A k \in Series : h[k].kind = "csv24"
    BY <2>1 DEF parseHealthSeries24Csv
  <2>6. \A k \in AuxLabels : Filled(h[k]) /\ h[k].kind \notin {"long", "csv24"}
    BY <2>1 DEF parseHealthAuxLabel, Filled
  <2> HIDE DEF c
  <2> QED
    BY <1>1, <2>1, <2>3, <2>4, <2>5, <2>6
<1>3. AcceptsCards(c.cards)
  <2> DEFINE kept == Titled(cards)
  <2>1. Size(kept) \in 1..4 /\ \A i \in DOMAIN kept : CardComposes(kept[i])
    BY DEF Composes, CardsCompose
  <2>2. \A i \in DOMAIN kept : Filled(kept[i].title)
    BY DEF Titled, Restrict
  <2> HIDE DEF kept
  <2>3. AcceptsCards(kept)
    BY <2>1, <2>2 DEF AcceptsCards, CardComposes, NonNegInt, parseNonNegInt
  <2> QED
    BY <1>1, <2>3 DEF kept
<1>4. AcceptsPies(c.pies)
  <2>1. Size(named) <= 4 /\ \A i \in DOMAIN named : PieComposes(named[i])
    BY DEF Composes, PiesCompose
  <2>2. \A i \in DOMAIN named : i \in DOMAIN pies /\ named[i] = pies[i] /\ Filled(named[i].metric_name)
    BY DEF Named, Restrict
  <2> HIDE DEF named
  <2>3. DOMAIN c.pies = DOMAIN named /\ Size(c.pies) <= 4
    BY <1>1, <2>1 DEF Size
  <2> SUFFICES ASSUME NEW i \in DOMAIN named
               PROVE  /\ Filled(c.pies[i].metric_name) /\ NonNegInt(c.pies[i].total)
                      /\ c.pies[i].description.kind # "long"
                      /\ Size(c.pies[i].slices) \in 1..5
                      /\ \A j \in DOMAIN c.pies[i].slices :
                           Filled(c.pies[i].slices[j].label) /\ PctInt(c.pies[i].slices[j].percent)
                      /\ PercentOf(c.pies[i].slices) = 100
    BY <2>3 DEF AcceptsPies
  <2> DEFINE kept == SlicesIn(named[i].slices)
  <2>4. /\ c.pies[i].metric_name = named[i].metric_name /\ c.pies[i].total = named[i].total
        /\ c.pies[i].description = Blank /\ c.pies[i].slices = kept
    BY <1>1 DEF Pie
  <2>5. /\ parseNonNegInt(named[i].total) /\ Size(kept) \in 1..5
        /\ \A j \in DOMAIN kept : parsePct(kept[j].percent)
        /\ PercentOf(kept) = 100
    BY <2>1 DEF PieComposes
  <2>6. \A j \in DOMAIN kept : /\ Filled(kept[j].label)
                               /\ j \in DOMAIN named[i].slices /\ kept[j] = named[i].slices[j]
    BY DEF SlicesIn, Restrict
  <2>7. \A j \in DOMAIN kept : kept[j].percent.n \in Nat
    <3>1. named[i] \in PieRows
      BY <2>2
    <3>2. named[i].slices \in Seq(SliceRows)
      BY <3>1 DEF PieRows
    <3>3. \A j \in DOMAIN named[i].slices : named[i].slices[j] \in SliceRows
      BY <3>2
    <3> HIDE DEF kept
    <3> QED
      BY <2>6, <3>3 DEF SliceRows, Texts
  <2>8. \A j \in DOMAIN kept : Filled(kept[j].label) /\ PctInt(kept[j].percent)
    <3> HIDE DEF kept
    <3> QED
      BY <2>5, <2>6, <2>7, PercentsAgree
  <2>9. Blank.kind # "long"
    BY DEF Blank, Text
  <2> HIDE DEF kept, c
  <2> QED
    BY <2>2, <2>4, <2>5, <2>8, <2>9 DEF parseNonNegInt, NonNegInt
<1> QED
  BY <1>2, <1>3, <1>4 DEF Accepts

--------------------------------------------------------------------------------
(* The invariant *)

\* The form of a dashboard, as it is typed.
DashTypes == dash \in [cards : Seq(CardRows), pies : Seq(PieRows)]

ValueTypes ==
  /\ hidden = NoHidden \/ hidden \in [HiddenKeys -> Texts]
  /\ stash \in [HiddenKeys -> Texts] /\ typed \in [HiddenKeys -> Texts]

\* Every hidden field below the form has its value.
ReportIsFilled == Shown = Report => hidden # NoHidden

\* The values of the form, of which the dashboard is independent.
FormInv ==
  /\ search \subseteq Offered /\ ValueTypes
  /\ ReportIsFilled /\ ReportSurvives /\ NothingLeaks

IInv == FormInv /\ DashTypes

\* The positions offered are positions of entries.
LEMMA OfferedAreEntries ==
  /\ Offered \in SUBSET Nat
  /\ \A i \in Offered : METHOD_CATALOG[i] \in Entries
<1>1. Offered \subseteq DOMAIN METHOD_CATALOG
  BY PageAssumption
<1>2. DOMAIN METHOD_CATALOG = 1..Len(METHOD_CATALOG) /\ Len(METHOD_CATALOG) \in Nat
  BY CatalogEntries
<1>3. \A i \in DOMAIN METHOD_CATALOG : METHOD_CATALOG[i] \in Entries
  BY CatalogEntries DEF Range
<1> QED
  BY <1>1, <1>2, <1>3

\* What is shown, of any list of methods, is one of those offered.
LEMMA ShownIsOffered ==
  ASSUME NEW methods \in SUBSET Offered, NEW id, ShownOf(id, methods) # None
  PROVE  \E i \in Offered : Id(i) = ShownOf(id, methods)
<1>1. CASE \E i \in methods : Id(i) = id
  BY <1>1 DEF ShownOf
<1>2. CASE ~ \E i \in methods : Id(i) = id
  <2>1. methods # {} /\ ShownOf(id, methods) = Id(Min(methods))
    BY <1>2 DEF ShownOf
  <2>2. Min(methods) \in methods
    BY <2>1, OfferedAreEntries, MinIsIn
  <2> QED
    BY <2>1, <2>2
<1> QED
  BY <1>1, <1>2

\* The entry of a method that is offered bears its id.
LEMMA EntryOfId ==
  ASSUME NEW id, \E i \in Offered : Id(i) = id
  PROVE  Entry(id) \in Entries /\ Entry(id).id = id
<1> DEFINE k == CHOOSE i \in Offered : Id(i) = id
<1>1. k \in Offered /\ Id(k) = id
  OBVIOUS
<1> QED
  BY <1>1, OfferedAreEntries DEF Entry, Id

\* A form has hidden values or none: typed values are not the empty ones.
LEMMA ValuesAreSome ==
  ASSUME NEW f \in [HiddenKeys -> Texts]
  PROVE  f # NoHidden
<1>1. "detail_notes" \in DOMAIN f
  BY DEF HiddenKeys
<1>2. DOMAIN NoHidden = {}
  BY DEF NoHidden
<1> QED
  BY <1>1, <1>2

LEMMA FilteredAreOffered ==
  ASSUME search \subseteq Offered
  PROVE  Filtered \in SUBSET Offered
BY DEF Filtered, FilteredBy

--------------------------------------------------------------------------------
(* What is typed *)

\* The fields filter what is typed, and keep a text.
LEMMA FieldsKeepTexts ==
  ASSUME NEW t \in Texts
  PROVE  /\ NumberText(t) \in Texts /\ PercentText(t) \in Texts /\ ShortText(t) \in Texts
         /\ \A k \in HiddenKeys : FieldText(k, t) \in Texts
<1>1. \A n \in Nat : Num(n) \in Texts
  BY DEF Num, Texts, Kinds
<1>2. \A kind \in Kinds : Text(kind) \in Texts
  BY DEF Text, Texts
<1>3. Blank \in Texts
  BY <1>2 DEF Blank, Kinds
<1>4. NumberText(t) \in Texts
  BY <1>1, <1>3 DEF NumberText
<1>5. PercentText(t) \in Texts
  <2> DEFINE d == NumberText(t)
  <2>1. d.n \in Nat
    BY <1>4 DEF Texts
  <2>2. d.n \div 10 \in Nat
    <3> HIDE DEF d
    <3> QED
      BY <2>1
  <2>3. Num(d.n \div 10) \in Texts
    BY <1>1, <2>2
  <2> QED
    BY <1>4, <2>3, Zenon DEF PercentText
<1>6. ShortText(t) \in Texts
  BY <1>2 DEF ShortText, Kinds
<1> QED
  BY <1>4, <1>5, <1>6, Zenon DEF FieldText

\* The patch of the Fill mock button types every hidden field.
LEMMA MockIsTyped ==
  reportModuleStateMockFormPatch \in [HiddenKeys -> Texts]
<1>1. \A n \in Nat : Num(n) \in Texts
  BY DEF Num, Texts, Kinds
<1>2. Text("csv24") \in Texts /\ Text("word") \in Texts
  BY DEF Text, Texts, Kinds
<1>3. /\ Num(45120) \in Texts /\ Num(31) \in Texts /\ Num(27) \in Texts
      /\ Num(100 - 31 - 27) \in Texts
  BY <1>1
<1> QED
  BY <1>2, <1>3 DEF reportModuleStateMockFormPatch

LEMMA DashboardStarts ==
  defaultReportModuleDashboard \in [cards : Seq(CardRows), pies : Seq(PieRows)]
<1>1. Text("word") \in Texts /\ Blank \in Texts /\ \A n \in Nat : Num(n) \in Texts
  BY DEF Text, Num, Texts, Kinds, Blank
<1>2. Card(Text("word"), Num(1), Text("word")) \in CardRows
  BY <1>1 DEF Card, CardRows
<1>3. Slice(Text("word"), Num(100)) \in SliceRows
  BY <1>1 DEF Slice, SliceRows
<1>4. Pie(Text("word"), Num(45120), <<Slice(Text("word"), Num(100))>>) \in PieRows
  BY <1>1, <1>3 DEF Pie, PieRows
<1> QED
  BY <1>2, <1>4 DEF defaultReportModuleDashboard

\* Taking a row away leaves rows.
LEMMA RowRemoved ==
  ASSUME NEW S, NEW rows \in Seq(S), NEW i \in DOMAIN rows
  PROVE  RemoveAt(rows, i) \in Seq(S)
<1>1. i \in 1..Len(rows) /\ Len(rows) \in Nat
  OBVIOUS
<1>2. SubSeq(rows, 1, i - 1) \in Seq(S) /\ SubSeq(rows, i + 1, Len(rows)) \in Seq(S)
  BY <1>1, SubSeqProperties
<1> QED
  BY <1>2, ConcatProperties DEF RemoveAt

\* Adding, removing and editing rows of the dashboard leaves typed rows.
LEMMA DashboardIsTyped ==
  ASSUME DashTypes, EditDashboard
  PROVE  DashTypes'
<1> DEFINE cards == dash.cards
           pies == dash.pies
<1>1. cards \in Seq(CardRows) /\ pies \in Seq(PieRows)
  BY DEF DashTypes
<1>2. /\ Blank \in Texts /\ emptyCard \in CardRows /\ emptySlice \in SliceRows
      /\ emptyPie \in PieRows
  <2>1. Blank \in Texts
    BY DEF Blank, Text, Texts, Kinds
  <2>2. emptyCard \in CardRows
    BY <2>1 DEF emptyCard, Card, CardRows
  <2>3. emptySlice \in SliceRows
    BY <2>1 DEF emptySlice, Slice, SliceRows
  <2>4. [i \in 1..3 |-> emptySlice] \in Seq(SliceRows)
    BY <2>3
  <2> QED
    BY <2>1, <2>2, <2>3, <2>4 DEF emptyPie, Pie, PieRows
<1>3. ASSUME NEW cs \in Seq(CardRows), NEW ps \in Seq(PieRows), Edit(cs, ps)
      PROVE  DashTypes'
  BY <1>3 DEF Edit, DashTypes
<1>4. ASSUME NEW i \in DOMAIN pies, NEW rows \in Seq(SliceRows), SlicesOf(i, rows)
      PROVE  DashTypes'
  <2>1. pies[i] \in PieRows
    BY <1>1
  <2>2. [pies[i] EXCEPT !.slices = rows] \in PieRows
    BY <2>1 DEF PieRows
  <2>3. [pies EXCEPT ![i].slices = rows] \in Seq(PieRows)
    BY <1>1, <2>2
  <2>4. Edit(cards, [pies EXCEPT ![i].slices = rows])
    BY <1>4 DEF SlicesOf
  <2> QED
    BY <1>1, <1>3, <2>3, <2>4
<1>5. \A i \in DOMAIN pies : pies[i] \in PieRows /\ pies[i].slices \in Seq(SliceRows)
  <2> SUFFICES ASSUME NEW i \in DOMAIN pies
               PROVE  pies[i] \in PieRows /\ pies[i].slices \in Seq(SliceRows)
    OBVIOUS
  <2>1. pies[i] \in PieRows
    BY <1>1, ElementOfSeq
  <2> QED
    BY <2>1 DEF PieRows
<1>6. CASE AddCard
  <2>1. Append(cards, emptyCard) \in Seq(CardRows)
    BY <1>1, <1>2, AppendProperties
  <2> QED
    BY <1>1, <1>3, <1>6, <2>1 DEF AddCard
<1>7. CASE AddPie
  <2>1. Append(pies, emptyPie) \in Seq(PieRows)
    BY <1>1, <1>2, AppendProperties
  <2> QED
    BY <1>1, <1>3, <1>7, <2>1 DEF AddPie
<1>8. ASSUME NEW i \in DOMAIN cards, RemoveCard(i) PROVE DashTypes'
  BY <1>1, <1>3, <1>8, RowRemoved DEF RemoveCard
<1>9. ASSUME NEW i \in DOMAIN cards, NEW c \in CardInputs, EditCard(i, c) PROVE DashTypes'
  <2>1. c \in CardRows
    BY InputsAssumption
  <2>2. /\ c.title \in Texts /\ NumberText(c.value) \in Texts
        /\ ShortText(c.description) \in Texts
    BY <2>1, FieldsKeepTexts DEF CardRows
  <2>3. Card(c.title, NumberText(c.value), ShortText(c.description)) \in CardRows
    BY <2>2 DEF Card, CardRows
  <2>4. [cards EXCEPT ![i] = Card(c.title, NumberText(c.value), ShortText(c.description))]
          \in Seq(CardRows)
    BY <1>1, <2>3, ExceptSeq
  <2> QED
    BY <1>1, <1>3, <1>9, <2>4 DEF EditCard
<1>10. ASSUME NEW i \in DOMAIN pies, RemovePie(i) PROVE DashTypes'
  BY <1>1, <1>3, <1>10, RowRemoved DEF RemovePie
<1>11. ASSUME NEW i \in DOMAIN pies, NEW p \in PieInputs, EditPie(i, p) PROVE DashTypes'
  <2>1. p \in PieRows /\ pies[i] \in PieRows
    BY <1>1, InputsAssumption
  <2>2. p.metric_name \in Texts /\ NumberText(p.total) \in Texts
    BY <2>1, FieldsKeepTexts DEF PieRows
  <2>3. [[pies[i] EXCEPT !.metric_name = p.metric_name] EXCEPT !.total = NumberText(p.total)]
          \in PieRows
    BY <2>1, <2>2 DEF PieRows
  <2> DEFINE q == [[pies[i] EXCEPT !.metric_name = p.metric_name]
                            EXCEPT !.total = NumberText(p.total)]
  <2>4. [pies EXCEPT ![i].metric_name = p.metric_name, ![i].total = NumberText(p.total)]
          = [pies EXCEPT ![i] = q]
    BY <1>1
  <2>5. [pies EXCEPT ![i] = q] \in Seq(PieRows)
    <3> HIDE DEF q
    <3> QED
      BY <1>1, <2>3, ExceptSeq DEF q
  <2> QED
    BY <1>1, <1>3, <1>11, <2>4, <2>5 DEF EditPie
<1>12. ASSUME NEW i \in DOMAIN pies, AddSlice(i) PROVE DashTypes'
  <2>1. pies[i].slices \in Seq(SliceRows)
    BY <1>5
  <2>2. Append(pies[i].slices, emptySlice) \in Seq(SliceRows)
    BY <1>2, <2>1
  <2> QED
    BY <1>4, <1>12, <2>2 DEF AddSlice
<1>13. ASSUME NEW i \in DOMAIN pies, NEW j \in DOMAIN pies[i].slices, RemoveSlice(i, j)
       PROVE  DashTypes'
  <2>1. pies[i].slices \in Seq(SliceRows)
    BY <1>5
  <2>2. RemoveAt(pies[i].slices, j) \in Seq(SliceRows)
    BY <2>1, RowRemoved
  <2> QED
    BY <1>4, <1>13, <2>2 DEF RemoveSlice
<1>14. ASSUME NEW i \in DOMAIN pies, NEW j \in DOMAIN pies[i].slices, NEW s \in SliceInputs,
              EditSlice(i, j, s)
       PROVE  DashTypes'
  <2>1. pies[i].slices \in Seq(SliceRows) /\ s \in SliceRows
    BY <1>5, InputsAssumption
  <2>2. s.label \in Texts /\ PercentText(s.percent) \in Texts
    BY <2>1, FieldsKeepTexts DEF SliceRows
  <2>3. Slice(s.label, PercentText(s.percent)) \in SliceRows
    BY <2>2 DEF Slice, SliceRows
  <2>4. [pies[i].slices EXCEPT ![j] = Slice(s.label, PercentText(s.percent))] \in Seq(SliceRows)
    BY <2>1, <2>3, ExceptSeq
  <2> QED
    BY <1>4, <1>14, <2>4 DEF EditSlice
<1> QED
  BY <1>6, <1>7, <1>8, <1>9, <1>10, <1>11, <1>12, <1>13, <1>14, Zenon DEF EditDashboard

--------------------------------------------------------------------------------
(* The steps of the page *)

\* Where the values of a form are rebuilt, they are those of the method shown next.
LEMMA FormIsRebuilt ==
  ASSUME FormInv, NEW id, \E i \in Offered : Id(i) = id, Rebuild(id),
         Shown' = id, search' \subseteq Offered, typed' = typed
  PROVE  FormInv'
<1> DEFINE m == Entry(id)
<1>1. m.id = id
  BY EntryOfId
<1>2. HiddenOrStash = typed /\ stash = typed
  BY DEF FormInv, ReportSurvives, HiddenOrStash
<1>3. typed \in [HiddenKeys -> Texts] /\ typed # NoHidden
  BY ValuesAreSome DEF FormInv, ValueTypes
<1>4. hidden' = (IF id = Report THEN typed ELSE NoHidden) /\ stash' = typed
  BY <1>2 DEF Rebuild
<1>5. ValueTypes' /\ ReportIsFilled' /\ ReportSurvives'
  <2>1. NoHidden' = NoHidden
    BY DEF NoHidden
  <2> QED
    BY <1>3, <1>4, <2>1 DEF ValueTypes, ReportIsFilled, ReportSurvives
<1>6. NothingLeaks'
  <2>1. visible' = {Param(n, m.id) : n \in Params(m) \cap OptionParams}
    BY DEF Rebuild, FreshFields, OptionFields
  <2>2. \A v \in visible' : v.under = id /\ v.name \in Params(m)
    <3> HIDE DEF m
    <3> QED
      BY <1>1, <2>1 DEF Param
  <2>3. Entry(Shown)' = m
    BY DEF Entry
  <2> QED
    BY <2>2, <2>3 DEF NothingLeaks
<1> QED
  BY <1>5, <1>6 DEF FormInv

\* A step that leaves the form and the method that is shown alone.
LEMMA FormIsLeft ==
  ASSUME FormInv, Shown' = Shown, search' \subseteq Offered,
         UNCHANGED <<visible, hidden, stash, typed>>
  PROVE  FormInv'
<1>1. Entry(Shown)' = Entry(Shown) /\ NoHidden' = NoHidden
  BY DEF Entry, NoHidden
<1>2. ValueTypes' /\ ReportIsFilled' /\ ReportSurvives'
  BY <1>1 DEF FormInv, ValueTypes, ReportIsFilled, ReportSurvives
<1>3. NothingLeaks'
  BY <1>1 DEF FormInv, NothingLeaks
<1> QED
  BY <1>2, <1>3 DEF FormInv

\* What is shown depends on the tab, the search and the choice.
LEMMA ShownFollowsTheList ==
  ASSUME UNCHANGED <<category, search, selectedId>>
  PROVE  Shown' = Shown
BY DEF Shown, ShownOf, Filtered, FilteredBy, Min

\* A tab or a search changes the form only with what is shown.
LEMMA ListIsChanged ==
  ASSUME FormInv, NEW cat, NEW s \in SUBSET Offered,
         category' = cat, search' = s, selectedId' = selectedId, typed' = typed,
         RebuildOnChange(Shown, ShownOf(selectedId, FilteredBy(cat, s)))
  PROVE  FormInv'
<1> DEFINE new == ShownOf(selectedId, FilteredBy(cat, s))
<1>1. Shown' = new
  BY DEF Shown, Filtered, FilteredBy, ShownOf
<1>2. FilteredBy(cat, s) \in SUBSET Offered
  BY DEF FilteredBy
<1>3. CASE new = Shown
  <2>1. UNCHANGED <<visible, hidden, stash, typed>>
    BY <1>3 DEF RebuildOnChange
  <2> QED
    BY <1>1, <1>3, <2>1, FormIsLeft
<1>4. CASE new # Shown /\ new = None
  <2>1. UNCHANGED <<visible, hidden, stash, typed>>
    BY <1>4 DEF RebuildOnChange
  <2>2. NoHidden' = NoHidden
    BY DEF NoHidden
  <2>3. Shown' = None /\ None # Report
    BY <1>1, <1>4 DEF None, Report
  <2>4. ValueTypes' /\ ReportIsFilled' /\ ReportSurvives'
    BY <2>1, <2>2, <2>3 DEF FormInv, ValueTypes, ReportIsFilled, ReportSurvives
  <2> QED
    BY <2>3, <2>4 DEF FormInv, NothingLeaks
<1>5. CASE new # Shown /\ new # None
  <2>1. Rebuild(new)
    BY <1>5 DEF RebuildOnChange
  <2>2. \E i \in Offered : Id(i) = new
    BY <1>2, <1>5, ShownIsOffered
  <2> HIDE DEF new
  <2> QED
    BY <1>1, <2>1, <2>2, FormIsRebuilt
<1> QED
  BY <1>3, <1>4, <1>5

\* Choosing a method shows it, and the form is blank but for what was typed for a
\* report.
LEMMA MethodIsSelected ==
  ASSUME FormInv, NEW i \in Offered, Select(i)
  PROVE  FormInv'
<1>1. i \in Filtered
  BY DEF Select, Listed
<1>2. selectedId' = Id(i) /\ UNCHANGED <<category, search, typed>> /\ Rebuild(Id(i))
  BY DEF Select
<1>3. Shown' = ShownOf(Id(i), Filtered)
  BY <1>2 DEF Shown, ShownOf, Filtered, FilteredBy
<1>4. ShownOf(Id(i), Filtered) = Id(i)
  BY <1>1 DEF ShownOf
<1> QED
  BY <1>2, <1>3, <1>4, FormIsRebuilt DEF FormInv

\* A parameter is filled in under the method it belongs to.
LEMMA ParameterIsFilled ==
  ASSUME FormInv, Shown # None, NEW name \in Params(Entry(Shown)), Fill(name)
  PROVE  FormInv'
<1>1. UNCHANGED <<category, search, selectedId, hidden, stash, typed>>
  BY DEF Fill, nav
<1>2. Shown' = Shown /\ Entry(Shown)' = Entry(Shown) /\ NoHidden' = NoHidden
  BY <1>1, ShownFollowsTheList DEF Entry, NoHidden
<1>3. \A v \in visible' : v \in visible \/ v = Param(name, Shown)
  BY DEF Fill
<1>4. Param(name, Shown).under = Shown /\ Param(name, Shown).name = name
  BY DEF Param
<1>5. NothingLeaks'
  BY <1>2, <1>3, <1>4, Zenon DEF FormInv, NothingLeaks
<1>6. ValueTypes' /\ ReportIsFilled' /\ ReportSurvives'
  BY <1>1, <1>2 DEF FormInv, ValueTypes, ReportIsFilled, ReportSurvives
<1> QED
  BY <1>1, <1>5, <1>6 DEF FormInv

\* All three places of a hidden value change together.
LEMMA HiddenIsTyped ==
  ASSUME FormInv, Shown = Report, NEW v \in [HiddenKeys -> Texts],
         hidden' = v, stash' = v, typed' = v, UNCHANGED <<nav, visible>>
  PROVE  FormInv'
<1>1. v # NoHidden /\ NoHidden' = NoHidden
  BY ValuesAreSome DEF NoHidden
<1>2. Shown' = Shown /\ search' = search /\ Entry(Shown)' = Entry(Shown)
  BY ShownFollowsTheList DEF nav, Entry
<1>3. ValueTypes' /\ ReportIsFilled' /\ ReportSurvives'
  BY <1>1 DEF ValueTypes, ReportIsFilled, ReportSurvives
<1>4. NothingLeaks'
  BY <1>2 DEF FormInv, NothingLeaks
<1> QED
  BY <1>2, <1>3, <1>4 DEF FormInv

--------------------------------------------------------------------------------
(* The theorems *)

LEMMA InitIsGood == Init => IInv
<1> SUFFICES ASSUME Init PROVE IInv
  OBVIOUS
<1>1. stash \in [HiddenKeys -> Texts] /\ typed = stash /\ stash # NoHidden
  <2>1. Blank \in Texts
    BY DEF Blank, Text, Texts, Kinds
  <2>2. stash \in [HiddenKeys -> Texts] /\ typed = stash
    BY <2>1 DEF Init
  <2> QED
    BY <2>2, ValuesAreSome
<1>2. hidden = IF Shown = Report THEN stash ELSE NoHidden
  BY DEF Init
<1>3. ValueTypes /\ ReportIsFilled /\ ReportSurvives
  BY <1>1, <1>2 DEF ValueTypes, ReportIsFilled, ReportSurvives
<1>4. search \subseteq Offered /\ DashTypes
  BY DashboardStarts DEF Init, DashTypes
<1>5. NothingLeaks
  <2> SUFFICES ASSUME Shown # None
               PROVE  \A v \in visible : v.under = Shown /\ v.name \in Params(Entry(Shown))
    BY DEF NothingLeaks
  <2> DEFINE m == Entry(Shown)
  <2>1. m.id = Shown
    <3>1. \E i \in Offered : Id(i) = Shown
      BY <1>4, FilteredAreOffered, ShownIsOffered DEF Shown
    <3> QED
      BY <3>1, EntryOfId
  <2>2. visible = {Param(n, m.id) : n \in Params(m) \cap OptionParams}
    BY DEF Init, OptionFields
  <2> HIDE DEF m
  <2> QED
    BY <2>1, <2>2 DEF Param, m
<1> QED
  BY <1>3, <1>4, <1>5 DEF IInv, FormInv

LEMMA NextKeeps == IInv /\ [Next]_vars => IInv'
<1> SUFFICES ASSUME IInv, [Next]_vars PROVE IInv'
  OBVIOUS
<1>1. FormInv /\ DashTypes /\ search \subseteq Offered
  BY DEF IInv, FormInv
<1>2. ASSUME UNCHANGED <<category, search, selectedId, visible, hidden, stash, typed>>
      PROVE  FormInv'
  BY <1>1, <1>2, FormIsLeft, ShownFollowsTheList
<1>3. ASSUME dash' = dash PROVE DashTypes'
  BY <1>1, <1>3 DEF DashTypes
<1>4. ASSUME NEW cat \in Tabs, ChooseCategory(cat) PROVE IInv'
  <2>1. /\ category' = cat /\ search' = Offered /\ UNCHANGED <<selectedId, dash, typed>>
        /\ RebuildOnChange(Shown, ShownOf(selectedId, FilteredBy(cat, Offered)))
    BY <1>4 DEF ChooseCategory
  <2>2. FormInv'
    BY <1>1, <2>1, ListIsChanged
  <2> QED
    BY <1>3, <2>1, <2>2 DEF IInv
<1>5. ASSUME NEW s \in Searches, Search(s) PROVE IInv'
  <2>1. /\ search' = s /\ UNCHANGED <<category, selectedId, dash, typed>>
        /\ RebuildOnChange(Shown, ShownOf(selectedId, FilteredBy(category, s)))
    BY <1>5 DEF Search
  <2>2. s \in SUBSET Offered
    BY PageAssumption
  <2>3. FormInv'
    BY <1>1, <2>1, <2>2, ListIsChanged
  <2> QED
    BY <1>3, <2>1, <2>3 DEF IInv
<1>6. CASE NextPage \/ PreviousPage
  <2>1. UNCHANGED <<category, search, selectedId, form>>
    BY <1>6 DEF NextPage, PreviousPage
  <2> QED
    BY <1>2, <1>3, <2>1 DEF IInv, form
<1>7. ASSUME NEW i \in Offered, Select(i) PROVE IInv'
  <2>1. dash' = dash
    BY <1>7 DEF Select
  <2> QED
    BY <1>1, <1>3, <1>7, <2>1, MethodIsSelected DEF IInv
<1>8. ASSUME Shown # None, NEW n \in Params(Entry(Shown)) \ OptionParams, Fill(n) PROVE IInv'
  <2>1. dash' = dash
    BY <1>8 DEF Fill
  <2>2. FormInv'
    BY <1>1, <1>8, ParameterIsFilled
  <2> QED
    BY <1>3, <2>1, <2>2 DEF IInv
<1>9. ASSUME Shown = Report, NEW k \in DOMAIN Inputs, NEW t \in Inputs[k], FillHidden(k, t)
      PROVE  IInv'
  <2>1. k \in HiddenKeys /\ t \in Texts
    BY InputsAssumption
  <2>2. FieldText(k, t) \in Texts
    BY <2>1, FieldsKeepTexts
  <2>3. hidden = typed /\ stash = typed /\ typed \in [HiddenKeys -> Texts]
    BY <1>1, <1>9 DEF FormInv, ReportIsFilled, ReportSurvives, ValueTypes
  <2> DEFINE v == [typed EXCEPT ![k] = FieldText(k, t)]
  <2>4. v \in [HiddenKeys -> Texts]
    BY <2>1, <2>2, <2>3
  <2>5. hidden' = v /\ stash' = v /\ typed' = v /\ UNCHANGED <<nav, visible, dash>>
    BY <1>9, <2>3 DEF FillHidden, StashWith
  <2> HIDE DEF v
  <2> QED
    BY <1>1, <1>3, <1>9, <2>4, <2>5, HiddenIsTyped DEF IInv
<1>10. CASE FillMock
  <2>1. FormInv'
    BY <1>1, <1>10, MockIsTyped, HiddenIsTyped DEF FillMock
  <2>2. DashTypes'
    BY <1>10, DashboardStarts DEF FillMock, DashTypes
  <2> QED
    BY <2>1, <2>2 DEF IInv
<1>11. CASE EditDashboard
  <2>1. DashTypes'
    BY <1>1, <1>11, DashboardIsTyped
  <2>2. UNCHANGED <<nav, visible, hidden, stash, typed>>
    BY <1>11, Zenon
       DEF EditDashboard, AddCard, AddPie, RemoveCard, EditCard, RemovePie, EditPie,
           AddSlice, RemoveSlice, EditSlice, SlicesOf, Edit
  <2> QED
    BY <1>2, <2>1, <2>2 DEF IInv, nav
<1>12. ASSUME NEW base \in BOOLEAN, NEW seed \in BOOLEAN, Execute(base, seed) PROVE IInv'
  <2>1. UNCHANGED <<nav, form>>
    BY <1>12 DEF Execute
  <2> QED
    BY <1>2, <1>3, <2>1 DEF IInv, nav, form
<1>13. CASE Settle
  BY <1>2, <1>3, <1>13 DEF Settle, IInv, nav, form
<1>14. CASE UNCHANGED vars
  BY <1>2, <1>3, <1>14 DEF vars, IInv
<1> QED
  BY <1>4, <1>5, <1>6, <1>7, <1>8, <1>9, <1>10, <1>11, <1>12, <1>13, <1>14, Zenon DEF Next

\* The texts of the form are typed texts, its dashboard has typed rows, and the three
\* properties hold: everything below is read off this.
THEOREM Invariant == Spec => []IInv
BY InitIsGood, NextKeeps, PTL DEF Spec

\* What an operator typed for a report is never lost: neither by another method, tab
\* or search, nor by an effect that rebuilds the form.
THEOREM ReportIsKept == Spec => []ReportSurvives
<1>1. IInv => ReportSurvives
  BY DEF IInv, FormInv
<1> QED
  BY <1>1, Invariant, PTL

\* No value typed for one method is ever sent with another one.
THEOREM ValuesStayWithTheirMethod == Spec => []NothingLeaks
<1>1. IInv => NothingLeaks
  BY DEF IInv, FormInv
<1> QED
  BY <1>1, Invariant, PTL

\* Every request the page sends to a core meets the contract of its handler, and a
\* report it composes is one the core's second validation accepts, but for its length.
THEOREM RequestsAreAccepted == Spec => []CoreTakesRequests
<1>1. IInv => CoreTakesRequests
  <2> SUFFICES ASSUME IInv, Shown # None, Live(Entry(Shown)), Runs(Entry(Shown), TRUE, TRUE)
               PROVE  /\ MeetsContract(Shown, Has)
                      /\ Shown = Report =>
                           (DetailFits(Composed(hidden, dash)) => Accepts(Composed(hidden, dash)))
    BY DEF CoreTakesRequests
  <2> DEFINE m == Entry(Shown)
  <2>1. m \in Entries /\ m.id = Shown
    <3>1. \E i \in Offered : Id(i) = Shown
      BY FilteredAreOffered, ShownIsOffered DEF IInv, FormInv, Shown
    <3> QED
      BY <3>1, EntryOfId
  <2>2. m.required \subseteq Has /\ PairsFit(m.id) /\ (m.id = Report => ReportRuns(TRUE))
    BY DEF Runs
  <2>3. Has \subseteq Params(m)
    BY DEF IInv, FormInv, NothingLeaks, Has
  <2> HIDE DEF m
  <2>4. Live(m)
    BY DEF m
  <2>5. MeetsContract(Shown, Has)
    BY <2>1, <2>2, <2>3, <2>4, ContractsAreMet
  <2>6. ASSUME Shown = Report, DetailFits(Composed(hidden, dash))
        PROVE  Accepts(Composed(hidden, dash))
    <3>1. Composes(hidden, dash)
      BY <2>1, <2>2, <2>6 DEF ReportRuns
    <3>2. hidden \in [HiddenKeys -> Texts]
      BY <2>6 DEF IInv, FormInv, ReportIsFilled, ValueTypes
    <3>3. PICK cards \in Seq(CardRows), pies \in Seq(PieRows) : dash = [cards |-> cards, pies |-> pies]
      BY DEF IInv, DashTypes
    <3> QED
      BY <2>6, <3>1, <3>2, <3>3, ComposedIsAccepted
  <2> QED
    BY <2>5, <2>6
<1> QED
  BY <1>1, Invariant, PTL
================================================================================
