------------------------------ MODULE ReportDetail ------------------------------
(***************************************************************************)
(* The detail of report_module_state: the form in which an operator types  *)
(* a dashboard, what the browser composes from it, and what the core       *)
(* accepts.  A text is told apart by what the two sides do with it.        *)
(***************************************************************************)
EXTENDS Integers, Sequences, FiniteSets, Functions

CONSTANTS MaxCards, MaxPies, MaxSlices   \* limits of the form
ASSUME LimitsAssumption == MaxCards \in 1..4 /\ MaxPies \in 0..4 /\ MaxSlices \in 1..5

Metrics == {"metric_total_users", "metric_active_users", "metric_subscribers",
            "metric_validators", "metric_providers", "metric_active_jobs"}
Shares  == {"val_pct_active", "val_pct_passive", "val_pct_offline"}
Series  == {"ha_jobs_csv", "ha_aux1_csv", "ha_aux2_csv"}
AuxLabels == {"ha_aux1_label", "ha_aux2_label"}

\* The parameters the catalogue marks hidden: their fields are below the form.
HiddenKeys == Metrics \cup Shares \cup Series \cup AuxLabels \cup {"detail_notes"}

(* Texts: digits, other words, 24 numbers separated by commas, too long ones *)
Kinds == {"blank", "digits", "word", "csv24", "long"}
Text(kind) == [kind |-> kind, n |-> 0]
Blank == Text("blank")
Num(n) == [kind |-> "digits", n |-> n]
Filled(t) == t.kind # "blank"
Texts == [kind : Kinds, n : Nat]

Card(title, value, description) ==
  [title |-> title, value |-> value, description |-> description]
Pie(name, total, slices) ==
  [metric_name |-> name, total |-> total, description |-> Blank, slices |-> slices]
Slice(label, percent) == [label |-> label, percent |-> percent]

CardRows  == [title : Texts, value : Texts, description : Texts]
SliceRows == [label : Texts, percent : Texts]
PieRows   == [metric_name : Texts, total : Texts, description : Texts, slices : Seq(SliceRows)]

emptyCard == Card(Blank, Blank, Blank)
emptySlice == Slice(Blank, Blank)
emptyPie == Pie(Blank, Blank, [i \in 1..3 |-> emptySlice])

--------------------------------------------------------------------------------
(* The browser: what a field keeps of what is typed *)

\* Digits only.
NumberText(t) == CASE t.kind = "digits" -> t [] t.kind = "csv24" -> Num(1) [] OTHER -> Blank

\* And of those the first three; a typed number has at most four.
PercentText(t) ==
  LET d == NumberText(t) IN IF d.n > 999 THEN Num(d.n \div 10) ELSE d

\* Cut off at the limit of the field.
ShortText(t) == IF t.kind = "long" THEN Text("word") ELSE t

FieldText(k, t) ==
  CASE k \in Metrics -> NumberText(t)
    [] k \in Shares -> PercentText(t)
    [] k \in AuxLabels -> ShortText(t)
    [] OTHER -> t

--------------------------------------------------------------------------------
(* The browser: what it composes *)

parseNonNegInt(t) == t.kind = "digits"
parsePct(t) == t.kind = "digits" /\ t.n <= 100
parseHealthSeries24Csv(t) == t.kind = "csv24"
parseHealthAuxLabel(t) == t.kind \in {"word", "digits"}

\* Sum of the shares of the validators' standard pie.
SharesOf(h) == h["val_pct_active"].n + h["val_pct_passive"].n + h["val_pct_offline"].n

PercentOf(slices) == FoldFunction(LAMBDA s, sum : s.percent.n + sum, 0, slices)

(* A row that is not filled in is left out.  A list of rows is told by the     *)
(* positions that are kept, whose order nothing depends on.                    *)

Size(rows) == Cardinality(DOMAIN rows)

Titled(cards) == Restrict(cards, {i \in DOMAIN cards : Filled(cards[i].title)})
Named(pies) == Restrict(pies, {i \in DOMAIN pies : Filled(pies[i].metric_name)})

\* A slice without label or percentage is left out.
SlicesIn(slices) ==
  Restrict(slices, {j \in DOMAIN slices : Filled(slices[j].label) /\ Filled(slices[j].percent)})

CardComposes(c) ==
  /\ parseNonNegInt(c.value)
  /\ Filled(c.description) /\ c.description.kind # "long"

\* buildDashboardCardsJson succeeds.
CardsCompose(cards) ==
  LET filled == Titled(cards)
  IN  /\ Size(filled) \in 1..4
      /\ \A i \in DOMAIN filled : CardComposes(filled[i])

PieComposes(p) ==
  LET slices == SlicesIn(p.slices)
  IN  /\ parseNonNegInt(p.total)
      /\ p.description.kind # "long"
      /\ Size(slices) \in 1..5
      /\ \A j \in DOMAIN slices : parsePct(slices[j].percent)
      /\ PercentOf(slices) = 100

\* buildDashboardPiesJson succeeds.
PiesCompose(pies) ==
  LET filled == Named(pies)
  IN  Size(filled) <= 4 /\ \A i \in DOMAIN filled : PieComposes(filled[i])

\* parseHealthPreviewSeries: the preview is drawn.
HealthPreviewed(h) ==
  /\ \A k \in Series : parseHealthSeries24Csv(h[k])
  /\ \A k \in AuxLabels : parseHealthAuxLabel(h[k])

\* composeReportModuleStateDetailJson succeeds.
Composes(h, dash) ==
  /\ \A k \in Metrics : parseNonNegInt(h[k])
  /\ \A k \in Shares : parsePct(h[k])
  /\ SharesOf(h) = 100
  /\ HealthPreviewed(h)
  /\ CardsCompose(dash.cards) /\ PiesCompose(dash.pies)

\* The detail it returns.
Composed(h, dash) ==
  [fields |-> h, cards |-> Titled(dash.cards),
   pies |-> LET filled == Named(dash.pies)
            IN  [i \in DOMAIN filled |->
                  Pie(filled[i].metric_name, filled[i].total, SlicesIn(filled[i].slices))]]

defaultReportModuleDashboard ==
  [cards |-> <<Card(Text("word"), Num(1), Text("word"))>>,
   pies |-> IF MaxPies = 0 THEN <<>>
            ELSE <<Pie(Text("word"), Num(45120), <<Slice(Text("word"), Num(100))>>)>>]

\* Shares 31, 27 and 42 of 100, rounded so that they sum to 100.
reportModuleStateMockFormPatch ==
  [k \in HiddenKeys |->
    CASE k \in Metrics -> Num(45120)
      [] k = "val_pct_active" -> Num(31)
      [] k = "val_pct_passive" -> Num(27)
      [] k = "val_pct_offline" -> Num(100 - 31 - 27)
      [] k \in Series -> Text("csv24")
      [] OTHER -> Text("word")]

--------------------------------------------------------------------------------
(* The core *)

NonNegInt(t) == t.kind = "digits"
PctInt(t) == t.kind = "digits" /\ t.n \in 0..100

\* At most 16384 characters in all: only the notes have no limit of their own.
DetailFits(d) == d.fields["detail_notes"].kind # "long"

AcceptsCards(cards) ==
  /\ Size(cards) \in 1..10
  /\ \A i \in DOMAIN cards :
       /\ Filled(cards[i].title)
       /\ NonNegInt(cards[i].value)
       /\ Filled(cards[i].description) /\ cards[i].description.kind # "long"

AcceptsPies(pies) ==
  /\ Size(pies) <= 4
  /\ \A i \in DOMAIN pies :
       /\ Filled(pies[i].metric_name) /\ NonNegInt(pies[i].total)
       /\ pies[i].description.kind # "long"
       /\ Size(pies[i].slices) \in 1..5
       /\ \A j \in DOMAIN pies[i].slices :
            Filled(pies[i].slices[j].label) /\ PctInt(pies[i].slices[j].percent)
       /\ PercentOf(pies[i].slices) = 100

\* _normalize_module_state_detail_json raises nothing.
Accepts(d) ==
  /\ DetailFits(d)
  /\ \A k \in Metrics : NonNegInt(d.fields[k])
  /\ \A k \in Shares : PctInt(d.fields[k])
  /\ SharesOf(d.fields) = 100
  /\ \A k \in Series : d.fields[k].kind = "csv24"
  /\ \A k \in AuxLabels : Filled(d.fields[k]) /\ d.fields[k].kind \notin {"long", "csv24"}
  /\ AcceptsCards(d.cards) /\ AcceptsPies(d.pies)
================================================================================
