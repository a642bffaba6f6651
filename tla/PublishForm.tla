------------------------------ MODULE PublishForm ------------------------------
(***************************************************************************)
(* The form that lists a module (ModulePublishMock.tsx): what each section *)
(* lets the developer edit, what a field keeps of what is typed, and the   *)
(* icon, an object URL that lives until it is revoked.  A text is a        *)
(* sequence of characters, of which only "0" to "9" are digits.            *)
(***************************************************************************)
EXTENDS Integers, Sequences

Today == <<"2", "0", "2", "6">>    \* modulrDateVersionString, abbreviated
SampleTerms == <<"#">>             \* DEFAULT_MODULE_TOS_MARKDOWN, abbreviated
NoFile == "none"
NoIcon == 0                        \* object URLs are numbered from 1

IdentityFields == {"moduleName", "moduleSlug", "summary", "version"}
PaidFields == {"trialMinutes"}
FreeFields == {"freeCapMinutes", "freeCooldownMinutes"}
TopologyFields == {"knownRoutersText", "unknownRouterCount", "knownProvidersText",
                   "unknownProviderCount"}
CountFields == {"trialMinutes", "freeCapMinutes", "freeCooldownMinutes",
                "unknownRouterCount", "unknownProviderCount"}
Fields == IdentityFields \cup PaidFields \cup FreeFields \cup TopologyFields
            \cup {"priceNote", "termsOfService"}

MoneyModels == {"subscription", "payg", "free"}
CONTENT_RATINGS == {"E", "E10", "T", "M", "A"}
Archives == {"client", "provider", "router"}

Digits == {"0", "1", "2", "3", "4", "5", "6", "7", "8", "9"}
SlugChars == Digits \cup {"a", "b", ".", "_", "-"}

\* What a field keeps of the text that is typed into it.
Kept(field, text) ==
  CASE field \in CountFields  -> SelectSeq(text, LAMBDA c : c \in Digits)
    [] field = "moduleSlug"   -> SelectSeq(text, LAMBDA c : c \in SlugChars)
    [] OTHER                  -> text

StartText(field) ==
  CASE field = "version"        -> Today
    [] field = "termsOfService" -> SampleTerms
    [] field \in CountFields \ PaidFields -> <<"0">>
    [] OTHER                    -> <<>>

\* The form as it is mounted.
StartOfPublishing ==
  [ text |-> [f \in Fields |-> StartText(f)], contentRating |-> "E",
    moneyModel |-> "payg", tosView |-> "edit", docsOpen |-> TRUE,
    certificationRequested |-> FALSE, archives |-> [a \in Archives |-> NoFile],
    iconPreview |-> NoIcon, submitted |-> FALSE ]

\* Minutes of a trial are asked for when money is, a cap and a cooldown when it is not.
MoneyFields(p) ==
  {"priceNote"} \cup (IF p.moneyModel = "free" THEN FreeFields ELSE PaidFields)

\* The terms are a text area, or its rendering.
TermsFields(p) == IF p.tosView = "edit" THEN {"termsOfService"} ELSE {}

\* The fields that are on the page.
Offered(p) == IdentityFields \cup MoneyFields(p) \cup TopologyFields \cup TermsFields(p)

WithText(p, field, text) == [p EXCEPT !.text[field] = Kept(field, text)]
WithRating(p, rating) == [p EXCEPT !.contentRating = rating]
WithMoney(p, model) == [p EXCEPT !.moneyModel = model]
WithTosView(p, view) == [p EXCEPT !.tosView = view]
WithDocs(p) == [p EXCEPT !.docsOpen = ~ @]
WithCertification(p) == [p EXCEPT !.certificationRequested = ~ @]
WithArchive(p, role, file) == [p EXCEPT !.archives[role] = file]
WithIcon(p, url) == [p EXCEPT !.iconPreview = url]
Submitted(p) == [p EXCEPT !.submitted = TRUE]

NoIconFile == [name |-> "", type |-> ""]    \* the file dialog was left without a file

\* A file that is taken as an icon: of that name, or of that type.
IsSvg(file) == file.name = "svg" \/ file.type = "image/svg+xml"

\* Where the effects on [iconPreview] leave the live URLs: a replaced one is revoked.
Revoked(urls, p) == urls \ {p.iconPreview}
================================================================================
