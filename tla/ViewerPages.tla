------------------------------ MODULE ViewerPages ------------------------------
(***************************************************************************)
(* The pages of the two user interfaces: who is signed in (localStorage),  *)
(* the copies of it that the pages show, the registration forms, the       *)
(* publishing form, the resolver and the Inspector.  A page's state is     *)
(* lost when it is left; readers of pictures and answers to lookups come   *)
(* when they come.                                                         *)
(***************************************************************************)
EXTENDS ShellSettings, RegistrationForm, PublishForm, MockResolve, ModuleMetrics

CONSTANTS
  NameTexts, OrgTexts,    \* what is typed into the registration forms
  Bios,                   \* what is typed as a public bio
  Queries,                \* what is typed into the resolver
  Modules,                \* ids typed into the Inspector
  FieldTexts,             \* <<field, text>> pairs typed into the publishing form
  Ratings, ArchiveFiles,  \* ratings chosen, <<role, file>> pairs attached there
  IconFiles,              \* files picked as an icon
  Switches,               \* access switches of an organization that are touched
  MaxMarketDepth,         \* registrations that still raise the price (20)
  MaxLookups              \* bound on the lookups of a form under way

ASSUME PagesAssumption == {MaxMarketDepth, MaxLookups} \subseteq Nat \ {0}

ASSUME TextsAssumption ==
  /\ NameTexts \subseteq [name : STRING, graphemes : Nat, loose : BOOLEAN]
  /\ OrgTexts \subseteq [labels : Seq(STRING), chars : Nat, loose : BOOLEAN]

VARIABLES
  app,        \* "viewer", or "frontend": the one with a Registration page
  who,        \* localStorage: handle, org key, session, picture and bio
  session,    \* what useShellSignedIn returns
  photos,     \* pictures a FileReader of the profile page is reading
  page,       \* the page shown, with its state
  urls        \* object URLs that have not been revoked

pageVars == <<app, who, session, photos, page, urls>>
vars == <<shellVars, pageVars>>

NoBio == ""
BlankBio == " "
BIO_SAMPLE == "sample"

Identity(handle, org, signedIn, avatar, bio) ==
  [handle |-> handle, org |-> org, signedIn |-> signedIn, avatar |-> avatar, bio |-> bio]

Nobody == Identity(NoName, NoOrg, FALSE, NoPicture, NoBio)

--------------------------------------------------------------------------------
(* The pages as they are mounted *)

HomePage == [route |-> "home", explore |-> 1]
OtherPage == [route |-> "other"]
ResolvePage == [route |-> "resolve", query |-> EmptyQuery, debounced |-> EmptyQuery]
InspectorPage == [route |-> "inspector", module |-> DEFAULT_MODULE_ID, count |-> CountMounted]
PublishPage == [route |-> "publish", form |-> StartOfPublishing]

RegistrationPage ==
  [ route |-> "registration", name |-> Mounted("name"), org |-> Mounted("org"),
    nameNote |-> FALSE, orgNote |-> FALSE, depth |-> 0, learnMore |-> FALSE ]

OrganizationsPage(w) ==
  [ route |-> "organizations", handle |-> w.handle, key |-> w.org, org |-> Mounted("org"),
    note |-> FALSE, depth |-> 0, learnMore |-> FALSE, switches |-> [s \in Switches |-> TRUE] ]

\* ProfileHandleClaim and ProfileHeroEdit: <<>> while they are not mounted.
Claim(w) == <<[stored |-> w.handle, name |-> Mounted("name")]>>
Hero(w) == <<[bio |-> w.bio, draft |-> w.bio, editing |-> FALSE]>>

ProfileWith(w, claim, hero) ==
  [route |-> "profile", handle |-> w.handle, avatar |-> w.avatar, claim |-> claim, hero |-> hero]

\* The claim is mounted in a session, the card with picture and bio when there is a handle too.
ProfilePage(w) ==
  ProfileWith(w, IF w.signedIn THEN Claim(w) ELSE <<>>,
              IF w.signedIn /\ w.handle # NoName THEN Hero(w) ELSE <<>>)

PageAt(route, w) ==
  CASE route = "home"          -> HomePage
    [] route = "profile"       -> ProfilePage(w)
    [] route = "organizations" -> OrganizationsPage(w)
    [] route = "publish"       -> PublishPage
    [] route = "resolve"       -> ResolvePage
    [] route = "inspector"     -> InspectorPage
    [] route = "registration"  -> RegistrationPage
    [] OTHER                   -> OtherPage

\* Addresses with state; the viewer sends /registration on to /organizations.
RoutesOf(a) ==
  IF a = "viewer" THEN {"home", "profile", "organizations", "publish", "resolve", "inspector",
                          "other"}
  ELSE {"registration", "resolve", "other"}

--------------------------------------------------------------------------------
(* notifyMockIdentityChanged: every mounted view reads the stored identity again *)

\* The card takes the stored bio, and into the draft when nobody is editing it.
HeroSynced(hero, w) ==
  [ bio |-> w.bio, draft |-> IF hero.editing THEN hero.draft ELSE w.bio,
    editing |-> hero.editing ]

\* The claim form does not listen: its own copy of the handle is the one it read.
ProfileSynced(p, w) ==
  LET fresh == ProfilePage(w)
  IN  ProfileWith(w, IF fresh.claim = <<>> \/ p.claim = <<>> THEN fresh.claim ELSE p.claim,
                  IF fresh.hero = <<>> \/ p.hero = <<>> THEN fresh.hero
                  ELSE <<HeroSynced(p.hero[1], w)>>)

\* Variant: the listener only takes the handle.
OrganizationsHandleSynced(p, w) == [p EXCEPT !.handle = w.handle]

OrganizationsSynced(p, w) == [p EXCEPT !.handle = w.handle, !.key = w.org]

Synced(p, w) ==
  CASE p.route = "profile"       -> ProfileSynced(p, w)
    [] p.route = "organizations" -> OrganizationsSynced(p, w)
    [] OTHER                     -> p

\* Storage takes the change or refuses it (quota); the views are told in either case.
Stored(w, p) ==
  \E kept \in {w, who} :
    /\ who' = kept
    /\ session' = kept.signedIn
    /\ page' = Synced(p, kept)

--------------------------------------------------------------------------------
PagesInit ==
  /\ app \in {"viewer", "frontend"}
  /\ who = Nobody /\ session = FALSE
  /\ photos = {} /\ urls = {}
  /\ \E route \in RoutesOf(app) : page = PageAt(route, who)

Init == ShellInit /\ PagesInit

\* Variant: nothing is revoked when the form is left.
LeftAsIs == urls

\* Leaving a page: the publishing form revokes the URL of its icon.
Left == IF page.route = "publish" THEN Revoked(urls, page.form) ELSE urls

Shows(route) == page' = PageAt(route, who) /\ urls' = Left

\* The header's links, of which two take the place of "Sign in" in a session.
HeaderLinks ==
  RoutesOf(app) \ (IF session THEN {} ELSE {"profile", "organizations"})

\* Inspector, Profile, Organizations, Resolve, Publish, Methods.
SHELL_RECOMMENDED_NEXT ==
  <<"inspector", "profile", "organizations", "resolve", "publish", "other">>

\* "Recommended next" on the home page, for everybody.
RecommendedLinks == IF page.route = "home" THEN ToSet(SHELL_RECOMMENDED_NEXT) ELSE {}

\* "Claim a handle first" on the organizations page.
ClaimLinks ==
  IF page.route = "organizations" /\ session /\ page.handle = NoName THEN {"profile"} ELSE {}

Go(route) ==
  /\ route \in HeaderLinks \cup RecommendedLinks \cup ClaimLinks
  /\ route # page.route
  /\ Shows(route)
  /\ UNCHANGED <<shellVars, app, who, session, photos>>

\* The profile link of the settings closes the dialog.
SettingsLink ==
  /\ app = "viewer" /\ InTab("general") /\ page.route # "profile"
  /\ panel' = Shown("none")
  /\ Shows("profile")
  /\ UNCHANGED <<settings, saved, written, reads, app, who, session, photos>>

\* The document is loaded again, at any address: storage is all that is left.
Reload(route) ==
  /\ route \in RoutesOf(app)
  /\ LoadShell
  /\ session' = who.signedIn
  /\ page' = PageAt(route, who)
  /\ photos' = {} /\ urls' = {}
  /\ UNCHANGED <<app, who>>

NETWORK_MODULES ==
  <<"code", "office", "gig", "social", "assets", "storage", "os", "ads", "ai", "gaming">>

EXPLORE_MODULES_PAGE_SIZE == 6

\* "Previous" and "Next" under the list of modules, where there are such pages.
Explore(to) ==
  /\ page.route = "home" /\ to \in {page.explore - 1, page.explore + 1}
  /\ to >= 1 /\ (to - 1) * EXPLORE_MODULES_PAGE_SIZE < Len(NETWORK_MODULES)
  /\ page' = [page EXCEPT !.explore = to]
  /\ UNCHANGED <<shellVars, app, who, session, photos, urls>>

--------------------------------------------------------------------------------
(* Signing in, on the home page or where a page asks for a session *)

SignIn ==
  /\ app = "viewer"
  /\ \/ page.route = "home"
     \/ ~ session /\ page.route \in {"profile", "organizations", "publish"}
  /\ Stored(Identity(who.handle, who.org, TRUE, who.avatar, who.bio), page)
  /\ UNCHANGED <<shellVars, app, photos, urls>>

\* What changes only the page.
OnPage(p) == page' = p /\ UNCHANGED <<shellVars, app, who, session, photos, urls>>

--------------------------------------------------------------------------------
(* The registration forms *)

\* One event of a form: typing, the pause after it, an answer.
FormEvents(kind, f, texts) ==
  {Typed(kind, f, text) : text \in texts}
    \cup (IF TimerRuns(f) THEN {Debounced(kind, f)} ELSE {})
    \cup {Answered(kind, f, l) : l \in f.lookups}

Bounded(forms) == {f \in forms : Cardinality(f.lookups) <= MaxLookups}

\* On the profile page: the claim is shown until it knows of a handle.
ClaimEvent ==
  /\ page.route = "profile" /\ page.claim # <<>>
  /\ page.claim[1].stored = NoName
  /\ \E f \in Bounded(FormEvents("name", page.claim[1].name, NameTexts)) :
       OnPage([page EXCEPT !.claim = <<[stored |-> NoName, name |-> f]>>])

ClaimHandle ==
  /\ page.route = "profile" /\ page.claim # <<>>
  /\ page.claim[1].stored = NoName /\ CanSubmit("name", page.claim[1].name)
  /\ \E kept \in {who, Identity(Key(page.claim[1].name), who.org, who.signedIn, who.avatar, who.bio)} :
       /\ who' = kept
       /\ session' = kept.signedIn
       /\ page' = ProfileSynced([page EXCEPT !.claim[1].stored = kept.handle], kept)
  /\ UNCHANGED <<shellVars, app, photos, urls>>

HasHandle == page.route = "organizations" /\ session /\ page.handle # NoName

\* The lookups of the organizations page go on when its form is not shown.
OrgEvent ==
  /\ page.route = "organizations"
  /\ \E f \in Bounded(FormEvents("org", page.org, IF HasHandle THEN OrgTexts ELSE {})) :
       OnPage([page EXCEPT !.org = f, !.note = @ /\ f.text = page.org.text])

Deeper(depth) == IF depth < MaxMarketDepth THEN depth + 1 ELSE depth

RegisterOrg ==
  /\ HasHandle /\ CanSubmit("org", page.org)
  /\ LET key == Key(page.org)
     IN  Stored(Identity(who.handle, key, who.signedIn, who.avatar, who.bio),
                [page EXCEPT !.key = key, !.note = TRUE, !.depth = Deeper(@)])
  /\ UNCHANGED <<shellVars, app, photos, urls>>

RefreshIdentity ==
  /\ HasHandle
  /\ OnPage(OrganizationsSynced(page, who))

ToggleSwitch(s) ==
  /\ HasHandle /\ page.key # NoOrg
  /\ OnPage([page EXCEPT !.switches[s] = ~ @])

\* "Learn more" of the organizations and of the registration page.
LearnMore ==
  /\ \/ page.route = "organizations" /\ session
     \/ page.route = "registration"
  /\ OnPage([page EXCEPT !.learnMore = ~ @])

\* The Registration page of the other interface: both forms, nothing stored.
NameEvent ==
  /\ page.route = "registration"
  /\ \E f \in Bounded(FormEvents("name", page.name, NameTexts)) :
       OnPage([page EXCEPT !.name = f, !.nameNote = @ /\ f.text = page.name.text])

OrgKeyEvent ==
  /\ page.route = "registration"
  /\ \E f \in Bounded(FormEvents("org", page.org, OrgTexts)) :
       OnPage([page EXCEPT !.org = f, !.orgNote = @ /\ f.text = page.org.text])

SubmitName ==
  /\ page.route = "registration" /\ CanSubmit("name", page.name)
  /\ OnPage([page EXCEPT !.nameNote = TRUE])

SubmitOrg ==
  /\ page.route = "registration" /\ CanSubmit("org", page.org)
  /\ OnPage([page EXCEPT !.orgNote = TRUE, !.depth = Deeper(@)])

--------------------------------------------------------------------------------
(* The card of the profile page: picture and bio *)

OnCard == page.route = "profile" /\ page.hero # <<>>

PickPhoto(p) ==
  /\ OnCard /\ StartsReading(p)
  /\ photos' = photos \cup {p}
  /\ UNCHANGED <<shellVars, app, who, session, page, urls>>

\* The reader finishes on whatever page, with or without a session.
PhotoRead(p) ==
  /\ p \in photos
  /\ photos' = photos \ {p}
  /\ IF IsTaken(p)
     THEN Stored(Identity(who.handle, who.org, who.signedIn, p, who.bio), page)
     ELSE UNCHANGED <<who, session, page>>
  /\ UNCHANGED <<shellVars, app, urls>>

ResetPhoto ==
  /\ OnCard /\ page.avatar # NoPicture
  /\ Stored(Identity(who.handle, who.org, who.signedIn, NoPicture, who.bio), page)
  /\ UNCHANGED <<shellVars, app, photos, urls>>

WithHero(bio, draft, editing) ==
  [page EXCEPT !.hero = <<[bio |-> bio, draft |-> draft, editing |-> editing]>>]

\* "Edit bio" starts from the saved one, "Add" from a sample.
StartBio ==
  /\ OnCard /\ ~ page.hero[1].editing
  /\ LET bio == page.hero[1].bio
     IN  OnPage(WithHero(bio, IF bio = NoBio THEN BIO_SAMPLE ELSE bio, TRUE))

TypeBio(text) ==
  /\ OnCard /\ page.hero[1].editing
  /\ OnPage(WithHero(page.hero[1].bio, text, TRUE))

CancelBio ==
  /\ OnCard /\ page.hero[1].editing
  /\ OnPage(WithHero(page.hero[1].bio, page.hero[1].bio, FALSE))

Trimmed(text) == IF text = BlankBio THEN NoBio ELSE text

\* The listener still believes the bio is being edited: the draft is not synced.
SaveBio ==
  /\ OnCard /\ page.hero[1].editing
  /\ LET bio == Trimmed(page.hero[1].draft)
     IN  \E kept \in {who, Identity(who.handle, who.org, who.signedIn, who.avatar, bio)} :
           /\ who' = kept
           /\ page' = ProfileWith(kept, page.claim,
                         <<[bio |-> kept.bio, draft |-> page.hero[1].draft, editing |-> FALSE]>>)
  /\ UNCHANGED <<shellVars, app, session, photos, urls>>

\* "Clear mock identity": removals are never refused; the pages are told.
ClearIdentity ==
  /\ OnCard
  /\ who' = Nobody
  /\ session' = FALSE
  /\ page' = Synced(page, Nobody)
  /\ UNCHANGED <<shellVars, app, photos, urls>>

--------------------------------------------------------------------------------
(* The resolver *)

TypeQuery(q) ==
  /\ page.route = "resolve"
  /\ OnPage([page EXCEPT !.query = q])

ResolvePause ==
  /\ page.route = "resolve" /\ page.debounced # page.query
  /\ OnPage([page EXCEPT !.debounced = page.query])

\* What is shown under the field: "pending", or the kind of the answer.
ResolveShown(p) ==
  IF p.query # EmptyQuery /\ p.query # p.debounced THEN "pending"
  ELSE ResolvedKind(p.debounced)

--------------------------------------------------------------------------------
(* The Inspector: a module id, and figures that run to those of the module *)

\* One of the cards; the others run alike.
Figure(m) == getMockMetrics(m).validators

\* Typing another id starts the run over when the figure is another.
InspectModule(m) ==
  /\ page.route = "inspector"
  /\ OnPage([page EXCEPT !.module = m,
               !.count = IF Figure(m) = Figure(page.module) THEN @
                         ELSE CountRestarted(@, Figure(m))])

AnimationFrame ==
  /\ page.route = "inspector" /\ page.count.running
  /\ \E c \in Frames(page.count, Figure(page.module)) : OnPage([page EXCEPT !.count = c])

--------------------------------------------------------------------------------
(* The publishing form: its sections *)

OnForm == page.route = "publish" /\ session

\* What changes only the form.
FormShown(form) == OnForm /\ OnPage([page EXCEPT !.form = form])

\* A field of one of these that is on the page.
EditField(fields) ==
  \E edit \in FieldTexts :
    /\ OnForm /\ edit[1] \in fields \cap Offered(page.form)
    /\ FormShown(WithText(page.form, edit[1], edit[2]))

EditIdentity == EditField(IdentityFields)
EditMoney == EditField({"priceNote"} \cup PaidFields \cup FreeFields)
EditTopology == EditField(TopologyFields)
EditTerms == EditField({"termsOfService"})

ChooseRating == \E r \in Ratings : FormShown(WithRating(page.form, r))
ChooseMoney == \E m \in MoneyModels : FormShown(WithMoney(page.form, m))
ChooseTosView == \E v \in {"edit", "preview"} : FormShown(WithTosView(page.form, v))
AttachArchive == \E a \in ArchiveFiles : FormShown(WithArchive(page.form, a[1], a[2]))
RequestCertification == FormShown(WithCertification(page.form))
ToggleDocs == FormShown(WithDocs(page.form))
Submit == FormShown(Submitted(page.form))

\* A URL no preview has: the two numbers alternate.
FreshUrl(form) == IF form.iconPreview = 1 THEN 2 ELSE 1

\* The previous URL is revoked, by the handler and by the effect that follows it.
ChooseIcon(file) ==
  /\ OnForm
  /\ LET url == IF file # NoIconFile /\ IsSvg(file) THEN FreshUrl(page.form) ELSE NoIcon
     IN  /\ urls' = Revoked(urls, page.form) \cup ({url} \ {NoIcon})
         /\ page' = [page EXCEPT !.form = WithIcon(@, url)]
  /\ UNCHANGED <<shellVars, app, who, session, photos>>

--------------------------------------------------------------------------------
Visit ==
  \/ \E route \in RoutesOf(app) : Go(route) \/ Reload(route)
  \/ SettingsLink
  \/ \E to \in DOMAIN NETWORK_MODULES : Explore(to)
  \/ SignIn \/ LearnMore

Register ==
  \/ ClaimEvent \/ ClaimHandle
  \/ OrgEvent \/ RegisterOrg \/ RefreshIdentity \/ \E s \in Switches : ToggleSwitch(s)
  \/ NameEvent \/ OrgKeyEvent \/ SubmitName \/ SubmitOrg

EditProfile ==
  \/ \E p \in Pictures : PickPhoto(p) \/ PhotoRead(p)
  \/ ResetPhoto \/ ClearIdentity
  \/ StartBio \/ CancelBio \/ SaveBio \/ \E text \in Bios : TypeBio(text)

Ask ==
  \/ ResolvePause \/ \E q \in Queries : TypeQuery(q)
  \/ AnimationFrame \/ \E m \in Modules : InspectModule(m)

Publish ==
  \/ EditIdentity \/ EditMoney \/ EditTopology \/ EditTerms
  \/ ChooseRating \/ ChooseMoney \/ ChooseTosView \/ AttachArchive
  \/ RequestCertification \/ ToggleDocs \/ Submit
  \/ \E file \in IconFiles : ChooseIcon(file)

Next ==
  \/ ShellNext /\ UNCHANGED pageVars
  \/ Visit \/ Register \/ EditProfile \/ Ask \/ Publish

Spec == Init /\ [][Next]_vars

--------------------------------------------------------------------------------
(* Properties *)

\* The forms that the page keeps.
NameForms ==
  CASE page.route = "profile"      -> {c.name : c \in ToSet(page.claim)}
    [] page.route = "registration" -> {page.name}
    [] OTHER                       -> {}

OrgForms == IF page.route \in {"organizations", "registration"} THEN {page.org} ELSE {}

\* A page that shows the identity shows the stored one: no refused write, late
\* picture or other page's change leaves a copy behind (the views of the profile
\* and organizations pages, and the session the header goes by).
ViewsAreCurrent ==
  /\ session = who.signedIn
  /\ page.route = "organizations" => page.handle = who.handle /\ page.key = who.org
  /\ page.route = "profile" =>
       /\ page.handle = who.handle /\ page.avatar = who.avatar
       /\ \A c \in ToSet(page.claim) : c.stored = who.handle
       /\ \A h \in ToSet(page.hero) : h.bio = who.bio

\* "Available", "taken", the resolver's answer and the Inspector's figures, once
\* they stand still, are about what is in the field now, whatever answers, frames
\* or pauses are on their way for what was in it before; the resolver keeps its
\* last answer for an emptied field until the pause is over.
AnswersBelongToQuestion ==
  /\ \A f \in NameForms : FormIsHonest("name", f)
  /\ \A f \in OrgForms : FormIsHonest("org", f)
  /\ page.route = "resolve" =>
       \/ ResolveShown(page) \in {"pending", ResolvedKind(page.query)}
       \/ page.query = EmptyQuery /\ page.debounced # page.query
  /\ page.route = "inspector" =>
       page.count.running \/ page.count.display = Figure(page.module)

\* Nothing outlives what it belongs to: an object URL its preview, a handle, bio
\* and organization key the session they were made in, a key its handle.  (The
\* picture is excepted: one still being read is stored after a clear.)
NothingLeftBehind ==
  /\ urls = IF page.route = "publish" THEN {page.form.iconPreview} \ {NoIcon} ELSE {}
  /\ ~ who.signedIn => who.handle = NoName /\ who.org = NoOrg /\ who.bio = NoBio
  /\ who.handle = NoName => who.org = NoOrg

\* Loading the page again brings back the settings that were shown, when no write
\* was refused: everything the dialog accepts survives normalizeSettings, but for
\* the endpoints, which are filled in and migrated.
ReloadKeepsSettings ==
  [][(\E route \in RoutesOf(app) : Reload(route)) /\ written =>
       settings' = [settings EXCEPT !.coreEndpoints = migrateCoreEndpoints(UsableEndpoints(@))]]_vars
================================================================================
