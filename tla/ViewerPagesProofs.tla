--------------------------- MODULE ViewerPagesProofs ---------------------------
(***************************************************************************)
(* Proofs about the pages of the user interfaces.  The invariant is a      *)
(* property of one page and of the stored identity, so that mounting a     *)
(* page, telling it of a change and each event on it can be looked at by   *)
(* themselves.  The settings, which no page changes, follow at the end.    *)
(***************************************************************************)
EXTENDS ViewerPages, WellFoundedInduction, TLAPS

--------------------------------------------------------------------------------
(* A registration form *)

TextsOf(kind) == IF kind = "name" THEN NameTexts \cup {NoName} ELSE OrgTexts \cup {NoOrg}

\* A lookup that was not cancelled is about the valid key in the field.
LiveIsCurrent(kind, f) ==
  \A l \in f.lookups :
    l.live => IsValid(kind, f.text) /\ l.key = Key(f) /\ f.debounced = Key(f)

FormInv(kind, f) ==
  f.text \in TextsOf(kind) /\ FormIsHonest(kind, f) /\ LiveIsCurrent(kind, f)

FormKinds == {"name", "org"}

\* Validity does not depend on how loosely a text was typed.
LEMMA KeyDecides ==
  ASSUME NEW kind \in FormKinds, NEW s \in TextsOf(kind), NEW t \in TextsOf(kind),
         Normalized(s) = Normalized(t)
  PROVE  IsValid(kind, s) <=> IsValid(kind, t)
<1>1. CASE kind = "name"
  <2>1. \A u \in TextsOf(kind) : u.graphemes = Normalized(u).graphemes
    BY <1>1, TextsAssumption DEF TextsOf, Normalized, NoName, NameText
  <2> QED
    BY <1>1, <2>1 DEF IsValid, NameIsValid
<1>2. CASE kind = "org"
  <2>1. \A u \in TextsOf(kind) : u.labels = Normalized(u).labels /\ u.chars = Normalized(u).chars
    BY <1>2, TextsAssumption DEF TextsOf, Normalized, NoOrg, OrgText
  <2> QED
    BY <1>2, <2>1 DEF IsValid, OrgIsValid
<1> QED
  BY <1>1, <1>2 DEF FormKinds

LEMMA MountedForm ==
  ASSUME NEW kind \in FormKinds
  PROVE  FormInv(kind, Mounted(kind))
<1>1. Blank(kind) \in TextsOf(kind) /\ ~ IsValid(kind, Blank(kind))
  <2>1. NoName.graphemes = 0 /\ NoOrg.labels = <<>>
    BY DEF NoName, NameText, NoOrg, OrgText
  <2> QED
    BY <2>1 DEF FormKinds, Blank, TextsOf, IsValid, NameIsValid, OrgIsValid
<1> DEFINE f == Mounted(kind)
<1>2. f.text = Blank(kind) /\ f.status = "idle_invalid" /\ f.lookups = {}
  BY DEF Mounted, Form
<1> HIDE DEF f
<1>3. FormIsHonest(kind, f) /\ LiveIsCurrent(kind, f)
  BY <1>1, <1>2 DEF FormIsHonest, LiveIsCurrent
<1> QED
  BY <1>1, <1>2, <1>3 DEF FormInv, f

\* The effect leaves a form that says what it knows, whatever it said before.
LEMMA EffectIsHonest ==
  ASSUME NEW kind \in FormKinds, NEW f, f.text \in TextsOf(kind)
  PROVE  FormInv(kind, Effect(kind, f))
<1> DEFINE g == Effect(kind, f)
<1>1. \A l \in Cancelled(f) : l.live = FALSE
  BY DEF Cancelled, Lookup
<1>2. CASE ~ IsValid(kind, f.text)
  <2>1. g = Form(f.text, f.debounced, "idle_invalid", Cancelled(f))
    BY <1>2 DEF Effect
  <2> QED
    BY <1>1, <1>2, <2>1 DEF Form, FormInv, FormIsHonest, LiveIsCurrent
<1>3. CASE IsValid(kind, f.text) /\ Key(f) # f.debounced
  <2>1. g = Form(f.text, f.debounced, "pending", Cancelled(f))
    BY <1>3 DEF Effect
  <2> QED
    BY <1>1, <1>3, <2>1 DEF Form, FormInv, FormIsHonest, LiveIsCurrent, TimerRuns, Key
<1>4. CASE IsValid(kind, f.text) /\ Key(f) = f.debounced
  <2>1. g = Form(f.text, f.debounced, "checking", Cancelled(f) \cup {Lookup(Key(f), TRUE)})
    BY <1>4 DEF Effect
  <2>2. g.text = f.text /\ g.debounced = Key(f) /\ Key(g) = Key(f) /\ g.status = "checking"
        /\ g.lookups = Cancelled(f) \cup {Lookup(Key(f), TRUE)}
    BY <1>4, <2>1 DEF Form, Key
  <2>3. Lookup(Key(f), TRUE).key = Key(f)
    BY DEF Lookup
  <2> HIDE DEF g
  <2>4. FormIsHonest(kind, g)
    BY <2>2 DEF FormIsHonest
  <2>5. LiveIsCurrent(kind, g)
    BY <1>1, <1>4, <2>2, <2>3 DEF LiveIsCurrent
  <2> QED
    BY <2>2, <2>4, <2>5 DEF FormInv, g
<1> QED
  BY <1>2, <1>3, <1>4

\* Typing, a pause that is over and an answer that comes, in any order.
LEMMA FormStep ==
  ASSUME NEW kind \in FormKinds, NEW texts \in SUBSET TextsOf(kind), NEW f, FormInv(kind, f),
         NEW g \in FormEvents(kind, f, texts)
  PROVE  FormInv(kind, g)
<1>1. ASSUME NEW text \in texts, g = Typed(kind, f, text) PROVE FormInv(kind, g)
  <2> DEFINE h == Form(text, f.debounced, f.status, f.lookups)
  <2>1. h.text = text /\ h.debounced = f.debounced /\ h.status = f.status /\ h.lookups = f.lookups
    BY DEF Form
  <2> HIDE DEF h
  <2>2. CASE Key(h) = Key(f)
    <3>1. IsValid(kind, text) <=> IsValid(kind, f.text)
      BY <2>1, <2>2, KeyDecides DEF Key, FormInv
    <3>2. g = h
      BY <1>1, <2>2 DEF Typed, h
    <3>3. FormIsHonest(kind, h)
      BY <2>1, <2>2, <3>1 DEF FormInv, FormIsHonest, TimerRuns
    <3>4. LiveIsCurrent(kind, h)
      BY <2>1, <2>2, <3>1 DEF FormInv, LiveIsCurrent
    <3> QED
      BY <2>1, <3>2, <3>3, <3>4 DEF FormInv
  <2>3. CASE Key(h) # Key(f)
    BY <1>1, <2>1, <2>3, EffectIsHonest DEF Typed, h
  <2> QED
    BY <2>2, <2>3
<1>2. CASE g = Debounced(kind, f)
  <2> DEFINE h == Form(f.text, Key(f), f.status, f.lookups)
  <2>1. h.text \in TextsOf(kind)
    BY DEF Form, FormInv
  <2> QED
    BY <1>2, <2>1, EffectIsHonest DEF Debounced
<1>3. ASSUME NEW l \in f.lookups, g = Answered(kind, f, l) PROVE FormInv(kind, g)
  <2> DEFINE status == IF IsAwaited(f, l) THEN Answer(kind, l.key) ELSE f.status
  <2>1. g.text = f.text /\ g.debounced = f.debounced /\ g.status = status
        /\ g.lookups = f.lookups \ {l} /\ Key(g) = Key(f)
    BY <1>3 DEF Answered, Form, Key
  <2>2. LiveIsCurrent(kind, g)
    BY <2>1 DEF FormInv, LiveIsCurrent
  <2>3. CASE IsAwaited(f, l)
    <3>1. l.key = Key(f) /\ IsValid(kind, f.text)
      BY <2>3 DEF IsAwaited, FormInv, LiveIsCurrent
    <3>2. Answer(kind, l.key) \in {"taken", "available"}
      BY DEF Answer
    <3> QED
      BY <2>1, <2>2, <2>3, <3>1, <3>2 DEF FormInv, FormIsHonest
  <2>4. CASE ~ IsAwaited(f, l)
    <3>1. f.status = "checking" => l # Lookup(Key(f), TRUE)
      <4>1. Lookup(Key(f), TRUE).live /\ Lookup(Key(f), TRUE).key = Key(f)
        BY DEF Lookup
      <4> QED
        BY <2>4, <4>1 DEF IsAwaited, FormInv, LiveIsCurrent
    <3> HIDE DEF status
    <3>2. status = f.status
      BY <2>4 DEF status
    <3> QED
      BY <2>1, <2>2, <3>1, <3>2 DEF FormInv, FormIsHonest, TimerRuns
  <2> QED
    BY <2>3, <2>4
<1> QED
  BY <1>1, <1>2, <1>3 DEF FormEvents

--------------------------------------------------------------------------------
(* A page, and the identity it was told of *)

\* The claim is mounted in a session and knows the handle; the card when there is one.
ProfileInv(p, w) ==
  /\ p.handle = w.handle /\ p.avatar = w.avatar
  /\ IF w.signedIn THEN /\ p.claim = <<[stored |-> w.handle, name |-> p.claim[1].name]>>
                        /\ FormInv("name", p.claim[1].name)
     ELSE p.claim = <<>>
  /\ IF w.signedIn /\ w.handle # NoName
     THEN p.hero = <<[bio |-> w.bio, draft |-> p.hero[1].draft, editing |-> p.hero[1].editing]>>
     ELSE p.hero = <<>>

\* A page has the fields it was mounted with.
PageInv(p, w) ==
  /\ DOMAIN p = DOMAIN PageAt(p.route, w)
  /\ p.route = "profile" => ProfileInv(p, w)
  /\ p.route = "organizations" =>
       p.handle = w.handle /\ p.key = w.org /\ FormInv("org", p.org)
  /\ p.route = "registration" => FormInv("name", p.name) /\ FormInv("org", p.org)
  /\ p.route = "inspector" => p.count.running \/ p.count.display = Figure(p.module)
  /\ p.route = "publish" => DOMAIN p.form = DOMAIN StartOfPublishing

\* What a stored identity holds.
WhoInv(w) ==
  /\ w.signedIn \in BOOLEAN
  /\ ~ w.signedIn => w.handle = NoName /\ w.org = NoOrg /\ w.bio = NoBio
  /\ w.handle = NoName => w.org = NoOrg

\* The only object URL is that of the icon.
UrlsOf(p) == IF p.route = "publish" THEN {p.form.iconPreview} \ {NoIcon} ELSE {}

IInv == session = who.signedIn /\ WhoInv(who) /\ PageInv(page, who) /\ urls = UrlsOf(page)

Routes == {"home", "profile", "organizations", "publish", "resolve", "inspector",
           "registration"}

\* The fields of each page.
LEMMA PageFields ==
  ASSUME NEW w
  PROVE  /\ DOMAIN PageAt("home", w) = {"route", "explore"}
         /\ DOMAIN PageAt("profile", w) = {"route", "handle", "avatar", "claim", "hero"}
         /\ DOMAIN PageAt("organizations", w) =
              {"route", "handle", "key", "org", "note", "depth", "learnMore", "switches"}
         /\ DOMAIN PageAt("publish", w) = {"route", "form"}
         /\ DOMAIN PageAt("resolve", w) = {"route", "query", "debounced"}
         /\ DOMAIN PageAt("inspector", w) = {"route", "module", "count"}
         /\ DOMAIN PageAt("registration", w) =
              {"route", "name", "org", "nameNote", "orgNote", "depth", "learnMore"}
         /\ \A r : r \notin Routes => DOMAIN PageAt(r, w) = {"route"}
<1>1. DOMAIN PageAt("home", w) = {"route", "explore"}
  BY DEF PageAt, HomePage
<1>2. DOMAIN PageAt("profile", w) = {"route", "handle", "avatar", "claim", "hero"}
  BY DEF PageAt, ProfilePage, ProfileWith
<1>3. DOMAIN PageAt("organizations", w) =
        {"route", "handle", "key", "org", "note", "depth", "learnMore", "switches"}
  BY DEF PageAt, OrganizationsPage
<1>4. DOMAIN PageAt("publish", w) = {"route", "form"}
  BY DEF PageAt, PublishPage
<1>5. DOMAIN PageAt("resolve", w) = {"route", "query", "debounced"}
  BY DEF PageAt, ResolvePage
<1>6. DOMAIN PageAt("inspector", w) = {"route", "module", "count"}
  BY DEF PageAt, InspectorPage
<1>7. DOMAIN PageAt("registration", w) =
        {"route", "name", "org", "nameNote", "orgNote", "depth", "learnMore"}
  BY DEF PageAt, RegistrationPage
<1>8. ASSUME NEW r, r \notin Routes PROVE DOMAIN PageAt(r, w) = {"route"}
  BY <1>8 DEF PageAt, Routes, OtherPage
<1> QED
  BY <1>1, <1>2, <1>3, <1>4, <1>5, <1>6, <1>7, <1>8

\* Every page starts with what is stored, and a form or figure that says nothing yet.
LEMMA PageIsMounted ==
  ASSUME NEW r, NEW w, WhoInv(w)
  PROVE  PageInv(PageAt(r, w), w) /\ UrlsOf(PageAt(r, w)) = {}
<1> DEFINE p == PageAt(r, w)
<1>1. FormInv("name", Mounted("name")) /\ FormInv("org", Mounted("org"))
  BY MountedForm DEF FormKinds
<1>2. CASE r = "home"
  BY <1>2 DEF PageAt, HomePage, PageInv, UrlsOf
<1>3. CASE r = "profile"
  <2>1. p = ProfilePage(w) /\ p.route = "profile"
    BY <1>3 DEF PageAt, ProfilePage, ProfileWith
  <2>2. ProfileInv(p, w)
    <3>1. /\ p.handle = w.handle /\ p.avatar = w.avatar
          /\ p.claim = (IF w.signedIn THEN Claim(w) ELSE <<>>)
          /\ p.hero = (IF w.signedIn /\ w.handle # NoName THEN Hero(w) ELSE <<>>)
      BY <2>1 DEF ProfilePage, ProfileWith
    <3>2. Claim(w) = <<[stored |-> w.handle, name |-> Claim(w)[1].name]>>
          /\ Claim(w)[1].name = Mounted("name")
      BY DEF Claim
    <3>3. Hero(w) = <<[bio |-> w.bio, draft |-> Hero(w)[1].draft, editing |-> Hero(w)[1].editing]>>
      BY DEF Hero
    <3> HIDE DEF p
    <3> QED
      BY <1>1, <3>1, <3>2, <3>3 DEF ProfileInv
  <2>3. DOMAIN p = DOMAIN PageAt(p.route, w)
    BY <1>3, <2>1
  <2> HIDE DEF p
  <2> QED
    BY <2>1, <2>2, <2>3 DEF PageInv, UrlsOf, p
<1>4. CASE r = "organizations"
  <2>1. p = OrganizationsPage(w)
    BY <1>4 DEF PageAt
  <2>2. p.route = "organizations" /\ p.handle = w.handle /\ p.key = w.org /\ p.org = Mounted("org")
    BY <2>1 DEF OrganizationsPage
  <2>3. DOMAIN p = DOMAIN PageAt(p.route, w)
    BY <1>4, <2>2
  <2> HIDE DEF p
  <2> QED
    BY <1>1, <2>2, <2>3 DEF PageInv, UrlsOf, p
<1>5. CASE r = "publish"
  <2>1. p.route = "publish" /\ p.form = StartOfPublishing
    BY <1>5 DEF PageAt, PublishPage
  <2>2. p.form.iconPreview = NoIcon
    BY <2>1 DEF StartOfPublishing
  <2>3. DOMAIN p = DOMAIN PageAt(p.route, w)
    BY <1>5, <2>1
  <2> HIDE DEF p
  <2> QED
    BY <2>1, <2>2, <2>3 DEF PageInv, UrlsOf, p
<1>6. CASE r = "resolve"
  BY <1>6 DEF PageAt, ResolvePage, PageInv, UrlsOf
<1>7. CASE r = "inspector"
  <2>1. p.route = "inspector" /\ p.count.running
    BY <1>7 DEF PageAt, InspectorPage, CountMounted, Count
  <2>2. DOMAIN p = DOMAIN PageAt(p.route, w)
    BY <1>7, <2>1
  <2> HIDE DEF p
  <2> QED
    BY <2>1, <2>2 DEF PageInv, UrlsOf, p
<1>8. CASE r = "registration"
  <2>1. p.route = "registration" /\ p.name = Mounted("name") /\ p.org = Mounted("org")
    BY <1>8 DEF PageAt, RegistrationPage
  <2>2. DOMAIN p = DOMAIN PageAt(p.route, w)
    BY <1>8, <2>1
  <2> HIDE DEF p
  <2> QED
    BY <1>1, <2>1, <2>2 DEF PageInv, UrlsOf, p
<1>9. CASE r \notin Routes
  <2>1. p = OtherPage /\ p.route = "other"
    BY <1>9 DEF PageAt, Routes, OtherPage
  <2>2. DOMAIN PageAt("other", w) = {"route"} /\ DOMAIN p = {"route"}
    BY <1>9, PageFields DEF Routes
  <2> HIDE DEF p
  <2> QED
    BY <2>1, <2>2 DEF PageInv, UrlsOf, p
<1> QED
  BY <1>2, <1>3, <1>4, <1>5, <1>6, <1>7, <1>8, <1>9 DEF Routes

--------------------------------------------------------------------------------
(* Telling the pages of a change *)

\* A change of the identity that moves the handle of a claim only with its session
\* leaves every page that is told of it showing what is stored.
LEMMA PageIsTold ==
  ASSUME NEW p, NEW old, NEW w, PageInv(p, old), WhoInv(w),
         old.signedIn \in BOOLEAN,
         old.signedIn /\ w.signedIn => w.handle = old.handle
  PROVE  /\ PageInv(Synced(p, w), w)
         /\ Synced(p, w).route = p.route
         /\ UrlsOf(Synced(p, w)) = UrlsOf(p)
<1> DEFINE q == Synced(p, w)
<1>1. CASE p.route = "profile"
  <2> DEFINE fresh == ProfilePage(w)
  <2>1. PageInv(fresh, w) /\ fresh.route = "profile"
    BY PageIsMounted DEF PageAt, ProfilePage, ProfileWith
  <2>2. ProfileInv(fresh, w) /\ ProfileInv(p, old)
    BY <1>1, <2>1 DEF PageInv
  <2> DEFINE claim == IF fresh.claim = <<>> \/ p.claim = <<>> THEN fresh.claim ELSE p.claim
             hero == IF fresh.hero = <<>> \/ p.hero = <<>> THEN fresh.hero
                     ELSE <<HeroSynced(p.hero[1], w)>>
  <2>3. q.route = "profile" /\ q.handle = w.handle /\ q.avatar = w.avatar
        /\ q.claim = claim /\ q.hero = hero
    BY <1>1 DEF Synced, ProfileSynced, ProfileWith
  <2>4. DOMAIN q = DOMAIN PageAt(q.route, w)
    BY <1>1, <2>3, PageFields DEF Synced, ProfileSynced, ProfileWith
  <2>5. IF w.signedIn THEN /\ claim = <<[stored |-> w.handle, name |-> claim[1].name]>>
                           /\ FormInv("name", claim[1].name)
        ELSE claim = <<>>
    <3> HIDE DEF fresh
    <3>1. CASE fresh.claim = <<>> \/ p.claim = <<>>
      BY <2>2, <3>1 DEF ProfileInv
    <3>2. CASE fresh.claim # <<>> /\ p.claim # <<>>
      <4>1. w.signedIn /\ old.signedIn /\ claim = p.claim
        BY <2>2, <3>2 DEF ProfileInv
      <4> HIDE DEF claim
      <4> QED
        BY <2>2, <4>1 DEF ProfileInv
    <3> QED
      BY <3>1, <3>2
  <2>6. IF w.signedIn /\ w.handle # NoName
        THEN hero = <<[bio |-> w.bio, draft |-> hero[1].draft, editing |-> hero[1].editing]>>
        ELSE hero = <<>>
    <3> HIDE DEF fresh
    <3>1. CASE fresh.hero = <<>> \/ p.hero = <<>>
      BY <2>2, <3>1 DEF ProfileInv
    <3>2. CASE fresh.hero # <<>> /\ p.hero # <<>>
      <4>1. w.signedIn /\ w.handle # NoName
        BY <2>2, <3>2 DEF ProfileInv
      <4>2. hero = <<HeroSynced(p.hero[1], w)>>
        BY <3>2
      <4>3. HeroSynced(p.hero[1], w) =
              [bio |-> w.bio, draft |-> HeroSynced(p.hero[1], w).draft,
               editing |-> HeroSynced(p.hero[1], w).editing]
        BY DEF HeroSynced
      <4> HIDE DEF hero
      <4> QED
        BY <4>1, <4>2, <4>3
    <3> QED
      BY <3>1, <3>2
  <2> HIDE DEF q, claim, hero
  <2>7. ProfileInv(q, w)
    BY <2>3, <2>5, <2>6 DEF ProfileInv
  <2> QED
    BY <1>1, <2>3, <2>4, <2>7 DEF PageInv, UrlsOf, q
<1>2. CASE p.route = "organizations"
  <2>1. q = [p EXCEPT !.handle = w.handle, !.key = w.org]
    BY <1>2 DEF Synced, OrganizationsSynced
  <2>2. DOMAIN p = {"route", "handle", "key", "org", "note", "depth", "learnMore", "switches"}
    BY <1>2, PageFields DEF PageInv
  <2>3. DOMAIN q = DOMAIN p /\ q.route = p.route /\ q.handle = w.handle /\ q.key = w.org
        /\ q.org = p.org
    BY <2>1, <2>2
  <2>4. DOMAIN q = DOMAIN PageAt(q.route, w)
    BY <1>2, <2>2, <2>3, PageFields
  <2> HIDE DEF q
  <2> QED
    BY <1>2, <2>3, <2>4 DEF PageInv, UrlsOf, q
<1>3. CASE p.route \notin {"profile", "organizations"}
  <2>1. q = p
    BY <1>3 DEF Synced
  <2>2. DOMAIN PageAt(p.route, w) = DOMAIN PageAt(p.route, old)
    BY <1>3, PageFields DEF Routes
  <2> HIDE DEF q
  <2> QED
    BY <1>3, <2>1, <2>2 DEF PageInv, UrlsOf, q
<1> QED
  BY <1>1, <1>2, <1>3

LEMMA IdentityIs ==
  ASSUME NEW h, NEW o, NEW s, NEW a, NEW b
  PROVE  /\ Identity(h, o, s, a, b).handle = h /\ Identity(h, o, s, a, b).org = o
         /\ Identity(h, o, s, a, b).signedIn = s
         /\ Identity(h, o, s, a, b).avatar = a /\ Identity(h, o, s, a, b).bio = b
BY DEF Identity

--------------------------------------------------------------------------------
(* What a step does to the page *)

\* The invariant of the next state, of its page and identity.
LEMMA InvOfNext ==
  ASSUME session' = who'.signedIn, WhoInv(who'), PageInv(page', who'), urls' = UrlsOf(page')
  PROVE  IInv'
BY DEF IInv, WhoInv, PageInv, UrlsOf, ProfileInv, Figure

\* A write to storage, taken or refused, of which the page is told.
LEMMA StoredKeeps ==
  ASSUME IInv, NEW w, NEW p, NEW old, Stored(w, p), urls' = urls,
         WhoInv(w), w.handle = who.handle,
         PageInv(p, old), old.signedIn \in BOOLEAN, old.handle = who.handle,
         UrlsOf(p) = UrlsOf(page)
  PROVE  IInv'
<1>1. PICK kept \in {w, who} : who' = kept /\ session' = kept.signedIn /\ page' = Synced(p, kept)
  BY DEF Stored
<1>2. WhoInv(kept) /\ kept.handle = old.handle
  BY <1>1 DEF IInv
<1>3. PageInv(Synced(p, kept), kept) /\ UrlsOf(Synced(p, kept)) = UrlsOf(p)
  BY <1>2, PageIsTold
<1>4. session' = who'.signedIn /\ urls' = UrlsOf(page')
  BY <1>1, <1>3 DEF IInv
<1>5. WhoInv(who') /\ PageInv(page', who')
  BY <1>1, <1>2, <1>3
<1> QED
  BY <1>4, <1>5, InvOfNext

\* An event that changes only the page.
LEMMA OnPageKeeps ==
  ASSUME IInv, NEW p, OnPage(p), PageInv(p, who), UrlsOf(p) = UrlsOf(page)
  PROVE  IInv'
<1>1. page' = p /\ who' = who /\ session' = session /\ urls' = urls
  BY DEF OnPage
<1> QED
  BY <1>1, InvOfNext DEF IInv

\* Leaving a page for another one: nothing is left of the first.
LEMMA ShowsKeeps ==
  ASSUME IInv, NEW r, Shows(r), UNCHANGED <<who, session>>
  PROVE  IInv'
<1>1. Left = {}
  <2>1. CASE page.route = "publish"
    BY <2>1 DEF IInv, Left, Revoked, UrlsOf
  <2>2. CASE page.route # "publish"
    BY <2>2 DEF IInv, Left, UrlsOf
  <2> QED
    BY <2>1, <2>2
<1>2. page' = PageAt(r, who) /\ urls' = {}
  BY <1>1 DEF Shows
<1>3. PageInv(page', who) /\ UrlsOf(page') = {}
  BY <1>2, PageIsMounted DEF IInv
<1> QED
  BY <1>2, <1>3, InvOfNext DEF IInv

\* The profile page in a session: its one claim.
LEMMA ClaimShown ==
  ASSUME IInv, page.route = "profile", page.claim # <<>>
  PROVE  /\ who.signedIn
         /\ page.claim = <<[stored |-> who.handle, name |-> page.claim[1].name]>>
         /\ page.claim[1].stored = who.handle
         /\ FormInv("name", page.claim[1].name)
<1>1. ProfileInv(page, who)
  BY DEF IInv, PageInv
<1>2. who.signedIn /\ page.claim = <<[stored |-> who.handle, name |-> page.claim[1].name]>>
      /\ FormInv("name", page.claim[1].name)
  BY <1>1 DEF ProfileInv
<1>3. <<[stored |-> who.handle, name |-> page.claim[1].name]>>[1].stored = who.handle
  OBVIOUS
<1> QED
  BY <1>2, <1>3

\* Its card.
LEMMA CardShown ==
  ASSUME IInv, OnCard
  PROVE  who.signedIn /\ who.handle # NoName /\ page.hero[1].bio = who.bio
<1>1. ProfileInv(page, who)
  BY DEF IInv, PageInv, OnCard
<1>2. who.signedIn /\ who.handle # NoName
      /\ page.hero = <<[bio |-> who.bio, draft |-> page.hero[1].draft, editing |-> page.hero[1].editing]>>
  BY <1>1 DEF ProfileInv, OnCard
<1>3. <<[bio |-> who.bio, draft |-> page.hero[1].draft, editing |-> page.hero[1].editing]>>[1].bio
        = who.bio
  OBVIOUS
<1> QED
  BY <1>2, <1>3

\* The draft of a bio changes, or whether it is edited.
LEMMA DraftKeeps ==
  ASSUME IInv, OnCard, NEW draft, NEW editing, OnPage(WithHero(page.hero[1].bio, draft, editing))
  PROVE  IInv'
<1> DEFINE p == WithHero(page.hero[1].bio, draft, editing)
           hero == <<[bio |-> who.bio, draft |-> draft, editing |-> editing]>>
<1>1. p = [page EXCEPT !.hero = hero]
  BY CardShown DEF WithHero
<1>2. page.route = "profile" /\ DOMAIN page = {"route", "handle", "avatar", "claim", "hero"}
  BY PageFields DEF IInv, PageInv, OnCard
<1>3. DOMAIN p = DOMAIN page /\ p.route = "profile" /\ p.handle = page.handle
      /\ p.avatar = page.avatar /\ p.claim = page.claim /\ p.hero = hero
  <2> HIDE DEF hero
  <2> QED
    BY <1>1, <1>2
<1>4. hero = <<[bio |-> who.bio, draft |-> hero[1].draft, editing |-> hero[1].editing]>>
  OBVIOUS
<1> HIDE DEF p, hero
<1>5. ProfileInv(p, who)
  BY <1>2, <1>3, <1>4, CardShown DEF IInv, PageInv, ProfileInv
<1>6. PageInv(p, who) /\ UrlsOf(p) = UrlsOf(page)
  BY <1>2, <1>3, <1>5 DEF IInv, PageInv, UrlsOf
<1> QED
  BY <1>6, OnPageKeeps DEF p

\* A section of the publishing form; none but the icon touches the object URL.
LEMMA FormShownKeeps ==
  ASSUME IInv, NEW form, FormShown(form),
         page.route = "publish" => /\ DOMAIN form = DOMAIN page.form
                                   /\ form.iconPreview = page.form.iconPreview
  PROVE  IInv'
<1> DEFINE p == [page EXCEPT !.form = form]
<1>1. page.route = "publish" /\ OnPage(p)
  BY DEF FormShown, OnForm
<1>2. DOMAIN page = {"route", "form"}
  BY <1>1, PageFields DEF IInv, PageInv
<1>3. DOMAIN p = DOMAIN page /\ p.route = "publish" /\ p.form = form
  BY <1>1, <1>2
<1> HIDE DEF p
<1>4. PageInv(p, who) /\ UrlsOf(p) = UrlsOf(page)
  BY <1>1, <1>3 DEF IInv, PageInv, UrlsOf
<1> QED
  BY <1>1, <1>4, OnPageKeeps

--------------------------------------------------------------------------------
(* The steps *)

LEMMA StepVisit ==
  ASSUME IInv, Visit
  PROVE  IInv'
<1>1. ASSUME NEW r \in RoutesOf(app), Go(r) PROVE IInv'
  BY <1>1, ShowsKeeps DEF Go
<1>2. ASSUME NEW r \in RoutesOf(app), Reload(r) PROVE IInv'
  <2>1. session' = who.signedIn /\ page' = PageAt(r, who) /\ urls' = {} /\ who' = who
    BY <1>2 DEF Reload
  <2>2. PageInv(page', who) /\ UrlsOf(page') = {}
    BY <2>1, PageIsMounted DEF IInv
  <2> QED
    BY <2>1, <2>2, InvOfNext DEF IInv
<1>3. CASE SettingsLink
  BY <1>3, ShowsKeeps DEF SettingsLink
<1>4. ASSUME NEW to, Explore(to) PROVE IInv'
  <2> DEFINE p == [page EXCEPT !.explore = to]
  <2>1. page.route = "home" /\ OnPage(p)
    BY <1>4 DEF Explore, OnPage
  <2>2. DOMAIN page = {"route", "explore"}
    BY <2>1, PageFields DEF IInv, PageInv
  <2>3. DOMAIN p = DOMAIN page /\ p.route = "home"
    BY <2>1, <2>2
  <2> HIDE DEF p
  <2>4. PageInv(p, who) /\ UrlsOf(p) = UrlsOf(page)
    BY <2>1, <2>3 DEF IInv, PageInv, UrlsOf
  <2> QED
    BY <2>1, <2>4, OnPageKeeps
<1>5. CASE SignIn
  <2> DEFINE w == Identity(who.handle, who.org, TRUE, who.avatar, who.bio)
  <2>1. Stored(w, page) /\ urls' = urls
    BY <1>5 DEF SignIn
  <2>2. w.handle = who.handle /\ w.org = who.org /\ w.signedIn = TRUE
    BY DEF Identity
  <2> HIDE DEF w
  <2>3. WhoInv(w)
    BY <2>2 DEF IInv, WhoInv
  <2> QED
    BY <2>1, <2>2, <2>3, StoredKeeps DEF IInv, WhoInv
<1>6. CASE LearnMore
  <2> DEFINE p == [page EXCEPT !.learnMore = ~ @]
  <2>1. page.route \in {"organizations", "registration"} /\ OnPage(p)
    BY <1>6 DEF LearnMore
  <2>2. DOMAIN page \in {{"route", "handle", "key", "org", "note", "depth", "learnMore", "switches"},
                         {"route", "name", "org", "nameNote", "orgNote", "depth", "learnMore"}}
    BY <2>1, PageFields DEF IInv, PageInv
  <2>3. \A f \in DOMAIN page \ {"learnMore"} : p[f] = page[f]
    OBVIOUS
  <2>4. DOMAIN p = DOMAIN page /\ p.route = page.route
    BY <2>2, <2>3
  <2>5. page.route = "organizations" => p.handle = page.handle /\ p.key = page.key /\ p.org = page.org
    <3>1. page.route = "organizations" => {"handle", "key", "org"} \subseteq DOMAIN page
      BY PageFields DEF IInv, PageInv
    <3> QED
      BY <2>3, <3>1
  <2>6. page.route = "registration" => p.name = page.name /\ p.org = page.org
    <3>1. page.route = "registration" => {"name", "org"} \subseteq DOMAIN page
      BY PageFields DEF IInv, PageInv
    <3> QED
      BY <2>3, <3>1
  <2> HIDE DEF p
  <2>7. PageInv(p, who) /\ UrlsOf(p) = UrlsOf(page)
    BY <2>1, <2>4, <2>5, <2>6 DEF IInv, PageInv, UrlsOf
  <2> QED
    BY <2>1, <2>7, OnPageKeeps
<1> QED
  BY <1>1, <1>2, <1>3, <1>4, <1>5, <1>6 DEF Visit

\* The form of the organizations page, its note and its price.
LEMMA OrgShown ==
  ASSUME IInv, page.route = "organizations", NEW p,
         DOMAIN p = DOMAIN page, p.route = page.route, p.handle = page.handle,
         p.key = page.key, FormInv("org", p.org), OnPage(p)
  PROVE  IInv'
<1>1. PageInv(p, who) /\ UrlsOf(p) = UrlsOf(page)
  BY DEF IInv, PageInv, UrlsOf
<1> QED
  BY <1>1, OnPageKeeps

\* The two forms of the registration page.
LEMMA RegistrationShown ==
  ASSUME IInv, page.route = "registration", NEW p,
         DOMAIN p = DOMAIN page, p.route = page.route,
         FormInv("name", p.name), FormInv("org", p.org), OnPage(p)
  PROVE  IInv'
<1>1. PageInv(p, who) /\ UrlsOf(p) = UrlsOf(page)
  BY DEF IInv, PageInv, UrlsOf
<1> QED
  BY <1>1, OnPageKeeps

\* What is typed into a form is a text of its kind.
LEMMA TypedTexts ==
  /\ NameTexts \in SUBSET TextsOf("name")
  /\ OrgTexts \in SUBSET TextsOf("org") /\ {} \in SUBSET TextsOf("org")
BY DEF TextsOf

LEMMA StepClaimEvent ==
  ASSUME IInv, ClaimEvent
  PROVE  IInv'
<1>1. page.route = "profile" /\ page.claim # <<>> /\ page.claim[1].stored = NoName
  BY DEF ClaimEvent
<1>2. PICK f \in FormEvents("name", page.claim[1].name, NameTexts) :
        OnPage([page EXCEPT !.claim = <<[stored |-> NoName, name |-> f]>>])
  BY DEF ClaimEvent, Bounded
<1>3. FormInv("name", f)
  BY <1>1, <1>2, ClaimShown, FormStep, TypedTexts DEF FormKinds
<1> DEFINE claim == <<[stored |-> NoName, name |-> f]>>
           p == [page EXCEPT !.claim = claim]
<1>4. DOMAIN page = {"route", "handle", "avatar", "claim", "hero"}
  BY <1>1, PageFields DEF IInv, PageInv
<1>5. DOMAIN p = DOMAIN page /\ p.route = "profile" /\ p.handle = page.handle
      /\ p.avatar = page.avatar /\ p.claim = claim /\ p.hero = page.hero
  <2> HIDE DEF claim
  <2> QED
    BY <1>1, <1>4
<1>6. claim = <<[stored |-> NoName, name |-> claim[1].name]>> /\ claim[1].name = f
  OBVIOUS
<1>7. who.handle = NoName /\ who.signedIn
  BY <1>1, ClaimShown
<1>8. OnPage(p)
  BY <1>2
<1> HIDE DEF claim, p
<1>9. ProfileInv(p, who)
  BY <1>1, <1>3, <1>5, <1>6, <1>7 DEF IInv, PageInv, ProfileInv
<1>10. PageInv(p, who) /\ UrlsOf(p) = UrlsOf(page)
  BY <1>1, <1>5, <1>9 DEF IInv, PageInv, UrlsOf
<1> QED
  BY <1>8, <1>10, OnPageKeeps

\* The handle is stored, or storage refuses it; the claim knows which.
LEMMA StepClaimHandle ==
  ASSUME IInv, ClaimHandle
  PROVE  IInv'
<1>1. page.route = "profile" /\ page.claim # <<>> /\ page.claim[1].stored = NoName
      /\ urls' = urls
  BY DEF ClaimHandle
<1> DEFINE name == page.claim[1].name
           new == Identity(Key(name), who.org, who.signedIn, who.avatar, who.bio)
<1>2. PICK kept \in {who, new} :
        /\ who' = kept /\ session' = kept.signedIn
        /\ page' = ProfileSynced([page EXCEPT !.claim[1].stored = kept.handle], kept)
  BY DEF ClaimHandle
<1>3. /\ who.signedIn /\ who.handle = NoName /\ who.org = NoOrg
      /\ page.claim = <<[stored |-> who.handle, name |-> name]>> /\ FormInv("name", name)
  BY <1>1, ClaimShown DEF IInv, WhoInv
<1>4. new.org = who.org /\ new.signedIn = who.signedIn /\ new.avatar = who.avatar
  BY IdentityIs
<1>5. kept.signedIn /\ kept.org = NoOrg /\ kept.avatar = who.avatar /\ WhoInv(kept)
  <2> HIDE DEF new
  <2>1. kept.signedIn = who.signedIn /\ kept.org = who.org /\ kept.avatar = who.avatar
    BY <1>4
  <2> QED
    BY <1>3, <2>1 DEF IInv, WhoInv
<1> DEFINE p == [page EXCEPT !.claim[1].stored = kept.handle]
           claim == <<[stored |-> kept.handle, name |-> name]>>
           fresh == ProfilePage(kept)
<1>6. DOMAIN page = {"route", "handle", "avatar", "claim", "hero"} /\ page.hero = <<>>
  BY <1>1, <1>3, PageFields DEF IInv, PageInv, ProfileInv
<1>7. p.claim = claim /\ p.hero = <<>>
  <2>1. [page.claim EXCEPT ![1].stored = kept.handle] = claim
    <3> HIDE DEF name, new
    <3>1. [<<[stored |-> who.handle, name |-> name]>> EXCEPT ![1].stored = kept.handle] = claim
      OBVIOUS
    <3> QED
      BY <1>3, <3>1
  <2> HIDE DEF claim
  <2> QED
    BY <1>6, <2>1
<1>8. PageInv(fresh, kept) /\ fresh.route = "profile"
  BY <1>5, PageIsMounted DEF PageAt, ProfilePage, ProfileWith
<1>9. fresh.claim # <<>>
  BY <1>5 DEF ProfilePage, ProfileWith, Claim
<1>10. claim # <<>> /\ claim = <<[stored |-> kept.handle, name |-> claim[1].name]>>
       /\ claim[1].name = name
  OBVIOUS
<1>11. page' = ProfileWith(kept, claim, fresh.hero)
  <2> HIDE DEF claim, p, fresh
  <2> QED
    BY <1>2, <1>7, <1>9, <1>10 DEF ProfileSynced, p, fresh
<1>12. /\ page'.route = "profile" /\ page'.handle = kept.handle /\ page'.avatar = kept.avatar
       /\ page'.claim = claim /\ page'.hero = fresh.hero
       /\ DOMAIN page' = {"route", "handle", "avatar", "claim", "hero"}
  <2> HIDE DEF claim, fresh
  <2> QED
    BY <1>11 DEF ProfileWith
<1> HIDE DEF claim, fresh, p
<1>13. ProfileInv(page', kept)
  BY <1>3, <1>5, <1>8, <1>10, <1>12 DEF PageInv, ProfileInv
<1>14. PageInv(page', kept) /\ UrlsOf(page') = {} /\ UrlsOf(page) = {}
  BY <1>1, <1>12, <1>13, PageFields DEF PageInv, UrlsOf
<1> QED
  BY <1>1, <1>2, <1>5, <1>14, InvOfNext DEF IInv

\* An organization key is stored, or refused, and the page is told either way.
LEMMA StepRegisterOrg ==
  ASSUME IInv, RegisterOrg
  PROVE  IInv'
<1> DEFINE key == Key(page.org)
           w == Identity(who.handle, key, who.signedIn, who.avatar, who.bio)
           p == [page EXCEPT !.key = key, !.note = TRUE, !.depth = Deeper(@)]
<1>1. page.route = "organizations" /\ session /\ page.handle # NoName
      /\ Stored(w, p) /\ urls' = urls
  BY DEF RegisterOrg, HasHandle
<1>2. w.handle = who.handle /\ w.org = key /\ w.signedIn = who.signedIn
  BY IdentityIs
<1>3. page.handle = who.handle /\ FormInv("org", page.org) /\ who.signedIn
      /\ who.handle # NoName
  BY <1>1 DEF IInv, PageInv
<1>4. DOMAIN page = {"route", "handle", "key", "org", "note", "depth", "learnMore", "switches"}
  BY <1>1, PageFields DEF IInv, PageInv
<1>5. DOMAIN p = DOMAIN page /\ p.route = "organizations" /\ p.handle = page.handle
      /\ p.key = key /\ p.org = page.org
  <2> HIDE DEF key, w
  <2> QED
    BY <1>1, <1>4
<1> HIDE DEF key, w, p
<1>6. WhoInv(w)
  BY <1>2, <1>3 DEF IInv, WhoInv
<1>7. PageInv(p, w) /\ UrlsOf(p) = UrlsOf(page)
  BY <1>1, <1>2, <1>3, <1>4, <1>5, PageFields DEF PageInv, UrlsOf
<1> QED
  BY <1>1, <1>2, <1>6, <1>7, StoredKeeps DEF IInv, WhoInv

LEMMA StepRegister ==
  ASSUME IInv, Register
  PROVE  IInv'
<1> DEFINE orgFields == {"route", "handle", "key", "org", "note", "depth", "learnMore", "switches"}
           regFields == {"route", "name", "org", "nameNote", "orgNote", "depth", "learnMore"}
<1>1. /\ page.route = "organizations" => DOMAIN page = orgFields /\ FormInv("org", page.org)
      /\ page.route = "registration" =>
           DOMAIN page = regFields /\ FormInv("name", page.name) /\ FormInv("org", page.org)
  BY PageFields DEF IInv, PageInv
<1>2. CASE ClaimEvent
  BY <1>2, StepClaimEvent
<1>3. CASE ClaimHandle
  BY <1>3, StepClaimHandle
<1>4. CASE OrgEvent
  <2>1. page.route = "organizations"
    BY <1>4 DEF OrgEvent
  <2>2. PICK f \in FormEvents("org", page.org, IF HasHandle THEN OrgTexts ELSE {}) :
          OnPage([page EXCEPT !.org = f, !.note = @ /\ f.text = page.org.text])
    BY <1>4 DEF OrgEvent, Bounded
  <2>3. FormInv("org", f)
    BY <1>1, <2>1, <2>2, FormStep, TypedTexts DEF FormKinds
  <2> DEFINE p == [page EXCEPT !.org = f, !.note = @ /\ f.text = page.org.text]
  <2>4. DOMAIN p = DOMAIN page /\ p.route = page.route /\ p.handle = page.handle
        /\ p.key = page.key /\ p.org = f
    BY <1>1, <2>1
  <2> HIDE DEF p
  <2> QED
    BY <2>1, <2>2, <2>3, <2>4, OrgShown DEF p
<1>5. CASE RegisterOrg
  BY <1>5, StepRegisterOrg
<1>6. CASE RefreshIdentity
  <2> DEFINE p == [page EXCEPT !.handle = who.handle, !.key = who.org]
  <2>1. page.route = "organizations" /\ OnPage(p)
    BY <1>6 DEF RefreshIdentity, HasHandle, OrganizationsSynced
  <2>2. DOMAIN p = DOMAIN page /\ p.route = page.route /\ p.handle = who.handle
        /\ p.key = who.org /\ p.org = page.org
    BY <1>1, <2>1
  <2>3. page.handle = who.handle /\ page.key = who.org
    BY <2>1 DEF IInv, PageInv
  <2> HIDE DEF p
  <2> QED
    BY <1>1, <2>1, <2>2, <2>3, OrgShown
<1>7. ASSUME NEW s \in Switches, ToggleSwitch(s) PROVE IInv'
  <2> DEFINE p == [page EXCEPT !.switches[s] = ~ @]
  <2>1. page.route = "organizations" /\ OnPage(p)
    BY <1>7 DEF ToggleSwitch, HasHandle
  <2>2. DOMAIN p = DOMAIN page /\ p.route = page.route /\ p.handle = page.handle
        /\ p.key = page.key /\ p.org = page.org
    BY <1>1, <2>1
  <2> HIDE DEF p
  <2> QED
    BY <1>1, <2>1, <2>2, OrgShown
<1>8. CASE NameEvent
  <2>1. page.route = "registration"
    BY <1>8 DEF NameEvent
  <2>2. PICK f \in FormEvents("name", page.name, NameTexts) :
          OnPage([page EXCEPT !.name = f, !.nameNote = @ /\ f.text = page.name.text])
    BY <1>8 DEF NameEvent, Bounded
  <2>3. FormInv("name", f)
    BY <1>1, <2>1, <2>2, FormStep, TypedTexts DEF FormKinds
  <2> DEFINE p == [page EXCEPT !.name = f, !.nameNote = @ /\ f.text = page.name.text]
  <2>4. DOMAIN p = DOMAIN page /\ p.route = page.route /\ p.name = f /\ p.org = page.org
    BY <1>1, <2>1
  <2> HIDE DEF p
  <2> QED
    BY <1>1, <2>1, <2>2, <2>3, <2>4, RegistrationShown DEF p
<1>9. CASE OrgKeyEvent
  <2>1. page.route = "registration"
    BY <1>9 DEF OrgKeyEvent
  <2>2. PICK f \in FormEvents("org", page.org, OrgTexts) :
          OnPage([page EXCEPT !.org = f, !.orgNote = @ /\ f.text = page.org.text])
    BY <1>9 DEF OrgKeyEvent, Bounded
  <2>3. FormInv("org", f)
    BY <1>1, <2>1, <2>2, FormStep, TypedTexts DEF FormKinds
  <2> DEFINE p == [page EXCEPT !.org = f, !.orgNote = @ /\ f.text = page.org.text]
  <2>4. DOMAIN p = DOMAIN page /\ p.route = page.route /\ p.org = f /\ p.name = page.name
    BY <1>1, <2>1
  <2> HIDE DEF p
  <2> QED
    BY <1>1, <2>1, <2>2, <2>3, <2>4, RegistrationShown DEF p
<1>10. CASE SubmitName
  <2> DEFINE p == [page EXCEPT !.nameNote = TRUE]
  <2>1. page.route = "registration" /\ OnPage(p)
    BY <1>10 DEF SubmitName
  <2>2. DOMAIN p = DOMAIN page /\ p.route = page.route /\ p.org = page.org /\ p.name = page.name
    BY <1>1, <2>1
  <2> HIDE DEF p
  <2> QED
    BY <1>1, <2>1, <2>2, RegistrationShown
<1>11. CASE SubmitOrg
  <2> DEFINE p == [page EXCEPT !.orgNote = TRUE, !.depth = Deeper(@)]
  <2>1. page.route = "registration" /\ OnPage(p)
    BY <1>11 DEF SubmitOrg
  <2>2. DOMAIN p = DOMAIN page /\ p.route = page.route /\ p.org = page.org /\ p.name = page.name
    BY <1>1, <2>1
  <2> HIDE DEF p
  <2> QED
    BY <1>1, <2>1, <2>2, RegistrationShown
<1> QED
  BY <1>2, <1>3, <1>4, <1>5, <1>6, <1>7, <1>8, <1>9, <1>10, <1>11 DEF Register

\* The bio is stored, or storage refuses it; the card shows which, and keeps the draft.
LEMMA StepSaveBio ==
  ASSUME IInv, SaveBio
  PROVE  IInv'
<1> DEFINE new == Identity(who.handle, who.org, who.signedIn, who.avatar, Trimmed(page.hero[1].draft))
<1>1. OnCard /\ session' = session /\ urls' = urls /\ page.route = "profile"
  BY DEF SaveBio, OnCard
<1>2. PICK kept \in {who, new} :
        /\ who' = kept
        /\ page' = ProfileWith(kept, page.claim,
                     <<[bio |-> kept.bio, draft |-> page.hero[1].draft, editing |-> FALSE]>>)
  BY DEF SaveBio
<1>3. new.handle = who.handle /\ new.org = who.org /\ new.signedIn = who.signedIn
      /\ new.avatar = who.avatar
  BY IdentityIs
<1> HIDE DEF new
<1>4. kept.handle = who.handle /\ kept.org = who.org /\ kept.signedIn = who.signedIn
      /\ kept.avatar = who.avatar
  BY <1>3
<1>5. who.signedIn /\ who.handle # NoName
  BY <1>1, CardShown
<1>6. WhoInv(kept)
  BY <1>4, <1>5 DEF IInv, WhoInv
<1> DEFINE hero == <<[bio |-> kept.bio, draft |-> page.hero[1].draft, editing |-> FALSE]>>
<1>7. hero = <<[bio |-> kept.bio, draft |-> hero[1].draft, editing |-> hero[1].editing]>>
  OBVIOUS
<1> HIDE DEF hero
<1>8. /\ page'.route = "profile" /\ page'.handle = kept.handle /\ page'.avatar = kept.avatar
      /\ page'.claim = page.claim /\ page'.hero = hero
      /\ DOMAIN page' = {"route", "handle", "avatar", "claim", "hero"}
  BY <1>2 DEF ProfileWith, hero
<1>9. ProfileInv(page', kept)
  BY <1>1, <1>4, <1>5, <1>7, <1>8 DEF IInv, PageInv, ProfileInv
<1>10. PageInv(page', kept) /\ UrlsOf(page') = {} /\ UrlsOf(page) = {}
  BY <1>1, <1>8, <1>9, PageFields DEF PageInv, UrlsOf
<1> QED
  BY <1>1, <1>2, <1>4, <1>6, <1>10, InvOfNext DEF IInv

\* A picture is stored, or refused, whatever page is shown by then.
LEMMA AvatarKeeps ==
  ASSUME IInv, NEW picture, urls' = urls,
         Stored(Identity(who.handle, who.org, who.signedIn, picture, who.bio), page)
  PROVE  IInv'
<1> DEFINE w == Identity(who.handle, who.org, who.signedIn, picture, who.bio)
<1>1. w.handle = who.handle /\ w.org = who.org /\ w.signedIn = who.signedIn /\ w.bio = who.bio
  BY IdentityIs
<1>2. Stored(w, page)
  OBVIOUS
<1> HIDE DEF w
<1>3. WhoInv(w)
  BY <1>1 DEF IInv, WhoInv
<1> QED
  BY <1>1, <1>2, <1>3, StoredKeeps DEF IInv, WhoInv

LEMMA StepEditProfile ==
  ASSUME IInv, EditProfile
  PROVE  IInv'
<1>1. ASSUME NEW p \in Pictures, PickPhoto(p) PROVE IInv'
  <2>1. UNCHANGED <<who, session, page, urls>>
    BY <1>1 DEF PickPhoto
  <2> QED
    BY <2>1, InvOfNext DEF IInv
<1>2. ASSUME NEW p \in Pictures, PhotoRead(p) PROVE IInv'
  <2>1. urls' = urls
    BY <1>2 DEF PhotoRead
  <2>2. CASE IsTaken(p)
    BY <1>2, <2>1, <2>2, AvatarKeeps DEF PhotoRead
  <2>3. CASE ~ IsTaken(p)
    BY <1>2, <2>1, <2>3, InvOfNext DEF PhotoRead, IInv
  <2> QED
    BY <2>2, <2>3
<1>3. CASE ResetPhoto
  BY <1>3, AvatarKeeps DEF ResetPhoto
<1>4. CASE ClearIdentity
  <2>1. who' = Nobody /\ session' = FALSE /\ page' = Synced(page, Nobody) /\ urls' = urls
    BY <1>4 DEF ClearIdentity
  <2>2. /\ Nobody.handle = NoName /\ Nobody.org = NoOrg /\ Nobody.bio = NoBio
        /\ Nobody.signedIn = FALSE
    BY DEF Nobody, Identity
  <2>3. WhoInv(Nobody)
    BY <2>2 DEF WhoInv
  <2>4. PageInv(page', Nobody) /\ UrlsOf(page') = UrlsOf(page)
    BY <2>1, <2>2, <2>3, PageIsTold DEF IInv, WhoInv
  <2> QED
    BY <2>1, <2>2, <2>3, <2>4, InvOfNext DEF IInv
<1>5. CASE StartBio
  BY <1>5, DraftKeeps DEF StartBio
<1>6. CASE CancelBio
  BY <1>6, DraftKeeps DEF CancelBio
<1>7. CASE SaveBio
  BY <1>7, StepSaveBio
<1>8. ASSUME NEW text \in Bios, TypeBio(text) PROVE IInv'
  BY <1>8, DraftKeeps DEF TypeBio
<1> QED
  BY <1>1, <1>2, <1>3, <1>4, <1>5, <1>6, <1>7, <1>8 DEF EditProfile

LEMMA StepAsk ==
  ASSUME IInv, Ask
  PROVE  IInv'
<1>1. /\ page.route = "resolve" => DOMAIN page = {"route", "query", "debounced"}
      /\ page.route = "inspector" =>
           /\ DOMAIN page = {"route", "module", "count"}
           /\ page.count.running \/ page.count.display = Figure(page.module)
  BY PageFields DEF IInv, PageInv
<1>2. ASSUME NEW p, OnPage(p), page.route = "resolve", p.route = page.route,
             DOMAIN p = DOMAIN page
      PROVE  IInv'
  <2>1. PageInv(p, who) /\ UrlsOf(p) = UrlsOf(page)
    BY <1>2 DEF IInv, PageInv, UrlsOf
  <2> QED
    BY <1>2, <2>1, OnPageKeeps
<1>3. ASSUME NEW p, OnPage(p), page.route = "inspector", p.route = page.route,
             DOMAIN p = DOMAIN page, p.count.running \/ p.count.display = Figure(p.module)
      PROVE  IInv'
  <2>1. PageInv(p, who) /\ UrlsOf(p) = UrlsOf(page)
    BY <1>3 DEF IInv, PageInv, UrlsOf
  <2> QED
    BY <1>3, <2>1, OnPageKeeps
<1>4. CASE ResolvePause
  <2> DEFINE p == [page EXCEPT !.debounced = page.query]
  <2>1. OnPage(p) /\ page.route = "resolve"
    BY <1>4 DEF ResolvePause
  <2>2. p.route = page.route /\ DOMAIN p = DOMAIN page
    BY <1>1, <2>1
  <2> HIDE DEF p
  <2> QED
    BY <1>2, <2>1, <2>2
<1>5. ASSUME NEW q \in Queries, TypeQuery(q) PROVE IInv'
  <2> DEFINE p == [page EXCEPT !.query = q]
  <2>1. OnPage(p) /\ page.route = "resolve"
    BY <1>5 DEF TypeQuery
  <2>2. p.route = page.route /\ DOMAIN p = DOMAIN page
    BY <1>1, <2>1
  <2> HIDE DEF p
  <2> QED
    BY <1>2, <2>1, <2>2
<1>6. CASE AnimationFrame
  <2>1. page.route = "inspector"
    BY <1>6 DEF AnimationFrame
  <2>2. PICK c \in Frames(page.count, Figure(page.module)) : OnPage([page EXCEPT !.count = c])
    BY <1>6 DEF AnimationFrame
  <2>3. c.running \/ c.display = Figure(page.module)
    BY <2>2 DEF Frames, Count
  <2> DEFINE p == [page EXCEPT !.count = c]
  <2>4. p.route = page.route /\ DOMAIN p = DOMAIN page /\ p.count = c /\ p.module = page.module
    BY <1>1, <2>1
  <2>5. OnPage(p)
    BY <2>2
  <2> HIDE DEF p
  <2> QED
    BY <1>3, <2>1, <2>3, <2>4, <2>5
<1>7. ASSUME NEW m \in Modules, InspectModule(m) PROVE IInv'
  <2> DEFINE count == IF Figure(m) = Figure(page.module) THEN page.count
                      ELSE CountRestarted(page.count, Figure(m))
             p == [page EXCEPT !.module = m, !.count = count]
  <2>1. OnPage(p) /\ page.route = "inspector"
    BY <1>7 DEF InspectModule
  <2>2. count.running \/ count.display = Figure(m)
    BY <1>1, <2>1 DEF CountRestarted, Count
  <2> HIDE DEF count
  <2>3. p.route = page.route /\ DOMAIN p = DOMAIN page /\ p.count = count /\ p.module = m
    BY <1>1, <2>1
  <2> HIDE DEF p
  <2> QED
    BY <1>3, <2>1, <2>2, <2>3
<1> QED
  BY <1>4, <1>5, <1>6, <1>7 DEF Ask

LEMMA StepPublish ==
  ASSUME IInv, Publish
  PROVE  IInv'
<1> DEFINE form == page.form
<1>1. page.route = "publish" => DOMAIN form = DOMAIN StartOfPublishing
  BY DEF IInv, PageInv
<1>2. DOMAIN StartOfPublishing =
        {"text", "contentRating", "moneyModel", "tosView", "docsOpen",
         "certificationRequested", "archives", "iconPreview", "submitted"}
  BY DEF StartOfPublishing
<1> HIDE DEF form
<1>3. ASSUME NEW fields, EditField(fields) PROVE IInv'
  <2>1. PICK edit \in FieldTexts : FormShown(WithText(form, edit[1], edit[2]))
    BY <1>3 DEF EditField, form
  <2> DEFINE g == WithText(form, edit[1], edit[2])
  <2>2. page.route = "publish" => DOMAIN g = DOMAIN form /\ g.iconPreview = form.iconPreview
    BY <1>1, <1>2 DEF WithText
  <2>3. FormShown(g)
    BY <2>1
  <2> HIDE DEF g
  <2> QED
    BY <2>2, <2>3, FormShownKeeps DEF form
<1>4. ASSUME NEW r, FormShown(WithRating(form, r)) PROVE IInv'
  <2> DEFINE g == WithRating(form, r)
  <2>1. page.route = "publish" => DOMAIN g = DOMAIN form /\ g.iconPreview = form.iconPreview
    BY <1>1, <1>2 DEF WithRating
  <2>2. FormShown(g)
    BY <1>4
  <2> HIDE DEF g
  <2> QED
    BY <2>1, <2>2, FormShownKeeps DEF form
<1>5. ASSUME NEW m, FormShown(WithMoney(form, m)) PROVE IInv'
  <2> DEFINE g == WithMoney(form, m)
  <2>1. page.route = "publish" => DOMAIN g = DOMAIN form /\ g.iconPreview = form.iconPreview
    BY <1>1, <1>2 DEF WithMoney
  <2>2. FormShown(g)
    BY <1>5
  <2> HIDE DEF g
  <2> QED
    BY <2>1, <2>2, FormShownKeeps DEF form
<1>6. ASSUME NEW v, FormShown(WithTosView(form, v)) PROVE IInv'
  <2> DEFINE g == WithTosView(form, v)
  <2>1. page.route = "publish" => DOMAIN g = DOMAIN form /\ g.iconPreview = form.iconPreview
    BY <1>1, <1>2 DEF WithTosView
  <2>2. FormShown(g)
    BY <1>6
  <2> HIDE DEF g
  <2> QED
    BY <2>1, <2>2, FormShownKeeps DEF form
<1>7. ASSUME NEW role, NEW file, FormShown(WithArchive(form, role, file)) PROVE IInv'
  <2> DEFINE g == WithArchive(form, role, file)
  <2>1. page.route = "publish" => DOMAIN g = DOMAIN form /\ g.iconPreview = form.iconPreview
    BY <1>1, <1>2 DEF WithArchive
  <2>2. FormShown(g)
    BY <1>7
  <2> HIDE DEF g
  <2> QED
    BY <2>1, <2>2, FormShownKeeps DEF form
<1>8. ASSUME NEW g \in {WithCertification(form), WithDocs(form), Submitted(form)}, FormShown(g)
      PROVE  IInv'
  <2>1. page.route = "publish" => DOMAIN g = DOMAIN form /\ g.iconPreview = form.iconPreview
    BY <1>1, <1>2, <1>8 DEF WithCertification, WithDocs, Submitted
  <2> QED
    BY <1>8, <2>1, FormShownKeeps DEF form
<1>9. ASSUME NEW file \in IconFiles, ChooseIcon(file) PROVE IInv'
  <2> DEFINE url == IF file # NoIconFile /\ IsSvg(file) THEN FreshUrl(form) ELSE NoIcon
             g == WithIcon(form, url)
             p == [page EXCEPT !.form = g]
  <2>1. /\ page.route = "publish" /\ urls' = Revoked(urls, form) \cup ({url} \ {NoIcon})
        /\ page' = [page EXCEPT !.form = WithIcon(@, url)] /\ who' = who /\ session' = session
    BY <1>9 DEF ChooseIcon, OnForm, form
  <2> HIDE DEF url
  <2>2. DOMAIN g = DOMAIN StartOfPublishing /\ g.iconPreview = url
    BY <1>1, <1>2, <2>1 DEF WithIcon
  <2>3. DOMAIN page = {"route", "form"}
    BY <2>1, PageFields DEF IInv, PageInv
  <2>4. page' = p
    BY <2>1, <2>3 DEF form
  <2> HIDE DEF g
  <2>5. DOMAIN p = DOMAIN page /\ p.route = "publish" /\ p.form = g
    BY <2>1, <2>3
  <2>6. Revoked(urls, form) = {}
    BY <2>1 DEF IInv, Revoked, UrlsOf, form
  <2> HIDE DEF p
  <2>7. PageInv(page', who) /\ UrlsOf(page') = {url} \ {NoIcon}
    BY <2>1, <2>2, <2>4, <2>5 DEF IInv, PageInv, UrlsOf
  <2> QED
    BY <2>1, <2>6, <2>7, InvOfNext DEF IInv
<1>10. EditIdentity \/ EditMoney \/ EditTopology \/ EditTerms => IInv'
  BY <1>3 DEF EditIdentity, EditMoney, EditTopology, EditTerms
<1>11. ChooseRating \/ ChooseMoney \/ ChooseTosView \/ AttachArchive => IInv'
  BY <1>4, <1>5, <1>6, <1>7 DEF ChooseRating, ChooseMoney, ChooseTosView, AttachArchive, form
<1>12. RequestCertification \/ ToggleDocs \/ Submit => IInv'
  BY <1>8 DEF RequestCertification, ToggleDocs, Submit, form
<1> QED
  BY <1>9, <1>10, <1>11, <1>12 DEF Publish

--------------------------------------------------------------------------------
(* The theorems *)

LEMMA InitIsGood == Init => IInv
<1> SUFFICES ASSUME Init PROVE IInv
  OBVIOUS
<1>1. PICK r \in RoutesOf(app) : page = PageAt(r, who)
  BY DEF Init, PagesInit
<1>2. who = Nobody /\ session = FALSE /\ urls = {}
  BY DEF Init, PagesInit
<1>3. WhoInv(who) /\ who.signedIn = FALSE
  BY <1>2 DEF WhoInv, Nobody, Identity
<1>4. PageInv(page, who) /\ UrlsOf(page) = {}
  BY <1>1, <1>3, PageIsMounted
<1> QED
  BY <1>2, <1>3, <1>4 DEF IInv

LEMMA NextKeeps == IInv /\ [Next]_vars => IInv'
<1> SUFFICES ASSUME IInv, [Next]_vars PROVE IInv'
  OBVIOUS
<1>1. ASSUME UNCHANGED pageVars PROVE IInv'
  BY <1>1, InvOfNext DEF pageVars, IInv
<1>2. UNCHANGED vars => UNCHANGED pageVars
  BY DEF vars
<1> QED
  BY <1>1, <1>2, StepVisit, StepRegister, StepEditProfile, StepAsk, StepPublish DEF Next

\* The pages agree with the stored identity, and with what is in their own fields,
\* for any texts, modules and pictures, and any order of events and answers.
THEOREM Invariant == Spec => []IInv
<1> QED
  BY InitIsGood, NextKeeps, PTL DEF Spec

\* No copy of the identity on a page is stale: the views of the profile and of
\* the organizations page, and the session that the header goes by.
THEOREM ViewsAgree == Spec => []ViewsAreCurrent
<1>1. IInv => ViewsAreCurrent
  <2> SUFFICES ASSUME IInv PROVE ViewsAreCurrent
    OBVIOUS
  <2>1. /\ session = who.signedIn
        /\ page.route = "organizations" => page.handle = who.handle /\ page.key = who.org
    BY DEF IInv, PageInv
  <2>2. ASSUME page.route = "profile"
        PROVE  /\ page.handle = who.handle /\ page.avatar = who.avatar
               /\ \A c \in ToSet(page.claim) : c.stored = who.handle
               /\ \A h \in ToSet(page.hero) : h.bio = who.bio
    <3>1. page.handle = who.handle /\ page.avatar = who.avatar
      BY <2>2 DEF IInv, PageInv, ProfileInv
    <3>2. \A c \in ToSet(page.claim) : c.stored = who.handle
      <4>1. CASE page.claim = <<>>
        BY <4>1 DEF ToSet
      <4>2. CASE page.claim # <<>>
        <5>1. DOMAIN page.claim = {1}
          BY <2>2, <4>2, ClaimShown
        <5> QED
          BY <2>2, <4>2, <5>1, ClaimShown DEF ToSet
      <4> QED
        BY <4>1, <4>2
    <3>3. \A h \in ToSet(page.hero) : h.bio = who.bio
      <4>1. CASE page.hero = <<>>
        BY <4>1 DEF ToSet
      <4>2. CASE page.hero # <<>>
        <5>1. DOMAIN page.hero = {1}
          BY <2>2, <4>2 DEF IInv, PageInv, ProfileInv
        <5> QED
          BY <2>2, <4>2, <5>1, CardShown DEF ToSet, OnCard
      <4> QED
        BY <4>1, <4>2
    <3> QED
      BY <3>1, <3>2, <3>3
  <2> QED
    BY <2>1, <2>2 DEF ViewsAreCurrent
<1> QED
  BY <1>1, Invariant, PTL

\* "Available", "taken", a resolver's answer and the figures that stand still are
\* about what is in the field, whatever lookups, pauses and frames are under way.
THEOREM AnswersFit == Spec => []AnswersBelongToQuestion
<1>1. IInv => AnswersBelongToQuestion
  <2> SUFFICES ASSUME IInv PROVE AnswersBelongToQuestion
    OBVIOUS
  <2>1. \A f \in NameForms : FormIsHonest("name", f)
    <3>1. CASE page.route = "profile"
      <4>1. \A c \in ToSet(page.claim) : FormInv("name", c.name)
        <5>1. CASE page.claim = <<>>
          BY <5>1 DEF ToSet
        <5>2. CASE page.claim # <<>>
          <6>1. DOMAIN page.claim = {1}
            BY <3>1, <5>2, ClaimShown
          <6> QED
            BY <3>1, <5>2, <6>1, ClaimShown DEF ToSet
        <5> QED
          BY <5>1, <5>2
      <4> QED
        BY <3>1, <4>1 DEF NameForms, FormInv
    <3>2. CASE page.route # "profile"
      BY <3>2 DEF NameForms, IInv, PageInv, FormInv
    <3> QED
      BY <3>1, <3>2
  <2>2. \A f \in OrgForms : FormIsHonest("org", f)
    BY DEF OrgForms, IInv, PageInv, FormInv
  <2>3. page.route = "resolve" =>
          \/ ResolveShown(page) \in {"pending", ResolvedKind(page.query)}
          \/ page.query = EmptyQuery /\ page.debounced # page.query
    BY DEF ResolveShown
  <2>4. page.route = "inspector" =>
          page.count.running \/ page.count.display = Figure(page.module)
    BY DEF IInv, PageInv
  <2> QED
    BY <2>1, <2>2, <2>3, <2>4 DEF AnswersBelongToQuestion
<1> QED
  BY <1>1, Invariant, PTL

\* The one object URL is that of the icon shown, and no handle, key or bio is left
\* without a session: leaving a page, clearing the identity and loading the
\* document again take away what belongs to them.
THEOREM NothingIsLeft == Spec => []NothingLeftBehind
<1>1. IInv => NothingLeftBehind
  BY DEF IInv, WhoInv, UrlsOf, NothingLeftBehind
<1> QED
  BY <1>1, Invariant, PTL

--------------------------------------------------------------------------------
(* What a text or a list keeps: facts about Filtered, by induction on its length *)

\* Induction over the natural numbers, about a set rather than a predicate.
LEMMA CountingUp ==
  ASSUME NEW T, 0 \in T, \A n \in Nat : n \in T => n + 1 \in T
  PROVE  Nat \subseteq T
<1> DEFINE R == OpToRel(<, Nat)
           missed == Nat \ T
<1> SUFFICES ASSUME missed # {} PROVE FALSE
  OBVIOUS
<1>1. IsWellFoundedOn(R, Nat)
  BY NatLessThanWellFounded, Zenon
<1>2. \A x, y \in Nat : y < x => <<y, x>> \in R
  BY Zenon DEF OpToRel
<1>3. missed \subseteq Nat
  OBVIOUS
<1> HIDE DEF R, missed
<1>4. PICK x \in missed : \A y \in missed : <<y, x>> \notin R
  BY <1>1, <1>3, WFMin
<1>5. x \in Nat /\ x # 0 /\ x \notin T
  BY <1>4 DEF missed
<1>6. x - 1 \in Nat /\ x - 1 < x /\ (x - 1) + 1 = x
  BY <1>5
<1>7. x - 1 \in missed
  BY <1>5, <1>6 DEF missed
<1>8. <<x - 1, x>> \in R
  BY <1>2, <1>5, <1>6
<1> QED
  BY <1>4, <1>7, <1>8

\* f holds what Filtered has kept of the first n elements.
Keeps(s, keep, n, f) ==
  f = [i \in 0..n |->
         IF i = 0 THEN <<>>
         ELSE IF s[i] \in keep THEN Append(f[i - 1], s[i]) ELSE f[i - 1]]

\* The recursion of Filtered has a solution.
LEMMA FilteredIsDefined ==
  ASSUME NEW s, NEW keep
  PROVE  \A n \in Nat : \E f : Keeps(s, keep, n, f)
<1> DEFINE T == {n \in Nat : \E f : Keeps(s, keep, n, f)}
<1>1. 0 \in T
  <2> DEFINE f == [i \in 0..0 |-> <<>>]
  <2>1. Keeps(s, keep, 0, f)
    BY DEF Keeps
  <2> QED
    BY <2>1
<1>2. ASSUME NEW n \in Nat, n \in T PROVE n + 1 \in T
  <2>1. PICK g : Keeps(s, keep, n, g)
    BY <1>2
  <2> DEFINE last == IF s[n + 1] \in keep THEN Append(g[n], s[n + 1]) ELSE g[n]
             f == [i \in 0..(n + 1) |-> IF i = n + 1 THEN last ELSE g[i]]
  <2>2. \A i \in 0..n : f[i] = g[i]
    OBVIOUS
  <2>3. f[n + 1] = last
    OBVIOUS
  <2>4. \A i \in 0..(n + 1) :
          f[i] = IF i = 0 THEN <<>>
                 ELSE IF s[i] \in keep THEN Append(f[i - 1], s[i]) ELSE f[i - 1]
    <3> SUFFICES ASSUME NEW i \in 0..(n + 1)
                 PROVE  f[i] = IF i = 0 THEN <<>>
                               ELSE IF s[i] \in keep THEN Append(f[i - 1], s[i]) ELSE f[i - 1]
      OBVIOUS
    <3>1. CASE i = n + 1
      <4>1. i # 0 /\ i - 1 = n /\ n \in 0..n
        BY <3>1
      <4> HIDE DEF f
      <4> QED
        BY <2>2, <2>3, <3>1, <4>1
    <3>2. CASE i # n + 1
      <4>1. i \in 0..n /\ (i # 0 => i - 1 \in 0..n)
        BY <3>2
      <4>2. g[i] = IF i = 0 THEN <<>>
                   ELSE IF s[i] \in keep THEN Append(g[i - 1], s[i]) ELSE g[i - 1]
        BY <2>1, <4>1 DEF Keeps
      <4> HIDE DEF f
      <4> QED
        BY <2>2, <4>1, <4>2
    <3> QED
      BY <3>1, <3>2
  <2>5. f = [i \in 0..(n + 1) |-> f[i]]
    OBVIOUS
  <2>6. Keeps(s, keep, n + 1, f)
    <3> HIDE DEF f
    <3> QED
      BY <2>4, <2>5 DEF Keeps
  <2> QED
    BY <2>6
<1>3. Nat \subseteq T
  <2> HIDE DEF T
  <2> QED
    BY <1>1, <1>2, CountingUp
<1> QED
  BY <1>3

\* Hence Filtered counts up as its definition says.
LEMMA FilteredCountsUp ==
  ASSUME NEW S, NEW s \in Seq(S), NEW keep
  PROVE  \E f : /\ f[0] = <<>> /\ Filtered(s, keep) = f[Len(s)]
               /\ \A n \in Nat : n + 1 <= Len(s) =>
                    f[n + 1] = IF s[n + 1] \in keep THEN Append(f[n], s[n + 1]) ELSE f[n]
<1> DEFINE f == CHOOSE g : Keeps(s, keep, Len(s), g)
<1>1. Keeps(s, keep, Len(s), f)
  BY FilteredIsDefined
<1>2. Filtered(s, keep) = f[Len(s)]
  BY Zenon DEF Filtered, Keeps
<1> HIDE DEF f
<1>3. \A i \in 0..Len(s) :
        f[i] = IF i = 0 THEN <<>>
               ELSE IF s[i] \in keep THEN Append(f[i - 1], s[i]) ELSE f[i - 1]
  BY <1>1 DEF Keeps
<1>4. ASSUME NEW n \in Nat, n + 1 <= Len(s)
      PROVE  f[n + 1] = IF s[n + 1] \in keep THEN Append(f[n], s[n + 1]) ELSE f[n]
  <2>1. n + 1 \in 0..Len(s) /\ n + 1 # 0 /\ (n + 1) - 1 = n
    BY <1>4
  <2> QED
    BY <1>3, <2>1, Zenon
<1>5. f[0] = <<>>
  BY <1>3
<1> QED
  BY <1>2, <1>4, <1>5

\* What is kept is in keep, and no longer than what it was kept of.
LEMMA FilteredIsKept ==
  ASSUME NEW S, NEW s \in Seq(S), NEW keep
  PROVE  Filtered(s, keep) \in Seq(S \cap keep) /\ Len(Filtered(s, keep)) <= Len(s)
<1>1. PICK f : /\ f[0] = <<>> /\ Filtered(s, keep) = f[Len(s)]
               /\ \A n \in Nat : n + 1 <= Len(s) =>
                    f[n + 1] = IF s[n + 1] \in keep THEN Append(f[n], s[n + 1]) ELSE f[n]
  BY FilteredCountsUp
<1> DEFINE T == {n \in Nat : n <= Len(s) => f[n] \in Seq(S \cap keep) /\ Len(f[n]) <= n}
<1>2. 0 \in T
  <2>1. <<>> \in Seq(S \cap keep) /\ Len(<<>>) <= 0
    OBVIOUS
  <2>2. f[0] \in Seq(S \cap keep) /\ Len(f[0]) <= 0
    BY <1>1, <2>1, Zenon
  <2> QED
    BY <2>2
<1>3. ASSUME NEW n \in Nat, n \in T PROVE n + 1 \in T
  <2> SUFFICES ASSUME n + 1 <= Len(s)
               PROVE  f[n + 1] \in Seq(S \cap keep) /\ Len(f[n + 1]) <= n + 1
    OBVIOUS
  <2>1. f[n] \in Seq(S \cap keep) /\ Len(f[n]) <= n
    BY <1>3
  <2>2. f[n + 1] = IF s[n + 1] \in keep THEN Append(f[n], s[n + 1]) ELSE f[n]
    BY <1>1
  <2>3. s[n + 1] \in S
    OBVIOUS
  <2> QED
    BY <2>1, <2>2, <2>3
<1>4. Nat \subseteq T
  <2> HIDE DEF T
  <2> QED
    BY <1>2, <1>3, CountingUp
<1>5. Len(s) \in Nat /\ Len(s) \in T
  BY <1>4
<1> QED
  BY <1>1, <1>5

\* Where all are in keep, all are kept.
LEMMA FilteredKeepsAll ==
  ASSUME NEW S, NEW s \in Seq(S), NEW keep, \A i \in 1..Len(s) : s[i] \in keep
  PROVE  Filtered(s, keep) = s
<1>1. PICK f : /\ f[0] = <<>> /\ Filtered(s, keep) = f[Len(s)]
               /\ \A n \in Nat : n + 1 <= Len(s) =>
                    f[n + 1] = IF s[n + 1] \in keep THEN Append(f[n], s[n + 1]) ELSE f[n]
  BY FilteredCountsUp
<1> DEFINE T == {n \in Nat : n <= Len(s) => f[n] = SubSeq(s, 1, n)}
<1>2. 0 \in T
  <2>1. SubSeq(s, 1, 0) = <<>>
    OBVIOUS
  <2> QED
    BY <1>1, <2>1
<1>3. ASSUME NEW n \in Nat, n \in T PROVE n + 1 \in T
  <2> SUFFICES ASSUME n + 1 <= Len(s) PROVE f[n + 1] = SubSeq(s, 1, n + 1)
    OBVIOUS
  <2>1. f[n] = SubSeq(s, 1, n)
    BY <1>3
  <2>2. f[n + 1] = IF s[n + 1] \in keep THEN Append(f[n], s[n + 1]) ELSE f[n]
    BY <1>1
  <2>3. s[n + 1] \in keep
    OBVIOUS
  <2>4. Append(SubSeq(s, 1, n), s[n + 1]) = SubSeq(s, 1, n + 1)
    BY SMTT(60)
  <2> QED
    BY <2>1, <2>2, <2>3, <2>4
<1>4. Nat \subseteq T
  <2> HIDE DEF T
  <2> QED
    BY <1>2, <1>3, CountingUp
<1>5. Len(s) \in Nat /\ Len(s) \in T
  BY <1>4
<1>6. SubSeq(s, 1, Len(s)) = s
  OBVIOUS
<1> QED
  BY <1>1, <1>5, <1>6

--------------------------------------------------------------------------------
(* The settings *)

\* What the dialog accepts, and normalizeSettings leaves as it is but for the endpoints.
SeedsKept == {text \in Seq(HexDigits) : Len(text) <= SEED_CHARS}
PicturesKept ==
  {p \in {NoPicture} \cup Pictures \cup {s.profileAvatarDataUrl : s \in StoredBefore} :
     PictureOf(p) = p}

AcceptedSettings ==
  [ coreEndpoints : Seq(Urls), colorMode : ColorModes, backgroundEnabled : BOOLEAN,
    backgroundPreset : BackgroundPresets, methodsDevEd25519SeedHex : SeedsKept,
    profileAvatarDataUrl : PicturesKept ]

Endpointed(s) == [s EXCEPT !.coreEndpoints = migrateCoreEndpoints(UsableEndpoints(@))]

SettingsInv ==
  /\ settings \in AcceptedSettings
  /\ \/ saved = <<>>
     \/ saved = <<saved[1]>> /\ saved[1] \in StoredBefore \cup AcceptedSettings
  /\ reads \subseteq {p \in Pictures : StartsReading(p)}
  /\ panel.listbox = Closed \/ \E i \in DOMAIN Presets : panel.listbox = <<i>>
  /\ written => Loaded = Endpointed(settings)

\* A seed is digits, as many as a seed has at most.
LEMMA SeedsAreKept ==
  ASSUME NEW text \in Seq(STRING)
  PROVE  SeedText(text) \in SeedsKept
<1> DEFINE bare == IF IsPrefix(<<"0", "x">>, text) THEN SubSeq(text, 3, Len(text)) ELSE text
           hex  == Filtered(bare, HexDigits)
           n    == IF Len(hex) < SEED_CHARS THEN Len(hex) ELSE SEED_CHARS
<1>1. bare \in Seq(STRING)
  <2>1. IsPrefix(<<"0", "x">>, text) => 2 <= Len(text)
    BY DEF IsPrefix
  <2>2. 2 <= Len(text) => SubSeq(text, 3, Len(text)) \in Seq(STRING)
    OBVIOUS
  <2> QED
    BY <2>1, <2>2, Zenon
<1>2. hex \in Seq(STRING \cap HexDigits)
  <2> HIDE DEF bare
  <2> QED
    BY <1>1, FilteredIsKept
<1>4. SeedText(text) = SubSeq(hex, 1, n)
  BY DEF SeedText
<1> HIDE DEF bare, hex
<1>5. hex \in Seq(HexDigits)
  BY <1>2
<1>6. n \in Nat /\ n <= Len(hex) /\ n <= SEED_CHARS
  BY <1>5, SeedAssumption
<1> HIDE DEF n
<1>7. SubSeq(hex, 1, n) \in Seq(HexDigits) /\ Len(SubSeq(hex, 1, n)) = n
  BY <1>5, <1>6
<1> QED
  BY <1>4, <1>6, <1>7 DEF SeedsKept

\* Such a text is a seed as it stands: it has no 0x in front of it.
LEMMA SeedsStay ==
  ASSUME NEW text \in SeedsKept
  PROVE  SeedText(text) = text
<1>1. text \in Seq(HexDigits) /\ Len(text) <= SEED_CHARS /\ Len(text) \in Nat
  BY DEF SeedsKept
<1>2. ~ IsPrefix(<<"0", "x">>, text)
  <2> SUFFICES ASSUME IsPrefix(<<"0", "x">>, text) PROVE FALSE
    OBVIOUS
  <2>1. 2 <= Len(text) /\ text[2] = "x"
    BY <1>1 DEF IsPrefix
  <2>2. text[2] \in HexDigits
    BY <1>1, <2>1
  <2> QED
    BY <2>1, <2>2 DEF HexDigits
<1>3. Filtered(text, HexDigits) = text
  BY <1>1, FilteredKeepsAll
<1>4. SubSeq(text, 1, Len(text)) = text
  BY <1>1
<1>5. (IF Len(text) < SEED_CHARS THEN Len(text) ELSE SEED_CHARS) = Len(text)
  BY <1>1, SeedAssumption
<1> QED
  BY <1>2, <1>3, <1>4, <1>5, Zenon DEF SeedText

\* Endpoints are usable and migrated once and for all.
LEMMA EndpointsStay ==
  ASSUME NEW S, DEFAULT_CORE_ENDPOINT \in S, NEW list \in Seq(S)
  PROVE  /\ migrateCoreEndpoints(UsableEndpoints(list)) \in Seq(S)
         /\ LET once == migrateCoreEndpoints(UsableEndpoints(list))
            IN  migrateCoreEndpoints(UsableEndpoints(once)) = once
<1> DEFINE filled == Filtered(list, ToSet(list) \ {Spaces})
           usable == UsableEndpoints(list)
           once   == migrateCoreEndpoints(usable)
<1>1. filled \in Seq(S \ {Spaces})
  <2>1. filled \in Seq(S \cap (ToSet(list) \ {Spaces}))
    BY FilteredIsKept
  <2> HIDE DEF filled
  <2> QED
    BY <2>1
<1>2. usable \in Seq(S \ {Spaces}) /\ usable # <<>>
  <2>1. <<DEFAULT_CORE_ENDPOINT>> \in Seq(S \ {Spaces}) /\ <<DEFAULT_CORE_ENDPOINT>> # <<>>
    <3>1. DEFAULT_CORE_ENDPOINT \in S \ {Spaces}
      BY DEF DEFAULT_CORE_ENDPOINT, Spaces
    <3> QED
      BY <3>1
  <2>2. usable = IF filled = <<>> THEN <<DEFAULT_CORE_ENDPOINT>> ELSE filled
    BY DEF UsableEndpoints, DEFAULT_SETTINGS
  <2> HIDE DEF filled, usable
  <2> QED
    BY <1>1, <2>1, <2>2
<1> HIDE DEF filled, usable
<1>3. /\ once \in Seq(S \ {Spaces}) /\ once # <<>> /\ DOMAIN once = DOMAIN usable
      /\ \A i \in DOMAIN once : once[i] # LEGACY_HTTP_CORE_ENDPOINT
  <2>1. once = [i \in 1..Len(usable) |->
                  IF usable[i] = LEGACY_HTTP_CORE_ENDPOINT THEN DEFAULT_CORE_ENDPOINT
                  ELSE usable[i]]
    BY <1>2 DEF migrateCoreEndpoints
  <2>2. /\ DEFAULT_CORE_ENDPOINT \in S \ {Spaces}
        /\ DEFAULT_CORE_ENDPOINT # LEGACY_HTTP_CORE_ENDPOINT
    BY DEF DEFAULT_CORE_ENDPOINT, LEGACY_HTTP_CORE_ENDPOINT, Spaces
  <2>3. Len(usable) \in Nat \ {0} /\ \A i \in 1..Len(usable) : usable[i] \in S \ {Spaces}
    BY <1>2
  <2> HIDE DEF once
  <2>4. once \in [1..Len(usable) -> S \ {Spaces}]
    BY <2>1, <2>2, <2>3
  <2>5. DOMAIN once = 1..Len(usable) /\ DOMAIN usable = 1..Len(usable)
    BY <1>2, <2>1
  <2>6. once \in Seq(S \ {Spaces})
    BY <2>3, <2>4
  <2>7. \A i \in DOMAIN once : once[i] # LEGACY_HTTP_CORE_ENDPOINT
    BY <2>1, <2>2, <2>5
  <2>8. once # <<>>
    BY <2>3, <2>5, <2>6
  <2> QED
    BY <2>5, <2>6, <2>7, <2>8
<1>4. migrateCoreEndpoints(once) = once
  <2> HIDE DEF once
  <2>1. once = [i \in DOMAIN once |-> once[i]]
    BY <1>3
  <2> QED
    BY <1>3, <2>1 DEF migrateCoreEndpoints
<1> HIDE DEF once
<1>5. UsableEndpoints(once) = once
  <2>1. once \in Seq(S) /\ \A i \in 1..Len(once) : once[i] \in ToSet(once) \ {Spaces}
    BY <1>3 DEF ToSet
  <2>2. Filtered(once, ToSet(once) \ {Spaces}) = once
    BY <2>1, FilteredKeepsAll
  <2> QED
    BY <1>3, <2>2 DEF UsableEndpoints
<1> QED
  BY <1>3, <1>4, <1>5 DEF once, usable

\* What is read from storage is something the dialog accepts.
LEMMA ReadIsAccepted ==
  ASSUME NEW s \in StoredBefore \cup AcceptedSettings
  PROVE  normalizeSettings(s) \in AcceptedSettings
<1>1. /\ s.coreEndpoints \in Seq(Urls) /\ s.backgroundEnabled \in BOOLEAN
      /\ SeedText(s.methodsDevEd25519SeedHex) \in SeedsKept
  BY StorageAssumption, SeedsAreKept, SeedsStay DEF AcceptedSettings
<1>2. migrateCoreEndpoints(UsableEndpoints(s.coreEndpoints)) \in Seq(Urls)
  BY <1>1, EndpointsStay DEF Urls
<1>3. ColorModeOf(s.colorMode) \in ColorModes
  BY DEF ColorModeOf, ColorModes
<1>4. PresetOf(s.backgroundPreset) \in BackgroundPresets
  BY DEF PresetOf, BackgroundPresets, DEFAULT_SETTINGS
<1>5. PictureOf(s.profileAvatarDataUrl) \in PicturesKept
  BY DEF PictureOf, PicturesKept, AcceptedSettings
<1> QED
  BY <1>1, <1>2, <1>3, <1>4, <1>5 DEF normalizeSettings, AcceptedSettings

\* It is read back as it was, but for the endpoints.
LEMMA AcceptedIsReadBack ==
  ASSUME NEW s \in AcceptedSettings
  PROVE  normalizeSettings(s) = Endpointed(s)
<1>1. SeedText(s.methodsDevEd25519SeedHex) = s.methodsDevEd25519SeedHex
  BY SeedsStay DEF AcceptedSettings
<1>2. ColorModeOf(s.colorMode) = s.colorMode
  BY DEF ColorModeOf, ColorModes, AcceptedSettings
<1>3. PresetOf(s.backgroundPreset) = s.backgroundPreset
  BY DEF PresetOf, BackgroundPresets, AcceptedSettings
<1>4. PictureOf(s.profileAvatarDataUrl) = s.profileAvatarDataUrl
  BY DEF PicturesKept, AcceptedSettings
<1> QED
  BY <1>1, <1>2, <1>3, <1>4 DEF normalizeSettings, Endpointed, AcceptedSettings

\* What was just read has its endpoints as they will be read.
LEMMA ReadOnce ==
  ASSUME NEW s \in StoredBefore \cup AcceptedSettings
  PROVE  Endpointed(normalizeSettings(s)) = normalizeSettings(s)
<1> DEFINE t == normalizeSettings(s)
<1>1. s.coreEndpoints \in Seq(Urls)
  BY StorageAssumption DEF AcceptedSettings
<1>2. t.coreEndpoints = migrateCoreEndpoints(UsableEndpoints(s.coreEndpoints))
  BY DEF normalizeSettings
<1>3. migrateCoreEndpoints(UsableEndpoints(t.coreEndpoints)) = t.coreEndpoints
  <2> HIDE DEF t
  <2> QED
    BY <1>1, <1>2, EndpointsStay DEF Urls
<1>4. t \in AcceptedSettings
  BY ReadIsAccepted
<1> HIDE DEF t
<1> QED
  BY <1>3, <1>4 DEF Endpointed, AcceptedSettings, t

LEMMA DefaultsAreAccepted ==
  DEFAULT_SETTINGS \in AcceptedSettings /\ Endpointed(DEFAULT_SETTINGS) = DEFAULT_SETTINGS
<1> DEFINE list == <<DEFAULT_CORE_ENDPOINT>>
<1>1. list \in Seq(Urls) /\ Len(list) = 1 /\ list[1] = DEFAULT_CORE_ENDPOINT /\ list # <<>>
  BY DEF Urls
<1>2. \A i \in 1..Len(list) : list[i] \in ToSet(list) \ {Spaces}
  <2>1. DEFAULT_CORE_ENDPOINT # Spaces
    BY DEF DEFAULT_CORE_ENDPOINT, Spaces
  <2>2. DOMAIN list = {1} /\ 1..Len(list) = {1}
    BY <1>1
  <2> HIDE DEF list
  <2> QED
    BY <1>1, <2>1, <2>2 DEF ToSet
<1>3. Filtered(list, ToSet(list) \ {Spaces}) = list
  BY <1>1, <1>2, FilteredKeepsAll
<1>4. UsableEndpoints(list) = list
  BY <1>1, <1>3, Zenon DEF UsableEndpoints
<1>5. migrateCoreEndpoints(list) = list
  BY DEF migrateCoreEndpoints, DEFAULT_CORE_ENDPOINT, LEGACY_HTTP_CORE_ENDPOINT
<1>6. <<>> \in SeedsKept
  BY SeedAssumption DEF SeedsKept
<1>7. NoPicture \in PicturesKept
  BY DEF PicturesKept, PictureOf
<1> HIDE DEF list
<1>8. /\ "dark" \in ColorModes /\ "fireflies" \in BackgroundPresets /\ TRUE \in BOOLEAN
      /\ DEFAULT_SETTINGS = [ coreEndpoints |-> list, colorMode |-> "dark",
            backgroundEnabled |-> TRUE, backgroundPreset |-> "fireflies",
            methodsDevEd25519SeedHex |-> <<>>, profileAvatarDataUrl |-> NoPicture ]
  BY DEF ColorModes, BackgroundPresets, DEFAULT_SETTINGS, list
<1>9. DEFAULT_SETTINGS \in AcceptedSettings
  BY <1>1, <1>6, <1>7, <1>8 DEF AcceptedSettings
<1>10. migrateCoreEndpoints(UsableEndpoints(DEFAULT_SETTINGS.coreEndpoints)) = DEFAULT_SETTINGS.coreEndpoints
  BY <1>4, <1>5, <1>8
<1> QED
  BY <1>8, <1>9, <1>10 DEF Endpointed

LEMMA LoadedIsAccepted ==
  ASSUME SettingsInv
  PROVE  Loaded \in AcceptedSettings /\ Endpointed(Loaded) = Loaded
<1> QED
  BY ReadIsAccepted, ReadOnce, DefaultsAreAccepted DEF SettingsInv, Loaded

\* Whether storage takes the change or refuses it.
LEMMA SaveKeeps ==
  ASSUME SettingsInv, NEW s \in AcceptedSettings, SetSettings(s),
         reads' \subseteq {p \in Pictures : StartsReading(p)},
         panel'.listbox = Closed \/ \E i \in DOMAIN Presets : panel'.listbox = <<i>>
  PROVE  SettingsInv'
<1>1. settings' = s
  BY DEF SetSettings
<1>2. CASE saved' = <<s>> /\ written' = TRUE
  <2>1. saved' # <<>> /\ saved'[1] = s
    BY <1>2
  <2>2. Loaded' = Endpointed(s)
    BY <2>1, AcceptedIsReadBack DEF Loaded
  <2> QED
    BY <1>1, <1>2, <2>1, <2>2 DEF SettingsInv
<1>3. CASE saved' = saved /\ written' = FALSE
  BY <1>1, <1>3 DEF SettingsInv
<1> QED
  BY <1>2, <1>3 DEF SetSettings, Save

LEMMA ShellStarts == ShellInit => SettingsInv
<1> SUFFICES ASSUME ShellInit PROVE SettingsInv
  OBVIOUS
<1>1. \/ saved = <<>>
      \/ saved = <<saved[1]>> /\ saved[1] \in StoredBefore
  BY DEF ShellInit
<1>2. Loaded \in AcceptedSettings /\ Endpointed(Loaded) = Loaded
  BY <1>1, ReadIsAccepted, ReadOnce, DefaultsAreAccepted DEF Loaded
<1>3. panel.listbox = Closed /\ reads = {} /\ settings = Loaded
  BY DEF ShellInit, Panel
<1> QED
  BY <1>1, <1>2, <1>3 DEF SettingsInv

LEMMA LoadKeeps ==
  ASSUME SettingsInv, LoadShell
  PROVE  SettingsInv'
<1>1. Loaded \in AcceptedSettings /\ Endpointed(Loaded) = Loaded
  BY LoadedIsAccepted
<1>2. settings' = Loaded /\ panel'.listbox = Closed /\ reads' = {}
  BY DEF LoadShell, Panel
<1>3. CASE Save(Loaded)
  BY <1>1, <1>2, <1>3, SaveKeeps DEF SetSettings
<1>4. CASE saved' = saved /\ written' = TRUE
  <2>1. Loaded' = Loaded
    BY <1>4 DEF Loaded
  <2> QED
    BY <1>1, <1>2, <1>4, <2>1 DEF SettingsInv
<1> QED
  BY <1>3, <1>4 DEF LoadShell

\* The first position of an option is a position: that of the selected background, or 1.
LEMMA IndexIsOffered == \A preset : Index(preset) \in DOMAIN Presets
<1> SUFFICES ASSUME NEW preset PROVE Index(preset) \in DOMAIN Presets
  OBVIOUS
<1> DEFINE at == {i \in DOMAIN Presets : Presets[i] = preset}
           below == {n \in Nat : \A i \in at : n <= i}
<1>1. DOMAIN Presets = 1..Len(Presets) /\ Len(Presets) \in Nat \ {0}
  BY ShellAssumption
<1>2. CASE at = {}
  <2>1. Index(preset) = 1
    BY <1>2 DEF Index
  <2> QED
    BY <1>1, <2>1
<1>3. CASE at # {}
  <2>1. \E i \in at : \A j \in at : i <= j
    <3>1. at \subseteq Nat /\ 0 \in below
      BY <1>1
    <3>2. PICK k \in at : k \in Nat
      BY <1>3, <3>1
    <3>3. k + 1 \notin below
      BY <3>2
    <3>4. ~ \A n \in Nat : n \in below => n + 1 \in below
      <4> SUFFICES ASSUME \A n \in Nat : n \in below => n + 1 \in below PROVE FALSE
        OBVIOUS
      <4>1. Nat \subseteq below
        <5> HIDE DEF below
        <5> QED
          BY <3>1, CountingUp
      <4> QED
        BY <3>2, <3>3, <4>1
    <3>5. PICK n \in Nat : n \in below /\ n + 1 \notin below
      BY <3>4
    <3>6. PICK i \in at : ~ (n + 1 <= i)
      BY <3>5
    <3>7. i = n
      BY <3>1, <3>5, <3>6
    <3> QED
      BY <3>5, <3>7
  <2>2. Index(preset) = CHOOSE i \in at : \A j \in at : i <= j
    BY <1>3 DEF Index
  <2>3. Index(preset) \in at
    <3> HIDE DEF at
    <3> QED
      BY <2>1, <2>2
  <2> QED
    BY <2>3
<1> QED
  BY <1>2, <1>3

\* An endpoint is added, edited or removed.
LEMMA EditedEndpoints ==
  ASSUME NEW list \in Seq(Urls)
  PROVE  /\ Appended(list) \in Seq(Urls)
         /\ \A i \in DOMAIN list : Without(list, i) \in Seq(Urls)
         /\ \A i \in DOMAIN list, url \in Endpoints : Replaced(list, i, url) \in Seq(Urls)
<1>1. Appended(list) \in Seq(Urls)
  BY DEF Appended, Urls
<1>2. ASSUME NEW i \in DOMAIN list PROVE Without(list, i) \in Seq(Urls)
  <2>1. i \in 1..Len(list)
    OBVIOUS
  <2>2. SubSeq(list, 1, i - 1) \in Seq(Urls) /\ SubSeq(list, i + 1, Len(list)) \in Seq(Urls)
    BY <2>1
  <2> QED
    BY <2>2 DEF Without, RemoveAt
<1>3. ASSUME NEW i \in DOMAIN list, NEW url \in Endpoints
      PROVE  Replaced(list, i, url) \in Seq(Urls)
  <2>1. url \in Urls
    BY DEF Urls
  <2> QED
    BY <2>1 DEF Replaced
<1> QED
  BY <1>1, <1>2, <1>3

\* A picture that the dialog reads is one that normalizeSettings keeps.
LEMMA PicturesFit ==
  ASSUME NEW p \in Pictures, StartsReading(p), IsTaken(p)
  PROVE  p \in PicturesKept
<1>1. p.bytes \in Nat /\ p.bytes <= 262144
  <2>1. p.bytes \in Nat /\ p.bytes <= PROFILE_IMAGE_MAX_BYTES
    BY ShellAssumption DEF StartsReading
  <2> QED
    BY SMT, <2>1 DEF PROFILE_IMAGE_MAX_BYTES
<1>2. (p.bytes + 2) \div 3 <= 87383
  BY SMT, <1>1
<1>3. (p.bytes + 2) \div 3 \in Nat
  BY SMT, <1>1
<1>4. DataUrlChars(p) <= PROFILE_AVATAR_DATA_URL_MAX_CHARS
  BY SMT, <1>2, <1>3 DEF DataUrlChars, PROFILE_AVATAR_DATA_URL_MAX_CHARS
<1>5. p # NoPicture
  <2>1. NoPicture.type = "none"
    BY DEF NoPicture, Picture
  <2> QED
    BY <2>1 DEF IsTaken, MimeAllowed
<1> QED
  BY <1>4, <1>5 DEF PicturesKept, PictureOf

\* The panel moves and the settings stay.
LEMMA PanelKeeps ==
  ASSUME SettingsInv, UNCHANGED <<settings, saved, written>>,
         reads' \subseteq {p \in Pictures : StartsReading(p)},
         panel'.listbox = Closed \/ \E i \in DOMAIN Presets : panel'.listbox = <<i>>
  PROVE  SettingsInv'
<1>1. Loaded' = Loaded
  BY DEF Loaded
<1> QED
  BY <1>1 DEF SettingsInv

\* The settings are replaced and the panel stays.
LEMMA ChangeKeeps ==
  ASSUME SettingsInv, NEW s \in AcceptedSettings, Changed(s)
  PROVE  SettingsInv'
<1> QED
  BY SaveKeeps DEF Changed, SettingsInv

LEMMA StepShell ==
  ASSUME SettingsInv, ShellNext
  PROVE  SettingsInv'
<1>1. /\ settings \in AcceptedSettings /\ settings.coreEndpoints \in Seq(Urls)
      /\ reads \subseteq {p \in Pictures : StartsReading(p)}
      /\ panel.listbox = Closed \/ \E i \in DOMAIN Presets : panel.listbox = <<i>>
  BY DEF SettingsInv, AcceptedSettings
<1>2. CASE BellPressed \/ GearPressed \/ CloseNotifications
  <2>1. panel'.listbox = panel.listbox /\ UNCHANGED <<settings, saved, written, reads>>
    BY <1>2 DEF BellPressed, GearPressed, CloseNotifications, Shown, Panel
  <2> QED
    BY <1>1, <2>1, PanelKeeps
<1>3. CASE CloseSettings
  <2>1. /\ panel'.listbox = Closed \/ panel'.listbox = panel.listbox
        /\ UNCHANGED <<settings, saved, written, reads>>
    BY <1>3 DEF CloseSettings, Panel
  <2> QED
    BY <1>1, <2>1, PanelKeeps
<1>4. ASSUME NEW tab \in Tabs, ChooseTab(tab) PROVE SettingsInv'
  <2>1. panel'.listbox = Closed /\ UNCHANGED <<settings, saved, written, reads>>
    BY <1>4 DEF ChooseTab, Panel
  <2> QED
    BY <1>1, <2>1, PanelKeeps
<1>5. CASE OpenListbox \/ CloseListbox \/ \E i \in DOMAIN Presets : Highlight(i)
  <2>1. /\ panel'.listbox = Closed \/ \E i \in DOMAIN Presets : panel'.listbox = <<i>>
        /\ UNCHANGED <<settings, saved, written, reads>>
    BY <1>5, IndexIsOffered DEF OpenListbox, CloseListbox, Highlight, WithListbox, Panel
  <2> QED
    BY <1>1, <2>1, PanelKeeps
<1>6. CASE AddEndpoint
  <2>1. [settings EXCEPT !.coreEndpoints = Appended(@)] \in AcceptedSettings
    BY <1>1, EditedEndpoints DEF AcceptedSettings
  <2> QED
    BY <1>6, <2>1, ChangeKeeps DEF AddEndpoint
<1>7. ASSUME NEW i, NEW url \in Endpoints, SetEndpoint(i, url) PROVE SettingsInv'
  <2>1. i \in DOMAIN settings.coreEndpoints
    BY <1>7 DEF SetEndpoint
  <2>2. [settings EXCEPT !.coreEndpoints = Replaced(@, i, url)] \in AcceptedSettings
    BY <1>1, <2>1, EditedEndpoints DEF AcceptedSettings
  <2> QED
    BY <1>7, <2>2, ChangeKeeps DEF SetEndpoint
<1>8. ASSUME NEW i, RemoveEndpoint(i) PROVE SettingsInv'
  <2>1. i \in DOMAIN settings.coreEndpoints
    BY <1>8 DEF RemoveEndpoint
  <2>2. [settings EXCEPT !.coreEndpoints = Without(@, i)] \in AcceptedSettings
    BY <1>1, <2>1, EditedEndpoints DEF AcceptedSettings
  <2> QED
    BY <1>8, <2>2, ChangeKeeps DEF RemoveEndpoint
<1>9. CASE ToggleTheme
  <2>1. [settings EXCEPT !.colorMode = IF @ = "dark" THEN "light" ELSE "dark"] \in AcceptedSettings
    BY <1>1 DEF AcceptedSettings, ColorModes
  <2> QED
    BY <1>9, <2>1, ChangeKeeps DEF ToggleTheme
<1>10. CASE ToggleBackground
  <2>1. [settings EXCEPT !.backgroundEnabled = ~ @] \in AcceptedSettings
    BY <1>1 DEF AcceptedSettings
  <2> QED
    BY <1>10, <2>1, ChangeKeeps DEF ToggleBackground
<1>11. ASSUME NEW text \in Seeds, TypeSeed(text) PROVE SettingsInv'
  <2>1. SeedText(text) \in SeedsKept
    BY ShellAssumption, SeedsAreKept
  <2>2. [settings EXCEPT !.methodsDevEd25519SeedHex = SeedText(text)] \in AcceptedSettings
    BY <1>1, <2>1 DEF AcceptedSettings
  <2> QED
    BY <1>11, <2>2, ChangeKeeps DEF TypeSeed
<1>12. CASE RemovePicture
  <2>1. NoPicture \in PicturesKept
    BY DEF PicturesKept, PictureOf
  <2>2. [settings EXCEPT !.profileAvatarDataUrl = NoPicture] \in AcceptedSettings
    BY <1>1, <2>1 DEF AcceptedSettings
  <2> QED
    BY <1>12, <2>2, ChangeKeeps DEF RemovePicture
<1>13. ASSUME NEW p \in Pictures, PickPicture(p) PROVE SettingsInv'
  <2>1. reads' \subseteq {q \in Pictures : StartsReading(q)}
    BY <1>1, <1>13 DEF PickPicture
  <2>2. UNCHANGED <<settings, saved, written, panel>>
    BY <1>13 DEF PickPicture
  <2> QED
    BY <1>1, <2>1, <2>2, PanelKeeps
<1>14. ASSUME NEW p \in Pictures, PictureRead(p) PROVE SettingsInv'
  <2>1. /\ StartsReading(p) /\ panel' = panel
        /\ reads' \subseteq {q \in Pictures : StartsReading(q)}
    BY <1>1, <1>14 DEF PictureRead
  <2>2. CASE IsTaken(p)
    <3>1. p \in PicturesKept
      BY <2>1, <2>2, PicturesFit
    <3>2. [settings EXCEPT !.profileAvatarDataUrl = p] \in AcceptedSettings
      BY <1>1, <3>1 DEF AcceptedSettings
    <3> QED
      BY <1>1, <1>14, <2>1, <2>2, <3>2, SaveKeeps DEF PictureRead
  <2>3. CASE ~ IsTaken(p)
    BY <1>1, <1>14, <2>1, <2>3, PanelKeeps DEF PictureRead
  <2> QED
    BY <2>2, <2>3
<1>15. CASE CommitPreset
  <2>1. PICK i \in DOMAIN Presets : panel.listbox = <<i>>
    BY <1>1, <1>15 DEF CommitPreset
  <2>2. Presets[panel.listbox[1]] \in BackgroundPresets
    BY <2>1, ShellAssumption
  <2>3. [settings EXCEPT !.backgroundPreset = Presets[panel.listbox[1]]] \in AcceptedSettings
    BY <1>1, <2>2 DEF AcceptedSettings
  <2>4. panel'.listbox = Closed /\ reads' = reads
    BY <1>15 DEF CommitPreset, Panel
  <2> QED
    BY <1>1, <1>15, <2>3, <2>4, SaveKeeps DEF CommitPreset
<1> QED
  BY <1>2, <1>3, <1>4, <1>5, <1>6, <1>7, <1>8, <1>9, <1>10, <1>11, <1>12, <1>13, <1>14, <1>15
     DEF ShellNext

\* The events of the pages leave the shell alone.
LEMMA PagesKeepShell ==
  ASSUME \/ \E route \in RoutesOf(app) : Go(route)
         \/ \E to \in DOMAIN NETWORK_MODULES : Explore(to)
         \/ SignIn \/ LearnMore \/ Register \/ EditProfile \/ Ask \/ Publish
  PROVE  UNCHANGED shellVars
<1>1. CASE Register
  BY <1>1 DEF Register, ClaimEvent, ClaimHandle, OrgEvent, RegisterOrg, RefreshIdentity,
              ToggleSwitch, NameEvent, OrgKeyEvent, SubmitName, SubmitOrg, OnPage
<1>2. CASE EditProfile
  BY <1>2 DEF EditProfile, PickPhoto, PhotoRead, ResetPhoto, ClearIdentity, StartBio, CancelBio,
              SaveBio, TypeBio, OnPage
<1>3. CASE Ask
  BY <1>3 DEF Ask, ResolvePause, TypeQuery, AnimationFrame, InspectModule, OnPage
<1>4. CASE Publish
  BY <1>4 DEF Publish, EditIdentity, EditMoney, EditTopology, EditTerms, EditField, ChooseRating,
              ChooseMoney, ChooseTosView, AttachArchive, RequestCertification, ToggleDocs, Submit,
              ChooseIcon, FormShown, OnPage
<1>5. CASE \/ \E route \in RoutesOf(app) : Go(route)
           \/ \E to \in DOMAIN NETWORK_MODULES : Explore(to)
           \/ SignIn \/ LearnMore
  BY <1>5 DEF Go, Explore, SignIn, LearnMore, OnPage
<1> QED
  BY <1>1, <1>2, <1>3, <1>4, <1>5

\* No page changes the settings; a link of the settings closes them, a reload reads them.
LEMMA SettingsKept == SettingsInv /\ [Next]_vars => SettingsInv'
<1> SUFFICES ASSUME SettingsInv, [Next]_vars PROVE SettingsInv'
  OBVIOUS
<1>1. ASSUME UNCHANGED shellVars PROVE SettingsInv'
  <2>1. UNCHANGED <<settings, saved, written, panel, reads>>
    BY <1>1 DEF shellVars
  <2> QED
    BY <2>1, PanelKeeps DEF SettingsInv
<1>2. CASE SettingsLink
  <2>1. panel'.listbox = panel.listbox /\ UNCHANGED <<settings, saved, written, reads>>
    BY <1>2 DEF SettingsLink, Shown, Panel
  <2> QED
    BY <2>1, PanelKeeps DEF SettingsInv
<1>3. ASSUME NEW route, Reload(route) PROVE SettingsInv'
  BY <1>3, LoadKeeps DEF Reload
<1> QED
  BY <1>1, <1>2, <1>3, StepShell, PagesKeepShell DEF Next, Visit, vars

\* Loading the page again brings back the settings that were shown.
THEOREM SettingsSurvive == Spec => ReloadKeepsSettings
<1>1. Init => SettingsInv
  BY ShellStarts DEF Init
<1>2. SettingsInv /\ [Next]_vars =>
        [(\E route \in RoutesOf(app) : Reload(route)) /\ written =>
           settings' = [settings EXCEPT !.coreEndpoints = migrateCoreEndpoints(UsableEndpoints(@))]]_vars
  BY DEF SettingsInv, Reload, LoadShell, Endpointed
<1> QED
  BY <1>1, <1>2, SettingsKept, PTL DEF Spec, ReloadKeepsSettings

\* A settings object that was read and stored is read as it is: normalizeSettings
\* changes nothing a second time.
THEOREM NormalizedForGood ==
  ASSUME NEW s \in StoredBefore \cup AcceptedSettings
  PROVE  normalizeSettings(normalizeSettings(s)) = normalizeSettings(s)
<1>1. normalizeSettings(s) \in AcceptedSettings
  BY ReadIsAccepted
<1> QED
  BY <1>1, AcceptedIsReadBack, ReadOnce

--------------------------------------------------------------------------------
(* Quotes and figures *)

\* What the hash of a name adds to its price.
LEMMA Jitters ==
  ASSUME NEW n \in Nat \ {0}, NEW seed \in Nat
  PROVE  seed % n \in 0..(n - 1)
OBVIOUS

\* An amount within what a hash may add to the tier of a name of g graphemes.
InTier(g, cents) ==
  /\ cents \in Nat
  /\ g = 1 => 125310 <= cents
  /\ 2 <= g /\ g <= 3 => 62910 <= cents /\ cents < 125310
  /\ 4 <= g /\ g <= 5 => 31710 <= cents /\ cents < 62910
  /\ g > 5 => cents < 31710

LEMMA PricesAreInTiers ==
  ASSUME NEW g \in Nat \ {0}, NEW seed \in Nat
  PROVE  InTier(g, NameTotal(g, seed))
<1>1. seed % 19 \in 0..18 /\ seed % 60 \in 0..59 /\ seed % 90 \in 0..89
  BY Jitters
<1> QED
  BY SMT, <1>1 DEF InTier, NameTotal, nameLengthTierUsd, Jitter,
                   NAME_TIER_ONE, NAME_TIER_TWO, NAME_TIER_THREE

\* The tiers of nameLengthTierUsd stay apart whatever hashes add: a name of a shorter
\* tier costs more than any of a longer one.
THEOREM ShorterTiersCostMore ==
  \A g, h \in Nat \ {0}, s, t \in Nat :
    (g = 1 /\ h > 1) \/ (g <= 3 /\ h > 3) \/ (g <= 5 /\ h > 5)
      => NameTotal(g, s) > NameTotal(h, t)
<1> SUFFICES ASSUME NEW g \in Nat \ {0}, NEW h \in Nat \ {0}, NEW s \in Nat, NEW t \in Nat,
                    (g = 1 /\ h > 1) \/ (g <= 3 /\ h > 3) \/ (g <= 5 /\ h > 5)
             PROVE  NameTotal(g, s) > NameTotal(h, t)
  OBVIOUS
<1>1. InTier(g, NameTotal(g, s)) /\ InTier(h, NameTotal(h, t))
  BY PricesAreInTiers
<1> QED
  BY SMT, <1>1 DEF InTier

\* A percentage of up to 100 of a total is no more than the total, also when rounded.
LEMMA PercentsOfTotal ==
  ASSUME NEW total \in Nat, NEW percent \in Nat
  PROVE  Percent(total, percent) \in Nat /\ (percent <= 100 => Percent(total, percent) <= total)
<1> DEFINE part == total * percent
<1>1. part \in Nat
  OBVIOUS
<1>2. percent <= 100 => part <= 100 * total
  <2> SUFFICES ASSUME percent <= 100 PROVE part <= 100 * total
    OBVIOUS
  <2>1. PICK rest \in Nat : percent + rest = 100
    <3>1. 100 - percent \in Nat /\ percent + (100 - percent) = 100
      OBVIOUS
    <3> QED
      BY <3>1
  <2>2. total * (percent + rest) = total * percent + total * rest /\ total * rest \in Nat
    BY <2>1
  <2> QED
    BY <1>1, <2>1, <2>2
<1>3. Percent(total, percent) = (part + 50) \div 100
  BY DEF Percent
<1> HIDE DEF part
<1> QED
  BY SMT, <1>1, <1>2, <1>3

\* Three shares of a total of which the first is not more than all.
LEMMA SplitAddsUp ==
  ASSUME NEW total \in Nat, NEW first \in 0..total, NEW second \in Nat
  PROVE  LET mix == Split(total, first, second)
         IN  Total(mix) = total /\ \A i \in 1..3 : mix[i] \in 0..total
<1>1. CASE first + second <= total
  <2>1. Split(total, first, second) = <<first, second, total - first - second>>
    BY <1>1 DEF Split, Shares
  <2> QED
    BY <1>1, <2>1 DEF Total
<1>2. CASE ~ (first + second <= total)
  <2>1. Split(total, first, second) = <<first, total - first, 0>>
    BY <1>2 DEF Split, Shares
  <2> QED
    BY <2>1 DEF Total
<1> QED
  BY <1>1, <1>2

\* Both charts of the Inspector divide what they are drawn around: no share is negative
\* and the three are the total, also where rounding gives away more than there is.
THEOREM SharesAreOfTheTotal ==
  ASSUME NEW core \in BOOLEAN, NEW total \in Nat, NEW h \in Nat
  PROVE  \A mix \in {getMockUserTypeMix(core, total, h), getMockValidatorStatusMix(core, total, h)} :
           Total(mix) = total /\ \A i \in 1..3 : mix[i] \in 0..total
<1>1. /\ h % 28 \in 0..27 /\ h \div 16 \in Nat /\ (h \div 16) % 22 \in 0..21
      /\ h % 35 \in 0..34 /\ h \div 8 \in Nat /\ (h \div 8) % 28 \in 0..27
  BY SMT
<1>2. ASSUME NEW a \in 0..100, NEW b \in Nat
      PROVE  LET mix == Split(total, Percent(total, a), Percent(total, b))
             IN  Total(mix) = total /\ \A i \in 1..3 : mix[i] \in 0..total
  <2>1. Percent(total, a) \in 0..total /\ Percent(total, b) \in Nat
    <3>1. a \in Nat /\ a <= 100
      OBVIOUS
    <3>2. Percent(total, a) \in Nat /\ Percent(total, a) <= total
      BY <3>1, PercentsOfTotal
    <3>3. Percent(total, b) \in Nat
      BY PercentsOfTotal
    <3> QED
      BY <3>2, <3>3
  <2> QED
    BY <2>1, SplitAddsUp
<1>3. /\ 52 + (h % 28) \in 0..100 /\ 18 + ((h \div 16) % 22) \in Nat
      /\ 45 + (h % 35) \in 0..100 /\ 15 + ((h \div 8) % 28) \in Nat
  BY <1>1
<1> DEFINE Good(mix) == Total(mix) = total /\ \A i \in 1..3 : mix[i] \in 0..total
<1>4. \A a \in 0..100, b \in Nat : Good(Split(total, Percent(total, a), Percent(total, b)))
  BY <1>2
<1> HIDE DEF Good
<1>5. Good(getMockUserTypeMix(core, total, h))
  <2>1. 71 \in 0..100 /\ 8 \in Nat
    OBVIOUS
  <2> QED
    BY <1>3, <1>4, <2>1 DEF getMockUserTypeMix
<1>6. Good(getMockValidatorStatusMix(core, total, h))
  <2>1. 58 \in 0..100 /\ 26 \in Nat
    OBVIOUS
  <2> QED
    BY <1>3, <1>4, <2>1 DEF getMockValidatorStatusMix
<1> QED
  BY <1>5, <1>6 DEF Good
================================================================================
