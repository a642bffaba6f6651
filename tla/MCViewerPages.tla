----------------------------- MODULE MCViewerPages -----------------------------
(***************************************************************************)
(* Small instance of ViewerPages, and the pure operators it uses checked   *)
(* over their inputs.                                                      *)
(***************************************************************************)
EXTENDS ViewerPages

\* A blank endpoint (that of the earlier default is in storage); a listbox of two.
MCEndpoints == {Spaces}
MCPresets == <<"fireflies", "aurora">>
MCSeeds == {<<"0", "x", "a", "x", "0", "a">>}

\* The largest picture the dialogs take, one the browser has no type for, one of a type
\* no core takes, one too large.
Largest == Picture("image/jpg", PROFILE_IMAGE_MAX_BYTES)
Untyped == Picture("", 10)
MCPictures == {Largest, Untyped, Picture("image/svg+xml", 10), Picture("image/png", 300000)}

\* Storage as earlier versions left it.
Earlier(endpoints, mode, preset, picture) ==
  [ DEFAULT_SETTINGS EXCEPT !.coreEndpoints = endpoints, !.colorMode = mode,
      !.backgroundPreset = preset, !.profileAvatarDataUrl = picture ]

MCStoredBefore ==
  { Earlier(<<LEGACY_HTTP_CORE_ENDPOINT>>, "mostly light", "none", NoPicture),
    Earlier(<<Spaces>>, "dark", "breakout", Picture("image/png", 400000)) }

\* A free and a taken handle, the taken one also loosely typed, and one that is too long.
Free == NameText("river", 5, FALSE)
Taken == NameText("modulr", 6, FALSE)
MCNameTexts == {Free, Taken, [Taken EXCEPT !.loose = TRUE], NameText("long", 40, FALSE)}

\* A free root, a taken key of two labels, one with a segment that is not sold.
FreeOrg == OrgText(<<"acme">>, 4, FALSE)
TakenOrg == OrgText(<<"labs", "acme">>, 9, FALSE)
MCOrgTexts == {FreeOrg, TakenOrg, OrgText(<<"acme", "com">>, 8, FALSE)}

MCTakenNames == {Taken}
MCTakenOrgs == {TakenOrg}

MCBios == {BlankBio, "text"}

MCQueries ==
  { EmptyQuery, Query("@you", FALSE, FALSE, TRUE, FALSE, TRUE),
    Query("@", FALSE, FALSE, TRUE, FALSE, FALSE), Query("labs.acme", FALSE, FALSE, FALSE, TRUE, TRUE) }

\* The core and a module of other figures.
MCModules == {DEFAULT_MODULE_ID, ModuleId(FALSE, 5)}

MCFieldTexts ==
  { <<"moduleSlug", <<"A", "a", "-">>>>, <<"trialMinutes", <<"1", "x">>>>,
    <<"unknownRouterCount", <<"2">>>>,
    <<"termsOfService", <<>>>> }

MCRatings == {"E", "M"}
MCArchiveFiles == {<<"client", "client.tar.zst">>, <<"client", NoFile>>}

MCIconFiles ==
  { NoIconFile, [name |-> "svg", type |-> ""], [name |-> "png", type |-> "image/png"] }

--------------------------------------------------------------------------------
(* One visit changes at most two settings (a picture being read counts), or uses the pages: neither    *)
(* reads the other's state but for the link and the reload, which both have.    *)

TouchedSettings ==
  {f \in DOMAIN DEFAULT_SETTINGS :
     \E s \in {settings} \cup ToSet(saved) : s[f] # DEFAULT_SETTINGS[f]}

ShellIsSmall == saved \in {<<s>> : s \in MCStoredBefore} \/ Cardinality(TouchedSettings) + Cardinality(reads) <= 2

ShellIsFresh ==
  /\ saved = <<>> /\ settings = DEFAULT_SETTINGS /\ reads = {}
  /\ panel = Panel("none", "general", Closed)

PagesAreFresh ==
  /\ app = "viewer" /\ page = OtherPage
  /\ who = Nobody /\ ~ session /\ photos = {} /\ urls = {}

\* A module is published by somebody without a handle, and inspected by somebody unknown;
\* at most two pictures are read at a time.
PagesAreSmall ==
  /\ Cardinality(photos) <= 2
  /\ page.route = "publish" /\ page.form # StartOfPublishing => who.handle = NoName /\ photos = {}
  /\ page.route = "inspector" /\ page # InspectorPage => who = Nobody

IsSmall == ShellIsSmall /\ PagesAreSmall /\ (ShellIsFresh \/ PagesAreFresh)

--------------------------------------------------------------------------------
(* The pure operators *)

\* normalizeSettings changes nothing a second time.
ASSUME NormalizingIsIdempotent ==
  \A s \in MCStoredBefore :
    \A mode \in {"dark", "mostly dark", "mostly light", "other"} :
      \A preset \in BackgroundPresets \cup {"none", "breakout", "other"} :
        \A p \in MCPictures :
          LET once == normalizeSettings([s EXCEPT !.colorMode = mode, !.backgroundPreset = preset,
                                                  !.profileAvatarDataUrl = p])
          IN  normalizeSettings(once) = once

\* Every picture the dialogs take fits into what normalizeSettings keeps.
ASSUME AcceptedPicturesAreKept ==
  \A type \in {"image/png", "image/jpeg", "image/jpg", "image/webp", "image/gif"} :
    \A bytes \in (PROFILE_IMAGE_MAX_BYTES - 5)..PROFILE_IMAGE_MAX_BYTES :
      PictureOf(Picture(type, bytes)) = Picture(type, bytes)

\* A shorter name is never cheaper, whatever the hashes of the two add.
ASSUME ScarcityIsPriced ==
  LET least(g) == CHOOSE m \in {NameTotal(g, s) : s \in 0..3419} :
                    \A s \in 0..3419 : m <= NameTotal(g, s)
      most(g)  == CHOOSE m \in {NameTotal(g, s) : s \in 0..3419} :
                    \A s \in 0..3419 : m >= NameTotal(g, s)
  IN  \A pair \in {<<1, 2>>, <<3, 4>>, <<5, 6>>} : least(pair[1]) > most(pair[2])

\* Two or three labels cost less than the root they are under, four or more cost more.
ASSUME LabelsArePriced ==
  \A depth \in 0..10, labels \in 2..8, seed \in {0, 69} :
    (OrgTotal(labels, depth, seed) < OrgTotal(1, depth, seed)) <=> labels <= 3

\* The shares of both charts are of the total they are drawn around, none negative.
ASSUME SharesAddUp ==
  \A core \in BOOLEAN, h \in 0..615, users \in {0, 1, 7, 100, 43799}, validators \in {18, 19, 151} :
    \A mix \in {<<getMockUserTypeMix(core, users, h), users>>,
               <<getMockValidatorStatusMix(core, validators, h), validators>>} :
      /\ Total(mix[1]) = mix[2]
      /\ \A i \in 1..3 : mix[1][i] >= 0

\* The slices of a chart follow one another around the whole ring, none of them empty.
ASSUME ArcsCloseTheRing ==
  \A a, b, c \in {0, 1, 5, 50} :
    LET arcs == Arcs(Shares(a, b, c))
    IN  /\ a + b + c > 0 => arcs[1].from = 0 /\ arcs[Len(arcs)].to = Total(Shares(a, b, c))
        /\ \A i \in DOMAIN arcs : arcs[i].from < arcs[i].to
        /\ \A i \in 1..(Len(arcs) - 1) : arcs[i].to = arcs[i + 1].from

\* No column has more errors than the chart's scale, and the pointer finds each of
\* them, the last one under "Now".
ASSUME ColumnsAreShown ==
  /\ \A h \in 0..600, i \in 0..(Columns - 1) : errorsIn(h, i) \in 3..130
  /\ UNION {ColumnsAt(x) : x \in 0..800} = 0..(Columns - 1)
  /\ MinutesAgo(0) = 1440 /\ MinutesAgo(Columns - 1) = 0
================================================================================
