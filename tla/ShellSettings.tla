----------------------------- MODULE ShellSettings -----------------------------
(***************************************************************************)
(* The settings of the viewer: shown in React state, written to            *)
(* localStorage on each change, read back when the document loads; and the *)
(* two panels of the header that show and change them.                     *)
(***************************************************************************)
EXTENDS AppSettings

CONSTANTS
  StoredBefore,    \* settings objects an earlier visit may have left in storage
  Endpoints,       \* what is typed as an endpoint
  MaxEndpoints,    \* bound on the endpoints in the list
  Presets,         \* the backgrounds offered, in the order of the listbox
  Seeds,           \* what is typed as a seed
  Pictures         \* the files of the computer

Urls == Endpoints \cup {DEFAULT_CORE_ENDPOINT, LEGACY_HTTP_CORE_ENDPOINT, Spaces}

ASSUME ShellAssumption ==
  /\ MaxEndpoints \in Nat \ {0}
  /\ Presets \in Seq(BackgroundPresets) \ {<<>>}
  /\ Seeds \subseteq Seq(STRING)
  /\ \A p \in Pictures : p.bytes \in Nat

\* An object of earlier versions may hold any text as color mode or background.
ASSUME StorageAssumption ==
  \A s \in StoredBefore :
    /\ s.coreEndpoints \in Seq(Urls) /\ s.backgroundEnabled \in BOOLEAN
    /\ s.methodsDevEd25519SeedHex \in Seq(STRING)

VARIABLES
  settings,    \* what the shell shows and uses
  saved,       \* localStorage: <<>> or <<object>>
  written,     \* no write was refused since the settings were last read or written
  panel,       \* which panel is open, its tab and its listbox
  reads        \* pictures a FileReader of the settings dialog is reading

shellVars == <<settings, saved, written, panel, reads>>

Tabs == {"general", "profile", "organizations", "resolve", "methods"}
Closed == <<>>

Panel(open, tab, listbox) == [open |-> open, tab |-> tab, listbox |-> listbox]

\* loadSettings: defaults when nothing is stored.
Loaded == IF saved = <<>> THEN DEFAULT_SETTINGS ELSE normalizeSettings(saved[1])

ShellInit ==
  /\ saved \in {<<>>} \cup {<<s>> : s \in StoredBefore}
  /\ settings = Loaded
  /\ written = TRUE
  /\ panel = Panel("none", "general", Closed)
  /\ reads = {}

--------------------------------------------------------------------------------
(* Loading and saving *)

\* saveSettings: storage may refuse, and nobody is told.
Save(s) == \/ saved' = <<s>> /\ written' = TRUE
           \/ saved' = saved /\ written' = FALSE

SetSettings(s) == settings' = s /\ Save(s)

\* The document is loaded again: settings are read, and written back if they had to be changed.
LoadShell ==
  /\ settings' = Loaded
  /\ IF saved # <<>> /\ RewritesOnLoad(saved[1]) THEN Save(Loaded)
     ELSE saved' = saved /\ written' = TRUE
  /\ panel' = Panel("none", "general", Closed)
  /\ reads' = {}

--------------------------------------------------------------------------------
(* The header's buttons and the panels; Escape is heard by the open panel.   *)
(* Each button clears the other's flag, so one variable tells which is open. *)

Shown(open) == Panel(open, panel.tab, panel.listbox)

BellPressed ==
  /\ panel' = Shown(IF panel.open = "notifications" THEN "none" ELSE "notifications")
  /\ UNCHANGED <<settings, saved, written, reads>>

GearPressed ==
  /\ panel' = Shown("settings")
  /\ UNCHANGED <<settings, saved, written, reads>>

CloseNotifications ==
  /\ panel.open = "notifications"
  /\ panel' = Shown("none")
  /\ UNCHANGED <<settings, saved, written, reads>>

\* A press outside the listbox closes it as well; so does Escape when it has the focus.
CloseSettings ==
  /\ panel.open = "settings"
  /\ \E listbox \in {Closed, panel.listbox} : panel' = Panel("none", panel.tab, listbox)
  /\ UNCHANGED <<settings, saved, written, reads>>

ChooseTab(tab) ==
  /\ panel.open = "settings" /\ tab # panel.tab
  /\ panel' = Panel("settings", tab, Closed)
  /\ UNCHANGED <<settings, saved, written, reads>>

InTab(tab) == panel.open = "settings" /\ panel.tab = tab

--------------------------------------------------------------------------------
(* Changes: the whole object is replaced and saved *)

Changed(s) == SetSettings(s) /\ UNCHANGED <<panel, reads>>

AddEndpoint ==
  /\ InTab("general") /\ Len(settings.coreEndpoints) < MaxEndpoints
  /\ Changed([settings EXCEPT !.coreEndpoints = Appended(@)])

SetEndpoint(i, url) ==
  /\ InTab("general") /\ i \in DOMAIN settings.coreEndpoints
  /\ Changed([settings EXCEPT !.coreEndpoints = Replaced(@, i, url)])

RemoveEndpoint(i) ==
  /\ InTab("general") /\ i \in DOMAIN settings.coreEndpoints
  /\ Len(settings.coreEndpoints) > 1
  /\ Changed([settings EXCEPT !.coreEndpoints = Without(@, i)])

\* The switch is in the header and in the dialog.
ToggleTheme ==
  Changed([settings EXCEPT !.colorMode = IF @ = "dark" THEN "light" ELSE "dark"])

ToggleBackground ==
  /\ InTab("general")
  /\ Changed([settings EXCEPT !.backgroundEnabled = ~ @])

TypeSeed(text) ==
  /\ InTab("methods")
  /\ Changed([settings EXCEPT !.methodsDevEd25519SeedHex = SeedText(text)])

RemovePicture ==
  /\ InTab("profile") /\ settings.profileAvatarDataUrl # NoPicture
  /\ Changed([settings EXCEPT !.profileAvatarDataUrl = NoPicture])

PickPicture(p) ==
  /\ InTab("profile") /\ StartsReading(p)
  /\ reads' = reads \cup {p}
  /\ UNCHANGED <<settings, saved, written, panel>>

\* The dialog is always mounted: the reader finishes whatever it shows by then.
PictureRead(p) ==
  /\ p \in reads
  /\ reads' = reads \ {p}
  /\ IF IsTaken(p) THEN SetSettings([settings EXCEPT !.profileAvatarDataUrl = p])
     ELSE UNCHANGED <<settings, saved, written>>
  /\ UNCHANGED panel

--------------------------------------------------------------------------------
(* The listbox of backgrounds: <<>> closed, <<i>> open with option i highlighted *)

Index(preset) ==
  LET at == {i \in DOMAIN Presets : Presets[i] = preset}
  IN  IF at = {} THEN 1 ELSE CHOOSE i \in at : \A j \in at : i <= j

WithListbox(listbox) ==
  /\ panel' = Panel("settings", "general", listbox)
  /\ UNCHANGED <<settings, saved, written, reads>>

\* A press or a key of the trigger: it opens at the selected option.
OpenListbox ==
  /\ InTab("general") /\ panel.listbox = Closed
  /\ WithListbox(<<Index(settings.backgroundPreset)>>)

CloseListbox ==
  /\ InTab("general") /\ panel.listbox # Closed
  /\ WithListbox(Closed)

\* Arrow keys stop at the ends; the pointer may enter any option.
Highlight(i) ==
  /\ InTab("general") /\ panel.listbox # Closed /\ i \in DOMAIN Presets
  /\ WithListbox(<<i>>)

CommitPreset ==
  /\ InTab("general") /\ panel.listbox # Closed
  /\ SetSettings([settings EXCEPT !.backgroundPreset = Presets[panel.listbox[1]]])
  /\ panel' = Panel("settings", "general", Closed)
  /\ UNCHANGED reads

--------------------------------------------------------------------------------
ShellNext ==
  \/ BellPressed \/ GearPressed \/ CloseNotifications \/ CloseSettings
  \/ \E tab \in Tabs : ChooseTab(tab)
  \/ AddEndpoint \/ ToggleTheme \/ ToggleBackground \/ RemovePicture
  \/ \E i \in 1..MaxEndpoints : RemoveEndpoint(i) \/ \E url \in Endpoints : SetEndpoint(i, url)
  \/ \E text \in Seeds : TypeSeed(text)
  \/ \E p \in Pictures : PickPicture(p) \/ PictureRead(p)
  \/ OpenListbox \/ CloseListbox \/ CommitPreset \/ \E i \in DOMAIN Presets : Highlight(i)
================================================================================
