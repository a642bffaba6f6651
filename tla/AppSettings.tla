------------------------------ MODULE AppSettings ------------------------------
(***************************************************************************)
(* The settings object of the user interfaces (lib/settings.ts): defaults, *)
(* what is accepted from the storage of an earlier version, and what is    *)
(* accepted as a picture.                                                  *)
(***************************************************************************)
EXTENDS Integers, Sequences, SequencesExt

CONSTANT SEED_CHARS    \* length of a seed in hexadecimal characters (64)

ASSUME SeedAssumption == SEED_CHARS \in Nat \ {0}

DEFAULT_CORE_ENDPOINT == "https://127.0.0.1:8000"
LEGACY_HTTP_CORE_ENDPOINT == "http://127.0.0.1:8000"
Spaces == ""           \* an endpoint of nothing but spaces

\* A picture is a file or the data URL a FileReader makes of it.
Picture(type, bytes) == [type |-> type, bytes |-> bytes]
NoPicture == Picture("none", 0)

ColorModes == {"dark", "light"}
BackgroundPresets == {"fireflies", "aurora", "metaballs", "life", "brick", "gradient"}

DEFAULT_SETTINGS ==
  [ coreEndpoints |-> <<DEFAULT_CORE_ENDPOINT>>, colorMode |-> "dark",
    backgroundEnabled |-> TRUE, backgroundPreset |-> "fireflies",
    methodsDevEd25519SeedHex |-> <<>>, profileAvatarDataUrl |-> NoPicture ]

--------------------------------------------------------------------------------
(* Pictures *)

PROFILE_IMAGE_MAX_BYTES == 256 * 1024
PROFILE_AVATAR_DATA_URL_MAX_CHARS == 520000

\* isProfileImageMimeAllowedForCore: image/jpg stands for image/jpeg.
MimeAllowed(type) ==
  type \in {"image/png", "image/jpeg", "image/jpg", "image/webp", "image/gif"}

\* Base64 of the bytes after a header of at most 30 characters.
DataUrlChars(p) == 30 + 4 * ((p.bytes + 2) \div 3)

\* What the file dialog's handler starts to read; the browser may not know the type.
StartsReading(p) ==
  /\ p.type = "" \/ MimeAllowed(p.type)
  /\ p.bytes <= PROFILE_IMAGE_MAX_BYTES

\* What the reader's onload takes: a data URL of no type is application/octet-stream.
IsTaken(p) == MimeAllowed(p.type)

--------------------------------------------------------------------------------
(* Text of a seed: a sequence of characters, "x" and the rest are no digits *)

HexDigits == {"0", "a"}

\* The elements of s that are in keep, in their order (SelectSeq, as a function of
\* how far s has been read).
Filtered(s, keep) ==
  LET upTo[i \in 0..Len(s)] ==
        IF i = 0 THEN <<>>
        ELSE IF s[i] \in keep THEN Append(upTo[i - 1], s[i]) ELSE upTo[i - 1]
  IN  upTo[Len(s)]

\* trim, lower case, without 0x, hexadecimal digits only, 64 of them.
SeedText(text) ==
  LET bare == IF IsPrefix(<<"0", "x">>, text) THEN SubSeq(text, 3, Len(text)) ELSE text
      hex  == Filtered(bare, HexDigits)
  IN  SubSeq(hex, 1, IF Len(hex) < SEED_CHARS THEN Len(hex) ELSE SEED_CHARS)

--------------------------------------------------------------------------------
(* Reading what was stored, perhaps by an earlier version of the program *)

migrateCoreEndpoints(endpoints) ==
  [i \in DOMAIN endpoints |->
     IF endpoints[i] = LEGACY_HTTP_CORE_ENDPOINT THEN DEFAULT_CORE_ENDPOINT ELSE endpoints[i]]

\* Endpoints that are left after dropping blank ones, the default when none is.
UsableEndpoints(endpoints) ==
  LET filled == Filtered(endpoints, ToSet(endpoints) \ {Spaces})
  IN  IF filled = <<>> THEN DEFAULT_SETTINGS.coreEndpoints ELSE filled

\* "mostly dark" and "mostly light" stand for a themeMix of at least, or less than, 1/2.
ColorModeOf(mode) ==
  CASE mode \in ColorModes     -> mode
    [] mode = "mostly light"   -> "light"
    [] OTHER                   -> "dark"

\* Variant: a background that was added to the listbox is not known here.
PresetOfEarlier(preset) ==
  CASE preset = "none"     -> "gradient"
    [] preset = "breakout" -> "brick"
    [] preset \in BackgroundPresets \ {"aurora"} -> preset
    [] OTHER               -> DEFAULT_SETTINGS.backgroundPreset

PresetOf(preset) ==
  CASE preset = "none"     -> "gradient"
    [] preset = "breakout" -> "brick"
    [] preset \in BackgroundPresets -> preset
    [] OTHER               -> DEFAULT_SETTINGS.backgroundPreset

PictureOf(p) ==
  IF p # NoPicture /\ DataUrlChars(p) <= PROFILE_AVATAR_DATA_URL_MAX_CHARS THEN p
  ELSE NoPicture

normalizeSettings(raw) ==
  [ coreEndpoints |-> migrateCoreEndpoints(UsableEndpoints(raw.coreEndpoints)),
    colorMode |-> ColorModeOf(raw.colorMode),
    backgroundEnabled |-> raw.backgroundEnabled,
    backgroundPreset |-> PresetOf(raw.backgroundPreset),
    methodsDevEd25519SeedHex |-> SeedText(raw.methodsDevEd25519SeedHex),
    profileAvatarDataUrl |-> PictureOf(raw.profileAvatarDataUrl) ]

\* loadSettings writes back what it read when the endpoints had to be changed.
RewritesOnLoad(raw) == raw.coreEndpoints # normalizeSettings(raw).coreEndpoints

(* What the settings dialog does to the endpoints *)

Appended(endpoints) == Append(endpoints, DEFAULT_CORE_ENDPOINT)
Replaced(endpoints, i, url) == [endpoints EXCEPT ![i] = url]
Without(endpoints, i) == RemoveAt(endpoints, i)
================================================================================
