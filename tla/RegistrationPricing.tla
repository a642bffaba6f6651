-------------------------- MODULE RegistrationPricing --------------------------
(***************************************************************************)
(* Quotes of the registration forms (mockRegistrationPricing.ts).  A name  *)
(* is known by its number of graphemes, an organization key by its labels  *)
(* and its length; "loose" text has characters that normalization drops.   *)
(* Amounts are cents; seed is the hash of the key.                         *)
(***************************************************************************)
EXTENDS Integers, Sequences, SequencesExt

RESERVED_ORG_SEGMENTS == {"com", "net", "org", "gov", "edu"}
MAX_NAME_GRAPHEMES == 32
MIN_ORG_CHARS == 2
MAX_ORG_CHARS == 64

NameText(name, graphemes, loose) == [name |-> name, graphemes |-> graphemes, loose |-> loose]
OrgText(labels, chars, loose) == [labels |-> labels, chars |-> chars, loose |-> loose]

NoName == NameText("", 0, FALSE)
NoOrg == OrgText(<<>>, 0, FALSE)

\* sanitizeNameForRegistration, normalizeOrgKey.
Normalized(text) == [text EXCEPT !.loose = FALSE]

NameIsValid(text) == text.graphemes \in 1..MAX_NAME_GRAPHEMES

OrgIsValid(text) ==
  /\ text.labels # <<>>
  /\ ToSet(text.labels) \cap RESERVED_ORG_SEGMENTS = {}
  /\ text.chars \in MIN_ORG_CHARS..MAX_ORG_CHARS

NAME_TIER_ONE == 124900
NAME_TIER_TWO == 62500
NAME_TIER_THREE == 31300

Jitter(seed) == (seed % 19) - 9

nameLengthTierUsd(g, seed) ==
  CASE g = 1      -> NAME_TIER_ONE + Jitter(seed)
    [] g \in 2..3 -> NAME_TIER_TWO + Jitter(seed)
    [] g \in 4..5 -> NAME_TIER_THREE + Jitter(seed)
    [] OTHER      -> 1499 + (seed % 60)

NameTotal(g, seed) == nameLengthTierUsd(g, seed) + 399 + (seed % 90) + 20

\* Of the anchor, in dollars: it doubles with each of the first twenty registrations.
orgNamespaceAnchorUsd(depth) == 100 * 2^(IF depth < 20 THEN depth ELSE 20)

\* Percent of the anchor: 62 and 14 for each further label.
NamespacePercent(labels) == IF labels = 1 THEN 100 ELSE 62 + 14 * (labels - 1)

OrgTotal(labels, depth, seed) ==
  orgNamespaceAnchorUsd(depth) * NamespacePercent(labels) + 899 + (seed % 70) + 15
================================================================================
