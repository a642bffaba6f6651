--------------------------- MODULE RegistrationForm ----------------------------
(***************************************************************************)
(* A registration form: a text field, its debounced value, the status of   *)
(* the key in the registry and the lookups under way.  An operator returns *)
(* the form after an event and the effects it triggers (React runs the     *)
(* effects of an input event before the next event).                       *)
(***************************************************************************)
EXTENDS RegistrationPricing

CONSTANTS TakenNames, TakenOrgs    \* keys the registry answers "taken" for

IsValid(kind, text) == IF kind = "name" THEN NameIsValid(text) ELSE OrgIsValid(text)

\* mockCheckRegistrationKeyAvailable: one answer per key.
Answer(kind, key) ==
  IF key \in (IF kind = "name" THEN TakenNames ELSE TakenOrgs) THEN "taken" ELSE "available"

Form(text, debounced, status, lookups) ==
  [text |-> text, debounced |-> debounced, status |-> status, lookups |-> lookups]

Key(f) == Normalized(f.text)

Blank(kind) == IF kind = "name" THEN NoName ELSE NoOrg

Mounted(kind) == Form(Blank(kind), Blank(kind), "idle_invalid", {})

\* A lookup that was started and, live, not cancelled since.
Lookup(key, live) == [key |-> key, live |-> live]

\* Clean-up of the previous effect: its lookup is cancelled, it still answers.
Cancelled(f) == {Lookup(l.key, FALSE) : l \in f.lookups}

\* The effect on [valid, normalized, debounced].
Effect(kind, f) ==
  IF ~ IsValid(kind, f.text) THEN Form(f.text, f.debounced, "idle_invalid", Cancelled(f))
  ELSE IF Key(f) # f.debounced THEN Form(f.text, f.debounced, "pending", Cancelled(f))
  ELSE Form(f.text, f.debounced, "checking", Cancelled(f) \cup {Lookup(Key(f), TRUE)})

\* Typing: no effect runs when the normalized text stays the same.
Typed(kind, f, text) ==
  LET g == Form(text, f.debounced, f.status, f.lookups)
  IN  IF Key(g) = Key(f) THEN g ELSE Effect(kind, g)

\* The debounce timer of the last change of the normalized text.
TimerRuns(f) == f.debounced # Key(f)

Debounced(kind, f) == Effect(kind, Form(f.text, Key(f), f.status, f.lookups))

\* Variant: every answer is taken for the answer to what is in the field.
IsAwaitedAny(f, l) == TRUE

\* An answer counts when its lookup was not cancelled and the key still stands.
IsAwaited(f, l) == l.live /\ l.key = Key(f) /\ l.key = f.debounced

Answered(kind, f, l) ==
  Form(f.text, f.debounced,
       IF IsAwaited(f, l) THEN Answer(kind, l.key) ELSE f.status, f.lookups \ {l})

\* RegisterFormSection: the button is live.
CanSubmit(kind, f) == IsValid(kind, f.text) /\ f.status = "available"

\* What the form says is about the key in it, and what it waits for will come.
FormIsHonest(kind, f) ==
  CASE f.status = "idle_invalid" -> ~ IsValid(kind, f.text)
    [] f.status = "pending"      -> IsValid(kind, f.text) /\ TimerRuns(f)
    [] f.status = "checking"     -> Lookup(Key(f), TRUE) \in f.lookups
    [] OTHER                     -> IsValid(kind, f.text) /\ f.status = Answer(kind, Key(f))
================================================================================
