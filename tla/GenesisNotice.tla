----------------------------- MODULE GenesisNotice -----------------------------
(***************************************************************************)
(* The genesis wizard in the browser: AppShell asks the configured core    *)
(* for its version and, when genesis has not run, opens GenesisNoticeModal,*)
(* which takes an operator through five steps and calls the genesis        *)
(* endpoints.  Calls are asynchronous: between click and answer the user   *)
(* may go back, edit, dismiss the notice or configure another core, and    *)
(* the core may be completed or reset from elsewhere.  A step below is an  *)
(* event together with the React effects that it triggers.                 *)
(***************************************************************************)
EXTENDS GenesisCore, Integers, FiniteSets

CONSTANTS
  Cores,          \* base URLs a user may configure
  Dotted,         \* root names with a dot: several segments
  Default,        \* the root name the form starts with
  OpsAllowed,     \* cores with genesis_operations_allowed
  MaxCalls,       \* bound: wizard calls in flight
  MaxChallenges   \* bound: challenges issued

ASSUME ClientShape ==
  /\ OpsAllowed \subseteq Cores /\ Default \in Labels
  /\ MaxCalls \in Nat /\ MaxChallenges \in Nat
  /\ None \notin Cores \cup Operators \cup Labels \cup Dotted \cup Nat
  /\ Labels \cap Dotted = {}

VARIABLES
  base,       \* primary core endpoint of the settings, None when there is none
  version,    \* state of useCoreVersion; of: the core that said it
  branding,   \* state of useGenesisBranding; of: the core that said it
  dismissed,  \* genesisNoticeDismissed
  form,       \* the wizard's step and fields
  challenge,  \* the challenge it shows, its signature, verified and saved flags
  busy,       \* the wizard's loading flags
  net,        \* calls whose promise is not settled
  cores,      \* state of each core
  issued      \* challenges issued so far by all cores: ids are random, never reused

wizard == <<form, challenge, busy>>
shell  == <<base, version, branding, dismissed>>
vars   == <<base, version, branding, dismissed, form, challenge, busy, net, cores, issued>>

Ids == 1..MaxChallenges

--------------------------------------------------------------------------------
(* The shell *)

NoVersion(kind) == [kind |-> kind, complete |-> FALSE, of |-> None]
NoBranding(kind) == [kind |-> kind, of |-> None]

\* The notice is shown (AppShell: showGenesisNotice).
Open == version.kind = "ok" /\ ~ version.complete /\ ~ dismissed

Pending == [kind |-> "pending", complete |-> FALSE, id |-> None]
Said(complete, id) == [kind |-> "said", complete |-> complete, id |-> id]

\* A fetch; key is the subject of issue and complete and the signer of verify.
Call(n, op, b, key, id, label) ==
  [n |-> n, op |-> op, base |-> b, key |-> key, id |-> id, label |-> label, reply |-> Pending]

Queries == {"version", "branding"}
Query(op, b) == Call(0, op, b, None, None, None)

\* Variant: the effect has no cleanup.
NothingCancelled(calls) == calls

\* The clean-up of both effects: "cancelled" makes the old answers void.
Uncancelled(calls) == {c \in calls : c.op \notin Queries}

\* The effect of useCoreVersion; with the version unknown, branding is off.
AskVersion(b, calls) ==
  /\ version' = NoVersion(IF b = None THEN "error" ELSE "loading")
  /\ branding' = NoBranding("idle")
  /\ net' = Uncancelled(calls) \cup (IF b = None THEN {} ELSE {Query("version", b)})

\* Another primary endpoint is saved in the settings, or the only one removed.
SetCore(b) ==
  /\ b # base
  /\ base' = b
  /\ dismissed' = FALSE
  /\ AskVersion(b, net)
  /\ UNCHANGED <<wizard, cores, issued>>

Dismiss ==
  /\ Open
  /\ dismissed' = TRUE
  /\ UNCHANGED <<base, version, branding, wizard, net, cores, issued>>

--------------------------------------------------------------------------------
(* The wizard's form *)

NoChallenge == [id |-> None, sig |-> None, verified |-> FALSE, saved |-> FALSE]
NotBusy     == [issue |-> FALSE, verify |-> FALSE, complete |-> FALSE]
EmptyForm   == [step |-> 1, label |-> Default, key |-> None, named |-> FALSE, org |-> FALSE]

\* resetGenesisChallengeState.
ResetChallenge == challenge' = NoChallenge /\ busy' = NotBusy

\* backDisabled.
CanGoBack == form.step > 1 /\ ~ busy.complete /\ ~ challenge.saved

GoBack ==
  /\ Open /\ CanGoBack
  /\ form' = [form EXCEPT !.step = @ - 1]
  /\ UNCHANGED <<shell, challenge, busy, net, cores, issued>>

\* The conditions of primaryFooterDisabled for the steps that lead to another.
StepDone ==
  CASE form.step = 2 -> form.label \notin Dotted
    [] form.step = 3 -> form.key # None /\ form.named
    [] form.step = 4 -> challenge.verified
    [] OTHER -> TRUE

GoNext ==
  /\ Open /\ form.step < 5
  /\ ~ challenge.saved /\ ~ busy.complete
  /\ StepDone
  /\ form' = [form EXCEPT !.step = @ + 1]
  /\ UNCHANGED <<shell, challenge, busy, net, cores, issued>>

\* Step 2: the root name, possibly blank or with a dot.
EnterLabel(l) ==
  /\ Open /\ form.step = 2
  /\ form' = [form EXCEPT !.label = l]
  /\ UNCHANGED <<shell, challenge, busy, net, cores, issued>>

\* Step 3: the operator's key; an effect forgets the challenge of the old one.
EnterKey(k) ==
  /\ Open /\ form.step = 3
  /\ k # form.key
  /\ form' = [form EXCEPT !.key = k]
  /\ ResetChallenge
  /\ UNCHANGED <<shell, net, cores, issued>>

\* Step 3: user name and picture, both required.
EnterName ==
  /\ Open /\ form.step = 3
  /\ form' = [form EXCEPT !.named = ~ @]
  /\ UNCHANGED <<shell, challenge, busy, net, cores, issued>>

\* Step 5: the organization's key, a valid one or a half-typed one.
EnterOrgKey ==
  /\ Open /\ form.step = 5
  /\ form' = [form EXCEPT !.org = ~ @]
  /\ UNCHANGED <<shell, challenge, busy, net, cores, issued>>

\* Step 4: the signature some identity made of the body that is shown.
PasteSignature(k) ==
  /\ Open /\ form.step = 4
  /\ challenge.id # None /\ ~ challenge.verified /\ ~ busy.verify
  /\ challenge' = [challenge EXCEPT !.sig = k]
  /\ UNCHANGED <<shell, form, busy, net, cores, issued>>

--------------------------------------------------------------------------------
(* The wizard's calls *)

WizardCalls == {c \in net : c.op \notin Queries}

\* A fetch with the values of the form at the time of the click.
Send(op, key, id, label) ==
  /\ Cardinality(WizardCalls) < MaxCalls
  /\ \E n \in 1..MaxCalls :
       /\ \A c \in net : c.n # n
       /\ \A m \in 1..n-1 : \E c \in net : c.n = m
       /\ net' = net \cup {Call(n, op, base, key, id, label)}

OpsBlocked == base \notin OpsAllowed

\* handleGenesisIssueChallenge.
ClickIssue ==
  /\ Open /\ form.step = 4
  /\ ~ OpsBlocked /\ ~ busy.issue /\ form.key # None
  /\ busy' = [busy EXCEPT !.issue = TRUE]
  /\ Send("issue", form.key, None, None)
  /\ UNCHANGED <<shell, form, challenge, cores, issued>>

\* handleGenesisVerifyChallenge.
ClickVerify ==
  /\ Open /\ form.step = 4
  /\ challenge.id # None /\ ~ challenge.verified
  /\ ~ OpsBlocked /\ ~ busy.verify /\ challenge.sig # None
  /\ busy' = [busy EXCEPT !.verify = TRUE]
  /\ Send("verify", challenge.sig, challenge.id, None)
  /\ UNCHANGED <<shell, form, challenge, cores, issued>>

\* handleGenesisComplete and the conditions of its button.
ClickComplete ==
  /\ Open /\ form.step = 5
  /\ ~ challenge.saved /\ ~ busy.complete /\ ~ OpsBlocked
  /\ challenge.id # None
  /\ form.key # None /\ form.org
  /\ form.label \in Labels
  /\ busy' = [busy EXCEPT !.complete = TRUE]
  /\ Send("complete", form.key, challenge.id, form.label)
  /\ UNCHANGED <<shell, form, challenge, cores, issued>>

--------------------------------------------------------------------------------
(* Cores and network *)

Replied(c, r) == (net \ {c}) \cup {[c EXCEPT !.reply = r]}

\* The core at c.base handles the request c.
Serve(c) ==
  LET core == cores[c.base]
      Does(new, r) == cores' = [cores EXCEPT ![c.base] = new] /\ net' = Replied(c, r)
  IN  /\ c.reply = Pending
      /\ \/ /\ c.op \in Queries
            /\ net' = Replied(c, Said(core.complete, None))
            /\ UNCHANGED <<cores, issued>>
         \/ /\ c.op = "issue" /\ c.base \in OpsAllowed
            /\ issued < MaxChallenges
            /\ CanIssue(core, issued + 1)
            /\ issued' = issued + 1
            /\ Does(Issued(core, issued + 1, c.key), Said(FALSE, issued + 1))
         \/ /\ c.op = "verify" /\ c.base \in OpsAllowed
            /\ CanVerify(core, c.id, c.key)
            /\ Does(Verified(core, c.id), Said(FALSE, None))
            /\ UNCHANGED issued
         \/ /\ c.op = "complete" /\ c.base \in OpsAllowed
            /\ CanComplete(core, c.id, c.key)
            /\ Does(Completed(core, c.key, c.label), Said(TRUE, None))
            /\ UNCHANGED issued
      /\ UNCHANGED <<shell, wizard>>

\* The CLI of a core, or another browser, does one of the core's operations.
Elsewhere(b) ==
  /\ \/ cores' = [cores EXCEPT ![b] = Fresh] /\ UNCHANGED issued
     \/ \E k \in Operators :
          /\ issued < MaxChallenges /\ CanIssue(cores[b], issued + 1)
          /\ issued' = issued + 1
          /\ cores' = [cores EXCEPT ![b] = Issued(@, issued + 1, k)]
     \/ \E i \in Ids, k \in Operators :
          /\ \/ CanVerify(cores[b], i, k) /\ cores' = [cores EXCEPT ![b] = Verified(@, i)]
             \/ /\ CanComplete(cores[b], i, k)
                /\ \E l \in Labels : cores' = [cores EXCEPT ![b] = Completed(@, k, l)]
          /\ UNCHANGED issued
  /\ cores' # cores
  /\ UNCHANGED <<shell, wizard, net>>

--------------------------------------------------------------------------------
(* Promises settle in the browser *)

\* useCoreVersion's answer; an opening notice starts from an empty form, and a
\* finished genesis turns branding on.
SettleVersion(c, ok) ==
  LET on == ok /\ c.reply.complete
      opens == ok /\ ~ c.reply.complete /\ ~ dismissed
  IN  /\ c.op = "version"
      /\ version' = IF ok THEN [kind |-> "ok", complete |-> c.reply.complete, of |-> c.base]
                    ELSE NoVersion("error")
      /\ branding' = NoBranding(IF on THEN "loading" ELSE "idle")
      /\ net' = (net \ {c}) \cup (IF on THEN {Query("branding", base)} ELSE {})
      /\ IF opens THEN form' = EmptyForm /\ ResetChallenge
         ELSE UNCHANGED wizard
      /\ UNCHANGED <<base, dismissed>>

SettleBranding(c, ok) ==
  /\ c.op = "branding"
  /\ branding' = IF ok THEN [kind |-> "ok", of |-> c.base] ELSE NoBranding("error")
  /\ net' = net \ {c}
  /\ UNCHANGED <<base, version, dismissed, wizard>>

\* The new challenge replaces what was shown, whatever happened since the click.
SettleIssue(c, ok) ==
  /\ c.op = "issue"
  /\ busy' = [busy EXCEPT !.issue = FALSE]
  /\ challenge' = IF ok THEN [id |-> c.reply.id, sig |-> None, verified |-> FALSE,
                              saved |-> challenge.saved]
                  ELSE challenge
  /\ net' = net \ {c}
  /\ UNCHANGED <<shell, form>>

\* Variant: the loading flag is reset on success only.
VerifyStaysBusy(ok) == [busy EXCEPT !.verify = ~ ok]

\* "finally".
VerifyNotBusy(ok) == [busy EXCEPT !.verify = FALSE]

SettleVerify(c, ok) ==
  /\ c.op = "verify"
  /\ busy' = VerifyNotBusy(ok)
  /\ challenge' = [challenge EXCEPT !.verified = @ \/ ok]
  /\ net' = net \ {c}
  /\ UNCHANGED <<shell, form>>

\* On success the version is asked again, of the core configured by now.
SettleComplete(c, ok) ==
  /\ c.op = "complete"
  /\ busy' = [busy EXCEPT !.complete = FALSE]
  /\ IF ok
     THEN /\ challenge' = [challenge EXCEPT !.saved = TRUE]
          /\ AskVersion(base, net \ {c})
     ELSE /\ net' = net \ {c}
          /\ UNCHANGED <<challenge, version, branding>>
  /\ UNCHANGED <<base, dismissed, form>>

\* A promise resolves with what the core said, or rejects: the core refused or
\* could not be reached, or its answer was lost or malformed on the way.
Settle(c) ==
  /\ \E ok \in BOOLEAN :
       /\ ok => c.reply.kind = "said"
       /\ \/ SettleVersion(c, ok) \/ SettleBranding(c, ok)
          \/ SettleIssue(c, ok) \/ SettleVerify(c, ok) \/ SettleComplete(c, ok)
  /\ UNCHANGED <<cores, issued>>

--------------------------------------------------------------------------------

\* The shell is mounted with some core configured and asks for its version.
Init ==
  /\ base \in Cores
  /\ version = NoVersion("loading") /\ branding = NoBranding("idle")
  /\ dismissed = FALSE
  /\ form = EmptyForm /\ challenge = NoChallenge /\ busy = NotBusy
  /\ net = {Query("version", base)}
  /\ cores = [b \in Cores |-> Fresh]
  /\ issued = 0

User ==
  \/ \E b \in Cores \cup {None} : SetCore(b)
  \/ Dismiss \/ GoBack \/ GoNext
  \/ \E l \in Labels \cup Dotted \cup {None} : EnterLabel(l)
  \/ \E k \in Operators : EnterKey(k) \/ PasteSignature(k)
  \/ EnterName \/ EnterOrgKey
  \/ ClickIssue \/ ClickVerify \/ ClickComplete

Next ==
  \/ User
  \/ \E c \in net : Serve(c) \/ Settle(c)
  \/ \E b \in Cores : Elsewhere(b)

Spec == Init /\ [][Next]_vars

--------------------------------------------------------------------------------
(* Properties *)

\* Version, notice and branding the shell shows were said by the core that is
\* configured now: an answer that comes after the endpoint was changed is void.
ShownIsOfThisCore ==
  /\ version.kind = "ok" => version.of = base
  /\ branding.kind = "ok" => branding.of = base /\ version.kind = "ok" /\ version.complete

\* Whatever mix of old answers and new input the wizard sends, a core is only
\* ever completed for an operator that answered one of its challenges.
CompletedForItsOperator ==
  \A b \in Cores : cores[b].complete =>
    \E i \in DOMAIN cores[b].challenges :
      cores[b].challenges[i] = [subject |-> cores[b].operator, answered |-> TRUE]

\* A button that waits for an answer has a call in flight: no failure, edit or
\* reopening leaves it disabled for good.
BusyIsInFlight ==
  /\ busy.issue    => \E c \in net : c.op = "issue"
  /\ busy.verify   => \E c \in net : c.op = "verify"
  /\ busy.complete => \E c \in net : c.op = "complete"
================================================================================
