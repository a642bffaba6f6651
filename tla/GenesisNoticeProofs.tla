-------------------------- MODULE GenesisNoticeProofs --------------------------
(***************************************************************************)
(* Proofs about the genesis notice, for any cores, operators and names and *)
(* any number of calls in flight.                                          *)
(***************************************************************************)
EXTENDS GenesisNotice, TLAPS

Maybe(S) == S \cup {None}

Replies == [kind : {"pending", "said"}, complete : BOOLEAN, id : Maybe(Ids)]

Calls ==
  [n : 0..MaxCalls, op : {"version", "branding", "issue", "verify", "complete"},
   base : Cores, key : Maybe(Operators), id : Maybe(Ids), label : Maybe(Labels),
   reply : Replies]

Challenges == [subject : Maybe(Operators), answered : BOOLEAN]

CoreStates ==
  [complete : BOOLEAN, operator : Maybe(Operators), label : Maybe(Labels),
   challenges : UNION {[D -> Challenges] : D \in SUBSET Ids}]

ShellOK ==
  /\ base \in Maybe(Cores)
  /\ version \in [kind : {"loading", "ok", "error"}, complete : BOOLEAN, of : Maybe(Cores)]
  /\ branding \in [kind : {"idle", "loading", "ok", "error"}, of : Maybe(Cores)]
  /\ dismissed \in BOOLEAN

WizardOK ==
  /\ form \in [step : 1..5, label : Maybe(Labels \cup Dotted), key : Maybe(Operators),
               named : BOOLEAN, org : BOOLEAN]
  /\ challenge \in [id : Maybe(Ids), sig : Maybe(Operators), verified : BOOLEAN,
                    saved : BOOLEAN]
  /\ busy \in [issue : BOOLEAN, verify : BOOLEAN, complete : BOOLEAN]

CoresOK ==
  /\ cores \in [Cores -> CoreStates]
  /\ issued \in 0..MaxChallenges

TypeOK == ShellOK /\ WizardOK /\ CoresOK /\ net \subseteq Calls

\* What the effects have in flight: one question at a time, to the core that is
\* configured, about the version while it is unknown and about branding once
\* genesis is known to have run.
AsksThisCore ==
  /\ \A c \in net : c.op \in Queries => c.base = base
  /\ \A c \in net : c.op = "version" => version.kind = "loading"
  /\ \A c \in net : c.op = "branding" => version.kind = "ok" /\ version.complete
  /\ \A c, d \in net : c.op = "version" /\ d.op = "version" => c = d
  /\ version.kind = "ok" => base # None

IInv ==
  TypeOK /\ AsksThisCore /\ ShownIsOfThisCore /\ CompletedForItsOperator /\ BusyIsInFlight

--------------------------------------------------------------------------------
(* The pieces of the state *)

\* A core that never ran genesis.
LEMMA FreshShape == Fresh \in CoreStates
<1>1. [j \in {} |-> None] \in [{} -> Challenges]
  OBVIOUS
<1>2. [j \in {} |-> None] \in UNION {[D -> Challenges] : D \in SUBSET Ids}
  BY <1>1
<1> QED
  BY <1>2 DEF Fresh, CoreStates, Maybe

\* Each operation of a core yields a core.
LEMMA CoreOps ==
  ASSUME NEW c \in CoreStates, NEW i \in Ids, NEW k \in Maybe(Operators), NEW l \in Maybe(Labels)
  PROVE  /\ Issued(c, i, k) \in CoreStates
         /\ CanVerify(c, i, k) => Verified(c, i) \in CoreStates
         /\ Completed(c, k, l) \in CoreStates
<1>1. /\ c.complete \in BOOLEAN /\ c.operator \in Maybe(Operators) /\ c.label \in Maybe(Labels)
      /\ c.challenges \in UNION {[D -> Challenges] : D \in SUBSET Ids}
  BY DEF CoreStates
<1>2. PICK D \in SUBSET Ids : c.challenges \in [D -> Challenges]
  BY <1>1
<1> DEFINE fn(E) == E \in UNION {[F -> Challenges] : F \in SUBSET Ids}
<1>3. ASSUME NEW F \in SUBSET Ids, NEW g \in [F -> Challenges] PROVE fn(g)
  OBVIOUS
<1>4. Issued(c, i, k) \in CoreStates
  <2> DEFINE g == [j \in DOMAIN c.challenges \cup {i} |->
                    IF j = i THEN [subject |-> k, answered |-> FALSE] ELSE c.challenges[j]]
  <2>1. [subject |-> k, answered |-> FALSE] \in Challenges
    BY DEF Challenges
  <2>2. g \in [D \cup {i} -> Challenges]
    BY <1>2, <2>1
  <2>3. fn(g)
    BY <1>3, <2>2
  <2> QED
    BY <1>1, <2>3 DEF Issued, CoreStates
<1>5. CanVerify(c, i, k) => Verified(c, i) \in CoreStates
  <2> SUFFICES ASSUME CanVerify(c, i, k) PROVE Verified(c, i) \in CoreStates
    OBVIOUS
  <2> DEFINE g == [j \in DOMAIN c.challenges |->
                    IF j = i THEN [subject |-> c.challenges[i].subject, answered |-> TRUE]
                    ELSE c.challenges[j]]
  <2>1. c.challenges[i].subject = k
    BY DEF CanVerify
  <2>2. [subject |-> c.challenges[i].subject, answered |-> TRUE] \in Challenges
    BY <2>1 DEF Challenges
  <2>3. g \in [D -> Challenges]
    BY <1>2, <2>2
  <2>4. fn(g)
    BY <1>3, <2>3
  <2> QED
    BY <1>1, <2>4 DEF Verified, CoreStates
<1>6. Completed(c, k, l) \in CoreStates
  BY <1>1 DEF Completed, CoreStates
<1> QED
  BY <1>4, <1>5, <1>6

\* A call and its answer.
LEMMA CallShape ==
  ASSUME NEW n \in 0..MaxCalls, NEW b \in Cores, NEW k \in Maybe(Operators),
         NEW i \in Maybe(Ids), NEW l \in Maybe(Labels),
         NEW op \in {"version", "branding", "issue", "verify", "complete"}
  PROVE  Call(n, op, b, k, i, l) \in Calls
<1>1. Pending \in Replies
  BY DEF Pending, Replies, Maybe
<1> QED
  BY <1>1 DEF Call, Calls

LEMMA QueryShape ==
  ASSUME ClientShape, NEW b \in Cores, NEW op \in Queries
  PROVE  Query(op, b) \in Calls
<1>1. 0 \in 0..MaxCalls /\ None \in Maybe(Operators) /\ None \in Maybe(Ids) /\ None \in Maybe(Labels)
  BY DEF ClientShape, Maybe
<1> QED
  BY <1>1, CallShape DEF Query, Queries

\* An answered call is the call it was but for its answer.
LEMMA AnsweredCall ==
  ASSUME NEW c \in Calls, NEW r \in Replies, NEW d, d = [c EXCEPT !.reply = r]
  PROVE  d \in Calls /\ d.op = c.op /\ d.base = c.base /\ d.reply = r
BY DEF Calls

--------------------------------------------------------------------------------
(* What the effects do to the calls in flight *)

\* The calls of the wizard survive the clean-up; nothing but them, and the one new
\* question to the core that is configured now, is in flight after it.
LEMMA AskVersionEffect ==
  ASSUME ClientShape, base' \in Maybe(Cores), NEW calls \in SUBSET Calls,
         AskVersion(base', calls)
  PROVE  /\ net' \subseteq Calls
         /\ version' \in [kind : {"loading", "ok", "error"}, complete : BOOLEAN, of : Maybe(Cores)]
         /\ branding' \in [kind : {"idle", "loading", "ok", "error"}, of : Maybe(Cores)]
         /\ AsksThisCore' /\ ShownIsOfThisCore'
         /\ \A c \in calls : c.op \notin Queries => c \in net'
<1>1. /\ version' = NoVersion(IF base' = None THEN "error" ELSE "loading")
      /\ branding' = NoBranding("idle")
      /\ net' = Uncancelled(calls) \cup (IF base' = None THEN {} ELSE {Query("version", base')})
  BY DEF AskVersion
<1>2. /\ version'.kind = (IF base' = None THEN "error" ELSE "loading")
      /\ branding'.kind = "idle"
  BY <1>1 DEF NoVersion, NoBranding
<1>3. \A c \in net' : c.op \in Queries => base' # None /\ c = Query("version", base')
  BY <1>1 DEF Uncancelled
<1>4. Query("version", base').op = "version" /\ Query("version", base').base = base'
  BY DEF Query, Call
<1>5. "version" \in Queries /\ "branding" \in Queries
  BY DEF Queries
<1>6. AsksThisCore'
  BY <1>2, <1>3, <1>4, <1>5 DEF AsksThisCore
<1>7. ShownIsOfThisCore'
  BY <1>2 DEF ShownIsOfThisCore
<1>8. net' \subseteq Calls
  <2>1. base' # None => Query("version", base') \in Calls
    BY <1>5, QueryShape DEF Maybe
  <2> QED
    BY <1>1, <2>1 DEF Uncancelled
<1>9. \A c \in calls : c.op \notin Queries => c \in net'
  BY <1>1 DEF Uncancelled
<1> QED
  BY <1>1, <1>6, <1>7, <1>8, <1>9 DEF NoVersion, NoBranding, Maybe

\* A click adds one call of the wizard.
LEMMA SendEffect ==
  ASSUME ClientShape, net \subseteq Calls, base \in Cores,
         NEW op \in {"issue", "verify", "complete"}, NEW k \in Maybe(Operators),
         NEW i \in Maybe(Ids), NEW l \in Maybe(Labels), Send(op, k, i, l)
  PROVE  \E d \in Calls : d.op = op /\ net' = net \cup {d}
<1>1. PICK n \in 1..MaxCalls : net' = net \cup {Call(n, op, base, k, i, l)}
  BY DEF Send
<1>2. n \in 0..MaxCalls
  BY DEF ClientShape
<1>3. Call(n, op, base, k, i, l) \in Calls
  BY <1>2, CallShape
<1>4. Call(n, op, base, k, i, l).op = op
  BY DEF Call
<1> QED
  BY <1>1, <1>3, <1>4

\* The core's answer changes neither the call's purpose nor its core; a core that is
\* completed by it is completed for the operator of an answered challenge.
LEMMA ServeEffect ==
  ASSUME ClientShape, TypeOK, CompletedForItsOperator, NEW c \in net, Serve(c)
  PROVE  /\ \E d \in Calls : /\ d.op = c.op /\ d.base = c.base
                             /\ net' = (net \ {c}) \cup {d}
         /\ CoresOK' /\ CompletedForItsOperator'
         /\ UNCHANGED <<shell, wizard>>
<1> DEFINE core == cores[c.base]
<1>1. c \in Calls /\ c.base \in Cores /\ core \in CoreStates /\ cores \in [Cores -> CoreStates]
      /\ issued \in 0..MaxChallenges /\ MaxChallenges \in Nat
  BY DEF TypeOK, CoresOK, ClientShape, Calls
<1>2. c.key \in Maybe(Operators) /\ c.id \in Maybe(Ids) /\ c.label \in Maybe(Labels)
  BY <1>1 DEF Calls
<1>3. ASSUME NEW r \in Replies, net' = Replied(c, r)
      PROVE  \E d \in Calls : d.op = c.op /\ d.base = c.base /\ net' = (net \ {c}) \cup {d}
  <2> DEFINE d == [c EXCEPT !.reply = r]
  <2>1. d \in Calls /\ d.op = c.op /\ d.base = c.base
    BY <1>1, AnsweredCall
  <2> QED
    BY <1>3, <2>1 DEF Replied
<1>4. \A x \in BOOLEAN, i \in Maybe(Ids) : Said(x, i) \in Replies
  BY DEF Said, Replies
<1>5. ASSUME NEW new \in CoreStates, cores' = [cores EXCEPT ![c.base] = new],
             new.complete => \E i \in DOMAIN new.challenges :
               new.challenges[i] = [subject |-> new.operator, answered |-> TRUE]
      PROVE  cores' \in [Cores -> CoreStates] /\ CompletedForItsOperator'
  BY <1>1, <1>5 DEF CompletedForItsOperator
<1>6. None \notin Ids /\ issued + 1 \in Int /\ None \in Maybe(Ids) /\ UNCHANGED <<shell, wizard>>
  BY <1>1 DEF Maybe, ClientShape, Ids, Serve
<1>7. CASE c.op \in Queries /\ net' = Replied(c, Said(core.complete, None)) /\ UNCHANGED <<cores, issued>>
  <2>1. core.complete \in BOOLEAN
    BY <1>1 DEF CoreStates
  <2> QED
    BY <1>3, <1>4, <1>6, <1>7, <2>1, Zenon DEF CompletedForItsOperator, TypeOK, CoresOK
<1>8. CASE /\ issued < MaxChallenges /\ CanIssue(core, issued + 1) /\ issued' = issued + 1
           /\ cores' = [cores EXCEPT ![c.base] = Issued(core, issued + 1, c.key)]
           /\ net' = Replied(c, Said(FALSE, issued + 1))
  <2>1. issued + 1 \in Ids /\ issued' \in 0..MaxChallenges
    BY <1>1, <1>8 DEF Ids
  <2>2. Issued(core, issued + 1, c.key) \in CoreStates /\ Said(FALSE, issued + 1) \in Replies
    BY <1>1, <1>2, <1>4, <2>1, CoreOps DEF Maybe
  <2>3. ~ Issued(core, issued + 1, c.key).complete
    BY <1>8 DEF Issued, CanIssue
  <2> QED
    BY <1>3, <1>5, <1>6, <1>8, <2>1, <2>2, <2>3 DEF CoresOK
<1>9. CASE /\ CanVerify(core, c.id, c.key)
           /\ cores' = [cores EXCEPT ![c.base] = Verified(core, c.id)]
           /\ net' = Replied(c, Said(FALSE, None)) /\ UNCHANGED issued
  <2>1. c.id \in Ids
    <3>1. c.id \in DOMAIN core.challenges
      BY <1>9 DEF CanVerify
    <3>2. core.challenges \in UNION {[D -> Challenges] : D \in SUBSET Ids}
      BY <1>1 DEF CoreStates
    <3> QED
      BY <3>1, <3>2
  <2>2. Verified(core, c.id) \in CoreStates
    BY <1>1, <1>2, <1>9, <2>1, CoreOps DEF Maybe
  <2>3. ~ Verified(core, c.id).complete
    BY <1>9 DEF Verified, CanVerify
  <2>4. Said(FALSE, None) \in Replies
    BY <1>4, <1>6
  <2> QED
    BY <1>1, <1>3, <1>5, <1>6, <1>9, <2>2, <2>3, <2>4 DEF CoresOK
<1>10. CASE /\ CanComplete(core, c.id, c.key)
            /\ cores' = [cores EXCEPT ![c.base] = Completed(core, c.key, c.label)]
            /\ net' = Replied(c, Said(TRUE, None)) /\ UNCHANGED issued
  <2> DEFINE new == Completed(core, c.key, c.label)
  <2>1. /\ c.id \in DOMAIN core.challenges
        /\ core.challenges[c.id] = [subject |-> c.key, answered |-> TRUE]
    BY <1>10 DEF CanComplete
  <2>2. new \in CoreStates
    <3>1. c.id \in Ids
      <4>1. core.challenges \in UNION {[D -> Challenges] : D \in SUBSET Ids}
        BY <1>1 DEF CoreStates
      <4> QED
        BY <2>1, <4>1
    <3> QED
      BY <1>1, <1>2, <3>1, CoreOps
  <2>3. new.challenges = core.challenges /\ new.operator = c.key
    BY DEF Completed
  <2>4. Said(TRUE, None) \in Replies
    BY <1>4, <1>6
  <2> HIDE DEF new
  <2>5. cores' \in [Cores -> CoreStates] /\ CompletedForItsOperator'
    BY <1>5, <1>10, <2>1, <2>2, <2>3 DEF new
  <2> QED
    BY <1>1, <1>3, <1>6, <1>10, <2>4, <2>5 DEF CoresOK
<1> QED
  BY <1>7, <1>8, <1>9, <1>10 DEF Serve

\* What is done elsewhere follows the same rules.
LEMMA ElsewhereEffect ==
  ASSUME ClientShape, TypeOK, CompletedForItsOperator, NEW b \in Cores, Elsewhere(b)
  PROVE  CoresOK' /\ CompletedForItsOperator' /\ UNCHANGED <<shell, wizard, net>>
<1> DEFINE core == cores[b]
<1>1. /\ cores \in [Cores -> CoreStates] /\ core \in CoreStates
      /\ issued \in 0..MaxChallenges /\ MaxChallenges \in Nat
  BY DEF TypeOK, CoresOK, ClientShape
<1>2. ASSUME NEW new \in CoreStates, cores' = [cores EXCEPT ![b] = new],
             new.complete => \E i \in DOMAIN new.challenges :
               new.challenges[i] = [subject |-> new.operator, answered |-> TRUE]
      PROVE  cores' \in [Cores -> CoreStates] /\ CompletedForItsOperator'
  BY <1>1, <1>2 DEF CompletedForItsOperator
<1>3. UNCHANGED <<shell, wizard, net>>
  BY DEF Elsewhere
<1>4. CASE cores' = [cores EXCEPT ![b] = Fresh] /\ UNCHANGED issued
  <2>1. Fresh \in CoreStates /\ ~ Fresh.complete
    BY FreshShape DEF Fresh
  <2> QED
    BY <1>1, <1>2, <1>3, <1>4, <2>1 DEF CoresOK
<1>5. ASSUME NEW k \in Operators, issued < MaxChallenges, CanIssue(core, issued + 1),
             issued' = issued + 1, cores' = [cores EXCEPT ![b] = Issued(@, issued + 1, k)]
      PROVE  CoresOK' /\ CompletedForItsOperator'
  <2> DEFINE new == Issued(core, issued + 1, k)
  <2>1. issued + 1 \in Ids /\ issued' \in 0..MaxChallenges
    BY <1>1, <1>5 DEF Ids
  <2>2. new \in CoreStates /\ ~ new.complete
    BY <1>1, <1>5, <2>1, CoreOps DEF Maybe, Issued, CanIssue
  <2>3. cores' = [cores EXCEPT ![b] = new]
    BY <1>5
  <2> HIDE DEF new
  <2> QED
    BY <1>2, <2>1, <2>2, <2>3 DEF CoresOK
<1>6. ASSUME NEW i \in Ids, NEW k \in Operators, CanVerify(core, i, k), UNCHANGED issued,
             cores' = [cores EXCEPT ![b] = Verified(@, i)]
      PROVE  CoresOK' /\ CompletedForItsOperator'
  <2> DEFINE new == Verified(core, i)
  <2>1. new \in CoreStates /\ ~ new.complete
    BY <1>1, <1>6, CoreOps DEF Maybe, Verified, CanVerify
  <2>2. cores' = [cores EXCEPT ![b] = new]
    BY <1>6
  <2> HIDE DEF new
  <2> QED
    BY <1>1, <1>2, <1>6, <2>1, <2>2 DEF CoresOK
<1>7. ASSUME NEW i \in Ids, NEW k \in Operators, NEW l \in Labels, CanComplete(core, i, k),
             UNCHANGED issued, cores' = [cores EXCEPT ![b] = Completed(@, k, l)]
      PROVE  CoresOK' /\ CompletedForItsOperator'
  <2> DEFINE new == Completed(core, k, l)
  <2>1. new \in CoreStates
    BY <1>1, CoreOps DEF Maybe
  <2>2. new.challenges = core.challenges /\ new.operator = k
    BY DEF Completed
  <2>3. cores' = [cores EXCEPT ![b] = new]
    BY <1>7
  <2> HIDE DEF new
  <2>4. \E j \in DOMAIN new.challenges :
          new.challenges[j] = [subject |-> new.operator, answered |-> TRUE]
    BY <1>7, <2>2 DEF CanComplete
  <2> QED
    BY <1>1, <1>2, <1>7, <2>1, <2>3, <2>4 DEF CoresOK
<1> QED
  BY <1>3, <1>4, <1>5, <1>6, <1>7 DEF Elsewhere

--------------------------------------------------------------------------------
(* The steps *)

LEMMA InitHolds ==
  ASSUME ClientShape, Init
  PROVE  IInv
<1>1. base \in Cores /\ base # None /\ net = {Query("version", base)}
  BY DEF Init, ClientShape
<1>2. Query("version", base) \in Calls
  BY <1>1, QueryShape DEF Queries
<1>3. Query("version", base).op = "version" /\ Query("version", base).base = base
  BY DEF Query, Call
<1>4. ShellOK
  BY DEF Init, ShellOK, NoVersion, NoBranding, Maybe
<1>5. WizardOK
  BY DEF Init, WizardOK, EmptyForm, NoChallenge, NotBusy, Maybe, ClientShape
<1>6. CoresOK
  <2>1. 0 \in 0..MaxChallenges
    BY DEF ClientShape
  <2> QED
    BY <2>1, FreshShape DEF Init, CoresOK
<1>7. AsksThisCore
  BY <1>1, <1>3 DEF Init, AsksThisCore, NoVersion
<1>8. ShownIsOfThisCore
  BY DEF Init, ShownIsOfThisCore, NoVersion, NoBranding
<1>9. CompletedForItsOperator
  BY DEF Init, CompletedForItsOperator, Fresh
<1>10. BusyIsInFlight
  BY DEF Init, BusyIsInFlight, NotBusy
<1> QED
  BY <1>1, <1>2, <1>4, <1>5, <1>6, <1>7, <1>8, <1>9, <1>10 DEF IInv, TypeOK

\* What depends on the shell, the calls and the buttons alone.
LEMMA OnlyTheForm ==
  ASSUME IInv, UNCHANGED <<shell, net, cores, issued>>, WizardOK',
         \A f \in {"issue", "verify", "complete"} : busy'[f] => busy[f]
  PROVE  IInv'
<1>1. ShellOK' /\ CoresOK' /\ (net \subseteq Calls)'
  BY DEF IInv, TypeOK, ShellOK, CoresOK, shell
<1>2. AsksThisCore' /\ ShownIsOfThisCore' /\ CompletedForItsOperator'
  BY DEF IInv, AsksThisCore, ShownIsOfThisCore, CompletedForItsOperator, shell
<1>3. BusyIsInFlight'
  BY DEF IInv, BusyIsInFlight
<1> QED
  BY <1>1, <1>2, <1>3 DEF IInv, TypeOK

\* The notice is only open over a core that answered.
LEMMA OpenOverACore ==
  ASSUME IInv, Open
  PROVE  base \in Cores
BY DEF IInv, TypeOK, ShellOK, Open, AsksThisCore, Maybe

LEMMA UserStep ==
  ASSUME ClientShape, IInv, User
  PROVE  IInv'
<1>1. TypeOK /\ AsksThisCore /\ ShownIsOfThisCore /\ CompletedForItsOperator /\ BusyIsInFlight
  BY DEF IInv
<1>2. ASSUME NEW b \in Maybe(Cores), SetCore(b) PROVE IInv'
  <2>1. base' = b /\ dismissed' = FALSE /\ AskVersion(base', net) /\ UNCHANGED <<wizard, cores, issued>>
    BY <1>2 DEF SetCore
  <2>2. /\ net' \subseteq Calls /\ AsksThisCore' /\ ShownIsOfThisCore'
        /\ version' \in [kind : {"loading", "ok", "error"}, complete : BOOLEAN, of : Maybe(Cores)]
        /\ branding' \in [kind : {"idle", "loading", "ok", "error"}, of : Maybe(Cores)]
        /\ \A c \in net : c.op \notin Queries => c \in net'
    BY <1>1, <1>2, <2>1, AskVersionEffect DEF TypeOK
  <2>3. BusyIsInFlight'
    BY <1>1, <2>1, <2>2 DEF BusyIsInFlight, Queries, wizard
  <2>4. ShellOK' /\ WizardOK' /\ CoresOK' /\ CompletedForItsOperator'
    BY <1>1, <1>2, <2>1, <2>2
       DEF TypeOK, ShellOK, WizardOK, CoresOK, wizard, CompletedForItsOperator
  <2> QED
    BY <2>2, <2>3, <2>4 DEF IInv, TypeOK
<1>3. ASSUME Dismiss PROVE IInv'
  <2>1. dismissed' = TRUE /\ UNCHANGED <<base, version, branding, wizard, net, cores, issued>>
    BY <1>3 DEF Dismiss
  <2>2. TypeOK'
    BY <1>1, <2>1 DEF TypeOK, ShellOK, WizardOK, CoresOK, wizard
  <2>3. AsksThisCore' /\ ShownIsOfThisCore' /\ CompletedForItsOperator' /\ BusyIsInFlight'
    BY <1>1, <2>1
       DEF AsksThisCore, ShownIsOfThisCore, CompletedForItsOperator, BusyIsInFlight, wizard
  <2> QED
    BY <2>2, <2>3 DEF IInv
<1>4. WizardOK
  BY <1>1 DEF TypeOK
<1>5. ASSUME GoBack PROVE IInv'
  <2>1. form' = [form EXCEPT !.step = @ - 1] /\ form.step > 1
        /\ UNCHANGED <<shell, challenge, busy, net, cores, issued>>
    BY <1>5 DEF GoBack, CanGoBack
  <2>2. WizardOK'
    BY <1>4, <2>1 DEF WizardOK
  <2> QED
    BY <2>1, <2>2, OnlyTheForm
<1>6. ASSUME GoNext PROVE IInv'
  <2>1. form' = [form EXCEPT !.step = @ + 1] /\ form.step < 5
        /\ UNCHANGED <<shell, challenge, busy, net, cores, issued>>
    BY <1>6 DEF GoNext
  <2>2. WizardOK'
    BY <1>4, <2>1 DEF WizardOK
  <2> QED
    BY <2>1, <2>2, OnlyTheForm
<1>7. ASSUME NEW l \in Maybe(Labels \cup Dotted), EnterLabel(l) PROVE IInv'
  <2>1. form' = [form EXCEPT !.label = l] /\ UNCHANGED <<shell, challenge, busy, net, cores, issued>>
    BY <1>7 DEF EnterLabel
  <2>2. WizardOK'
    BY <1>4, <1>7, <2>1 DEF WizardOK
  <2> QED
    BY <2>1, <2>2, OnlyTheForm
<1>8. ASSUME NEW k \in Operators, EnterKey(k) PROVE IInv'
  <2>1. /\ form' = [form EXCEPT !.key = k] /\ challenge' = NoChallenge /\ busy' = NotBusy
        /\ UNCHANGED <<shell, net, cores, issued>>
    BY <1>8 DEF EnterKey, ResetChallenge
  <2>2. WizardOK'
    BY <1>4, <2>1 DEF WizardOK, NoChallenge, NotBusy, Maybe
  <2>3. \A f \in {"issue", "verify", "complete"} : busy'[f] => busy[f]
    BY <2>1 DEF NotBusy
  <2> QED
    BY <2>1, <2>2, <2>3, OnlyTheForm
<1>9. ASSUME NEW k \in Operators, PasteSignature(k) PROVE IInv'
  <2>1. challenge' = [challenge EXCEPT !.sig = k] /\ UNCHANGED <<shell, form, busy, net, cores, issued>>
    BY <1>9 DEF PasteSignature
  <2>2. WizardOK'
    BY <1>4, <2>1 DEF WizardOK, Maybe
  <2> QED
    BY <2>1, <2>2, OnlyTheForm
<1>10. ASSUME EnterName \/ EnterOrgKey PROVE IInv'
  <2>1. /\ form' = [form EXCEPT !.named = ~ @] \/ form' = [form EXCEPT !.org = ~ @]
        /\ UNCHANGED <<shell, challenge, busy, net, cores, issued>>
    BY <1>10 DEF EnterName, EnterOrgKey
  <2>2. WizardOK'
    BY <1>4, <2>1 DEF WizardOK
  <2> QED
    BY <2>1, <2>2, OnlyTheForm
<1>11. ASSUME NEW op \in {"issue", "verify", "complete"}, NEW k \in Maybe(Operators),
              NEW i \in Maybe(Ids), NEW l \in Maybe(Labels), Open, Send(op, k, i, l),
              busy' = [busy EXCEPT ![op] = TRUE],
              UNCHANGED <<shell, form, challenge, cores, issued>>
       PROVE  IInv'
  <2>1. PICK d \in Calls : d.op = op /\ net' = net \cup {d}
    BY <1>1, <1>11, OpenOverACore, SendEffect DEF TypeOK
  <2>2. TypeOK'
    <3>1. net' \subseteq Calls
      BY <1>1, <2>1 DEF TypeOK
    <3>2. busy' \in [issue : BOOLEAN, verify : BOOLEAN, complete : BOOLEAN]
      BY <1>4, <1>11 DEF WizardOK
    <3>3. ShellOK' /\ CoresOK'
      BY <1>1, <1>11 DEF TypeOK, ShellOK, CoresOK, shell
    <3> QED
      BY <1>4, <1>11, <3>1, <3>2, <3>3 DEF TypeOK, WizardOK
  <2>3. op \notin Queries /\ op # "version" /\ op # "branding"
    BY DEF Queries
  <2>4. AsksThisCore' /\ ShownIsOfThisCore' /\ CompletedForItsOperator'
    BY <1>1, <1>11, <2>1, <2>3
       DEF AsksThisCore, ShownIsOfThisCore, CompletedForItsOperator, shell
  <2>5. BusyIsInFlight'
    BY <1>1, <1>4, <1>11, <2>1 DEF BusyIsInFlight, WizardOK
  <2> QED
    BY <2>2, <2>4, <2>5 DEF IInv
<1>12. None \in Maybe(Labels) /\ None \in Maybe(Ids)
  BY DEF Maybe
<1>13. form.key \in Maybe(Operators) /\ challenge.sig \in Maybe(Operators) /\ challenge.id \in Maybe(Ids)
  BY <1>4 DEF WizardOK
<1>14. ASSUME ClickIssue PROVE IInv'
  BY <1>11, <1>12, <1>13, <1>14 DEF ClickIssue
<1>15. ASSUME ClickVerify PROVE IInv'
  BY <1>11, <1>12, <1>13, <1>15 DEF ClickVerify
<1>16. ASSUME ClickComplete PROVE IInv'
  <2>1. form.label \in Maybe(Labels)
    BY <1>16 DEF ClickComplete, Maybe
  <2> QED
    BY <1>11, <1>13, <1>16, <2>1 DEF ClickComplete
<1> QED
  BY <1>2, <1>3, <1>5, <1>6, <1>7, <1>8, <1>9, <1>10, <1>14, <1>15, <1>16 DEF User, Maybe

LEMMA SettleStep ==
  ASSUME ClientShape, IInv, NEW c \in net, Settle(c)
  PROVE  IInv'
<1>1. TypeOK /\ AsksThisCore /\ ShownIsOfThisCore /\ CompletedForItsOperator /\ BusyIsInFlight
  BY DEF IInv
<1>2. /\ c \in Calls /\ c.base \in Cores /\ c.reply.complete \in BOOLEAN
      /\ c.reply.id \in Maybe(Ids) /\ net \subseteq Calls
  BY <1>1 DEF TypeOK, Calls, Replies
<1>3. ShellOK /\ WizardOK /\ CoresOK /\ base \in Maybe(Cores)
  BY <1>1 DEF TypeOK, ShellOK
<1>4. UNCHANGED <<cores, issued>>
  BY DEF Settle
<1>5. CoresOK' /\ CompletedForItsOperator'
  BY <1>1, <1>3, <1>4 DEF CoresOK, CompletedForItsOperator
<1>6. ASSUME NEW ok \in BOOLEAN, SettleVersion(c, ok) PROVE IInv'
  <2> DEFINE on == ok /\ c.reply.complete
  <2>1. /\ c.op = "version" /\ UNCHANGED <<base, dismissed>>
        /\ version' = IF ok THEN [kind |-> "ok", complete |-> c.reply.complete, of |-> c.base]
                      ELSE NoVersion("error")
        /\ branding' = NoBranding(IF on THEN "loading" ELSE "idle")
        /\ net' = (net \ {c}) \cup (IF on THEN {Query("branding", base)} ELSE {})
        /\ \/ form' = EmptyForm /\ challenge' = NoChallenge /\ busy' = NotBusy
           \/ UNCHANGED wizard
    BY <1>6 DEF SettleVersion, ResetChallenge
  <2>2. c.base = base /\ base \in Cores
    BY <1>1, <1>2, <2>1 DEF AsksThisCore, Queries
  <2>3. /\ Query("branding", base) \in Calls /\ Query("branding", base).op = "branding"
        /\ Query("branding", base).base = base
    BY <2>2, QueryShape DEF Queries, Query, Call
  <2>4. net' \subseteq Calls
    BY <1>2, <2>1, <2>3
  <2>5. \A d \in net : d # c => d.op # "version" /\ d.op # "branding"
    BY <1>1, <2>1 DEF AsksThisCore
  <2>6. \A d \in net' : (d \in net /\ d # c) \/ (on /\ d = Query("branding", base))
    BY <2>1
  <2>7. on => version'.kind = "ok" /\ version'.complete
    BY <2>1
  <2>8. AsksThisCore'
    <3>1. \A d \in net' : d.op \in Queries => on /\ d = Query("branding", base)
      BY <2>5, <2>6 DEF Queries
    <3> QED
      BY <1>2, <2>1, <2>2, <2>3, <2>7, <3>1 DEF AsksThisCore, Queries, ClientShape
  <2>9. ShownIsOfThisCore'
    BY <2>1, <2>2 DEF ShownIsOfThisCore, NoVersion, NoBranding
  <2>10. BusyIsInFlight'
    <3>1. \A d \in net : d.op # "version" => d \in net'
      BY <2>1
    <3>2. CASE busy' = NotBusy
      BY <3>2 DEF BusyIsInFlight, NotBusy
    <3>3. CASE UNCHANGED wizard
      BY <1>1, <3>1, <3>3 DEF BusyIsInFlight, wizard
    <3> QED
      BY <2>1, <3>2, <3>3
  <2>11. ShellOK'
    <3>1. version' \in [kind : {"loading", "ok", "error"}, complete : BOOLEAN, of : Maybe(Cores)]
      BY <1>2, <2>1 DEF NoVersion, Maybe
    <3>2. branding' \in [kind : {"idle", "loading", "ok", "error"}, of : Maybe(Cores)]
      BY <2>1 DEF NoBranding, Maybe
    <3> QED
      BY <1>3, <2>1, <3>1, <3>2 DEF ShellOK
  <2>12. WizardOK'
    <3>1. CASE UNCHANGED wizard
      BY <1>3, <3>1 DEF WizardOK, wizard
    <3>2. CASE form' = EmptyForm /\ challenge' = NoChallenge /\ busy' = NotBusy
      BY <3>2 DEF WizardOK, EmptyForm, NoChallenge, NotBusy, Maybe, ClientShape
    <3> QED
      BY <2>1, <3>1, <3>2
  <2> QED
    BY <1>5, <2>4, <2>8, <2>9, <2>10, <2>11, <2>12 DEF IInv, TypeOK
<1>7. ASSUME NEW ok \in BOOLEAN, SettleBranding(c, ok) PROVE IInv'
  <2>1. /\ c.op = "branding" /\ net' = net \ {c}
        /\ branding' = IF ok THEN [kind |-> "ok", of |-> c.base] ELSE NoBranding("error")
        /\ UNCHANGED <<base, version, dismissed, wizard>>
    BY <1>7 DEF SettleBranding
  <2>2. c.base = base /\ version.kind = "ok" /\ version.complete
    BY <1>1, <2>1 DEF AsksThisCore, Queries
  <2>3. AsksThisCore' /\ ShownIsOfThisCore'
    BY <1>1, <2>1, <2>2 DEF AsksThisCore, ShownIsOfThisCore, NoBranding
  <2>4. BusyIsInFlight'
    BY <1>1, <2>1 DEF BusyIsInFlight, wizard
  <2>5. ShellOK' /\ WizardOK'
    BY <1>2, <1>3, <2>1 DEF ShellOK, WizardOK, wizard, NoBranding, Maybe
  <2> QED
    BY <1>2, <1>5, <2>1, <2>3, <2>4, <2>5 DEF IInv, TypeOK
\* An answer to the wizard that leaves the shell alone and clears one flag.
<1>8. ASSUME NEW op \in {"issue", "verify", "complete"}, c.op = op, net' = net \ {c},
             busy' = [busy EXCEPT ![op] = FALSE], UNCHANGED <<shell, form>>,
             challenge' \in [id : Maybe(Ids), sig : Maybe(Operators), verified : BOOLEAN,
                             saved : BOOLEAN]
      PROVE  IInv'
  <2>1. op \notin Queries
    BY DEF Queries
  <2>2. AsksThisCore' /\ ShownIsOfThisCore'
    BY <1>1, <1>8 DEF AsksThisCore, ShownIsOfThisCore, shell
  <2>3. BusyIsInFlight'
    BY <1>1, <1>3, <1>8 DEF BusyIsInFlight, WizardOK
  <2>4. busy' \in [issue : BOOLEAN, verify : BOOLEAN, complete : BOOLEAN]
    BY <1>3, <1>8 DEF WizardOK
  <2>5. ShellOK' /\ WizardOK'
    BY <1>3, <1>8, <2>4 DEF ShellOK, WizardOK, shell
  <2> QED
    BY <1>2, <1>5, <1>8, <2>2, <2>3, <2>5 DEF IInv, TypeOK
<1>9. /\ challenge \in [id : Maybe(Ids), sig : Maybe(Operators), verified : BOOLEAN, saved : BOOLEAN]
      /\ None \in Maybe(Operators)
  BY <1>3 DEF WizardOK, Maybe
<1>10. ASSUME NEW ok \in BOOLEAN, SettleIssue(c, ok) PROVE IInv'
  <2>1. challenge' \in [id : Maybe(Ids), sig : Maybe(Operators), verified : BOOLEAN, saved : BOOLEAN]
    BY <1>2, <1>9, <1>10 DEF SettleIssue
  <2> QED
    BY <1>8, <1>10, <2>1 DEF SettleIssue
<1>11. ASSUME NEW ok \in BOOLEAN, SettleVerify(c, ok) PROVE IInv'
  <2>1. challenge' \in [id : Maybe(Ids), sig : Maybe(Operators), verified : BOOLEAN, saved : BOOLEAN]
    BY <1>9, <1>11 DEF SettleVerify
  <2> QED
    BY <1>8, <1>11, <2>1 DEF SettleVerify, VerifyNotBusy
<1>12. ASSUME NEW ok \in BOOLEAN, SettleComplete(c, ok) PROVE IInv'
  <2>1. /\ c.op = "complete" /\ busy' = [busy EXCEPT !.complete = FALSE]
        /\ UNCHANGED <<base, dismissed, form>>
    BY <1>12 DEF SettleComplete
  <2>2. CASE ok
    <3>1. challenge' = [challenge EXCEPT !.saved = TRUE] /\ AskVersion(base, net \ {c})
      BY <1>12, <2>2 DEF SettleComplete
    <3>2. base' = base /\ AskVersion(base', net \ {c}) /\ net \ {c} \in SUBSET Calls
      BY <1>2, <2>1, <3>1
    <3>3. /\ net' \subseteq Calls /\ AsksThisCore' /\ ShownIsOfThisCore'
          /\ version' \in [kind : {"loading", "ok", "error"}, complete : BOOLEAN, of : Maybe(Cores)]
          /\ branding' \in [kind : {"idle", "loading", "ok", "error"}, of : Maybe(Cores)]
          /\ \A d \in net \ {c} : d.op \notin Queries => d \in net'
      BY <1>3, <3>2, AskVersionEffect
    <3>4. BusyIsInFlight'
      <4>1. ~ busy'.complete /\ busy'.issue = busy.issue /\ busy'.verify = busy.verify
        BY <1>3, <2>1 DEF WizardOK
      <4> QED
        BY <1>1, <2>1, <3>3, <4>1 DEF BusyIsInFlight, Queries
    <3>5. ShellOK' /\ WizardOK'
      BY <1>3, <2>1, <3>1, <3>3 DEF ShellOK, WizardOK
    <3> QED
      BY <1>5, <3>3, <3>4, <3>5 DEF IInv, TypeOK
  <2>3. CASE ~ ok
    BY <1>8, <1>9, <1>12, <2>3 DEF SettleComplete, shell
  <2> QED
    BY <2>2, <2>3
<1> QED
  BY <1>6, <1>7, <1>10, <1>11, <1>12 DEF Settle

LEMMA ServeStep ==
  ASSUME ClientShape, IInv, NEW c \in net, Serve(c)
  PROVE  IInv'
<1>1. TypeOK /\ AsksThisCore /\ ShownIsOfThisCore /\ CompletedForItsOperator /\ BusyIsInFlight
  BY DEF IInv
<1>2. PICK d \in Calls : d.op = c.op /\ d.base = c.base /\ net' = (net \ {c}) \cup {d}
  BY <1>1, ServeEffect
<1>3. CoresOK' /\ CompletedForItsOperator' /\ UNCHANGED <<shell, wizard>>
  BY <1>1, ServeEffect
<1>4. AsksThisCore'
  BY <1>1, <1>2, <1>3 DEF AsksThisCore, shell
<1>5. ShownIsOfThisCore'
  BY <1>1, <1>3 DEF ShownIsOfThisCore, shell
<1>6. BusyIsInFlight'
  BY <1>1, <1>2, <1>3 DEF BusyIsInFlight, wizard
<1>7. TypeOK'
  BY <1>1, <1>2, <1>3 DEF TypeOK, ShellOK, WizardOK, shell, wizard
<1> QED
  BY <1>3, <1>4, <1>5, <1>6, <1>7 DEF IInv

LEMMA StepHolds ==
  ASSUME ClientShape, IInv, [Next]_vars
  PROVE  IInv'
<1>1. ASSUME NEW b \in Cores, Elsewhere(b) PROVE IInv'
  <2>1. TypeOK /\ AsksThisCore /\ ShownIsOfThisCore /\ CompletedForItsOperator /\ BusyIsInFlight
    BY DEF IInv
  <2>2. CoresOK' /\ CompletedForItsOperator' /\ UNCHANGED <<shell, wizard, net>>
    BY <1>1, <2>1, ElsewhereEffect
  <2>3. AsksThisCore' /\ ShownIsOfThisCore' /\ BusyIsInFlight'
    BY <2>1, <2>2 DEF AsksThisCore, ShownIsOfThisCore, BusyIsInFlight, shell, wizard
  <2>4. TypeOK'
    BY <2>1, <2>2 DEF TypeOK, ShellOK, WizardOK, shell, wizard
  <2> QED
    BY <2>2, <2>3, <2>4 DEF IInv
<1>2. CASE UNCHANGED vars
  BY <1>2 DEF vars, IInv, TypeOK, ShellOK, WizardOK, CoresOK, AsksThisCore,
              ShownIsOfThisCore, CompletedForItsOperator, BusyIsInFlight
<1> QED
  BY <1>1, <1>2, UserStep, ServeStep, SettleStep DEF Next

--------------------------------------------------------------------------------
(* Theorems *)

\* The inductive invariant.
THEOREM Invariant == Spec => []IInv
<1>1. Init => IInv
  BY ClientShape, InitHolds
<1>2. IInv /\ [Next]_vars => IInv'
  BY ClientShape, StepHolds
<1> QED
  BY <1>1, <1>2, PTL DEF Spec

\* State and calls keep their shape; no request is ever sent to no core.
THEOREM TypeCorrect == Spec => []TypeOK
<1>1. IInv => TypeOK
  BY DEF IInv
<1> QED
  BY <1>1, Invariant, PTL

\* The shell never shows what another core than the configured one said.
THEOREM AnswersAreCurrent == Spec => []ShownIsOfThisCore
<1>1. IInv => ShownIsOfThisCore
  BY DEF IInv
<1> QED
  BY <1>1, Invariant, PTL

\* However old answers and new input mix, a core is completed only for an operator
\* that answered a challenge of this core.
THEOREM OperatorsAnswered == Spec => []CompletedForItsOperator
<1>1. IInv => CompletedForItsOperator
  BY DEF IInv
<1> QED
  BY <1>1, Invariant, PTL

\* A disabled button waits for a call that is in flight.
THEOREM NoButtonIsStuck == Spec => []BusyIsInFlight
<1>1. IInv => BusyIsInFlight
  BY DEF IInv
<1> QED
  BY <1>1, Invariant, PTL

--------------------------------------------------------------------------------
(* The cores behind the wizard *)

\* A core, seen as the service that the server's wizard implements.
Service(b) == INSTANCE GenesisService WITH core <- cores[b]

\* What the form sends is filled in.
CallsAreFilled ==
  \A c \in net :
    /\ c.op \in {"issue", "verify", "complete"} => c.key \in Operators
    /\ c.op = "complete" => c.label \in Labels

\* Only a click adds a call; an answer and a clean-up leave the others as they are.
LEMMA FilledStays ==
  ASSUME CallsAreFilled,
         \A c \in net' : \/ c \in net \/ c.op \in Queries
                         \/ \E d \in net : c.op = d.op /\ c.key = d.key /\ c.label = d.label
  PROVE  CallsAreFilled'
BY DEF CallsAreFilled, Queries

LEMMA ClickSendsFilled ==
  ASSUME CallsAreFilled, NEW op, NEW k \in Operators, NEW i, NEW l, Send(op, k, i, l),
         op = "complete" => l \in Labels
  PROVE  CallsAreFilled'
<1>1. PICK n \in 1..MaxCalls : net' = net \cup {Call(n, op, base, k, i, l)}
  BY DEF Send
<1>2. Call(n, op, base, k, i, l).op = op /\ Call(n, op, base, k, i, l).key = k
      /\ Call(n, op, base, k, i, l).label = l
  BY DEF Call
<1> QED
  BY <1>1, <1>2 DEF CallsAreFilled

\* A clean-up and a new question.
LEMMA AskKeepsFilled ==
  ASSUME CallsAreFilled, NEW b, NEW calls \in SUBSET net, AskVersion(b, calls)
  PROVE  CallsAreFilled'
<1>1. Query("version", b).op \in Queries
  BY DEF Query, Call, Queries
<1>2. \A c \in net' : c \in net \/ c.op \in Queries
  BY <1>1 DEF AskVersion, Uncancelled
<1> QED
  BY <1>2, FilledStays

LEMMA StepKeepsFilled ==
  ASSUME IInv, CallsAreFilled, [Next]_vars
  PROVE  CallsAreFilled'
<1>1. ASSUME net' = net PROVE CallsAreFilled'
  BY <1>1, FilledStays
<1>2. ASSUME User PROVE CallsAreFilled'
  <2>1. ASSUME NEW b \in Cores \cup {None}, SetCore(b) PROVE CallsAreFilled'
    BY <2>1, AskKeepsFilled DEF SetCore
  <2>2. ASSUME \/ Dismiss \/ GoBack \/ GoNext \/ EnterName \/ EnterOrgKey
               \/ \E l \in Labels \cup Dotted \cup {None} : EnterLabel(l)
               \/ \E k \in Operators : EnterKey(k) \/ PasteSignature(k)
        PROVE  net' = net
    BY <2>2 DEF Dismiss, GoBack, GoNext, EnterName, EnterOrgKey, EnterLabel, EnterKey, PasteSignature
  <2>3. WizardOK
    BY DEF IInv, TypeOK
  <2>4. /\ form.key # None => form.key \in Operators
        /\ challenge.sig # None => challenge.sig \in Operators
    BY <2>3 DEF WizardOK, Maybe
  <2>5. ASSUME ClickIssue PROVE CallsAreFilled'
    BY <2>4, <2>5, ClickSendsFilled DEF ClickIssue
  <2>6. ASSUME ClickVerify PROVE CallsAreFilled'
    BY <2>4, <2>6, ClickSendsFilled DEF ClickVerify
  <2>7. ASSUME ClickComplete PROVE CallsAreFilled'
    BY <2>4, <2>7, ClickSendsFilled DEF ClickComplete
  <2> QED
    BY <1>1, <1>2, <2>1, <2>2, <2>5, <2>6, <2>7 DEF User
<1>3. ASSUME NEW c \in net, Serve(c) PROVE CallsAreFilled'
  <2>1. PICK r : net' = (net \ {c}) \cup {[c EXCEPT !.reply = r]}
    BY <1>3 DEF Serve, Replied
  <2> DEFINE d == [c EXCEPT !.reply = r]
  <2>2. c \in Calls
    BY DEF IInv, TypeOK
  <2>3. d.op = c.op /\ d.key = c.key /\ d.label = c.label
    BY <2>2 DEF Calls
  <2> HIDE DEF d
  <2>4. \A e \in net' : e \in net \/ (e.op = c.op /\ e.key = c.key /\ e.label = c.label)
    BY <2>1, <2>3 DEF d
  <2> QED
    BY <2>4, FilledStays
<1>4. ASSUME NEW c \in net, Settle(c) PROVE CallsAreFilled'
  <2>1. Query("branding", base).op \in Queries
    BY DEF Query, Call, Queries
  <2>2. ASSUME NEW ok \in BOOLEAN, SettleComplete(c, ok) PROVE CallsAreFilled'
    <3>1. CASE ok
      BY <2>2, <3>1, AskKeepsFilled DEF SettleComplete
    <3>2. CASE ~ ok
      BY <2>2, <3>2, FilledStays DEF SettleComplete
    <3> QED
      BY <3>1, <3>2
  <2>3. ASSUME NEW ok \in BOOLEAN,
               SettleVersion(c, ok) \/ SettleBranding(c, ok) \/ SettleIssue(c, ok) \/ SettleVerify(c, ok)
        PROVE  CallsAreFilled'
    <3>1. \A d \in net' : d \in net \/ d.op \in Queries
      BY <2>1, <2>3 DEF SettleVersion, SettleBranding, SettleIssue, SettleVerify
    <3> QED
      BY <3>1, FilledStays
  <2> QED
    BY <1>4, <2>2, <2>3 DEF Settle
<1>5. ASSUME NEW b \in Cores, Elsewhere(b) PROVE CallsAreFilled'
  BY <1>1, <1>5 DEF Elsewhere
<1>6. CASE UNCHANGED vars
  BY <1>1, <1>6 DEF vars
<1> QED
  BY <1>2, <1>3, <1>4, <1>5, <1>6 DEF Next

\* What an operation makes of a core is a step of the service.
LEMMA OperationIsServed ==
  ASSUME NEW b \in Cores, NEW i \in Ids, NEW k \in Operators, NEW l \in Labels,
         \/ cores'[b] = Fresh
         \/ CanIssue(cores[b], i) /\ cores'[b] = Issued(cores[b], i, k)
         \/ CanVerify(cores[b], i, k) /\ cores'[b] = Verified(cores[b], i)
         \/ CanComplete(cores[b], i, k) /\ cores'[b] = Completed(cores[b], k, l)
  PROVE  Service(b)!Next
<1>1. CASE cores'[b] = Fresh
  BY <1>1 DEF Service!Next, Service!Reset, Service!Fresh, Fresh
<1>2. CASE CanIssue(cores[b], i) /\ cores'[b] = Issued(cores[b], i, k)
  <2>1. Service(b)!Issue(i, k)
    BY <1>2 DEF Service!Issue, Service!CanIssue, Service!Issued, CanIssue, Issued
  <2> QED
    BY <2>1 DEF Service!Next
<1>3. CASE CanVerify(cores[b], i, k) /\ cores'[b] = Verified(cores[b], i)
  <2>1. Service(b)!Verify(i, k)
    BY <1>3 DEF Service!Verify, Service!CanVerify, Service!Verified, CanVerify, Verified
  <2> QED
    BY <2>1 DEF Service!Next
<1>4. CASE CanComplete(cores[b], i, k) /\ cores'[b] = Completed(cores[b], k, l)
  <2>1. Service(b)!Complete(i, k, l)
    BY <1>4 DEF Service!Complete, Service!CanComplete, Service!Completed, CanComplete, Completed
  <2> QED
    BY <2>1 DEF Service!Next
<1> QED
  BY <1>1, <1>2, <1>3, <1>4

\* The ids of a core's challenges are among those that were issued.
LEMMA ChallengeIds ==
  ASSUME TypeOK, NEW b \in Cores
  PROVE  DOMAIN cores[b].challenges \subseteq Ids
<1>1. cores[b].challenges \in UNION {[D -> Challenges] : D \in SUBSET Ids}
  BY DEF TypeOK, CoresOK, CoreStates
<1> QED
  BY <1>1

\* One step changes at most one core, by one operation.
LEMMA CoreStep ==
  ASSUME IInv, CallsAreFilled, [Next]_vars, NEW b \in Cores
  PROVE  Service(b)!Next \/ cores'[b] = cores[b]
<1>1. TypeOK /\ cores \in [Cores -> CoreStates] /\ issued \in 0..MaxChallenges
      /\ MaxChallenges \in Nat /\ Default \in Labels
  BY ClientShape DEF IInv, TypeOK, CoresOK
<1>2. issued < MaxChallenges => issued + 1 \in Ids
  BY <1>1 DEF Ids
<1>3. ASSUME NEW d \in Cores, NEW new, cores' = [cores EXCEPT ![d] = new]
      PROVE  cores'[b] = cores[b] \/ (d = b /\ cores'[b] = new)
  BY <1>1, <1>3
<1>4. ASSUME NEW c \in net, Serve(c) PROVE Service(b)!Next \/ cores'[b] = cores[b]
  <2> DEFINE core == cores[c.base]
  <2>1. c.base \in Cores
    BY <1>1 DEF TypeOK, Calls
  <2>2. /\ c.op \in {"issue", "verify", "complete"} => c.key \in Operators
        /\ c.op = "complete" => c.label \in Labels
    BY DEF CallsAreFilled
  <2>3. CASE UNCHANGED cores
    BY <2>3
  <2>4. CASE /\ c.op = "issue" /\ issued < MaxChallenges /\ CanIssue(core, issued + 1)
             /\ cores' = [cores EXCEPT ![c.base] = Issued(core, issued + 1, c.key)]
    BY <1>1, <1>2, <1>3, <2>1, <2>2, <2>4, OperationIsServed
  <2>5. CASE /\ c.op = "verify" /\ CanVerify(core, c.id, c.key)
             /\ cores' = [cores EXCEPT ![c.base] = Verified(core, c.id)]
    <3>1. c.id \in Ids
      BY <1>1, <2>1, <2>5, ChallengeIds DEF CanVerify
    <3> QED
      BY <1>1, <1>3, <2>1, <2>2, <2>5, <3>1, OperationIsServed
  <2>6. CASE /\ c.op = "complete" /\ CanComplete(core, c.id, c.key)
             /\ cores' = [cores EXCEPT ![c.base] = Completed(core, c.key, c.label)]
    <3>1. c.id \in Ids
      BY <1>1, <2>1, <2>6, ChallengeIds DEF CanComplete
    <3> QED
      BY <1>3, <2>1, <2>2, <2>6, <3>1, OperationIsServed
  <2> QED
    BY <1>4, <2>3, <2>4, <2>5, <2>6 DEF Serve
<1>5. ASSUME NEW d \in Cores, Elsewhere(d) PROVE Service(b)!Next \/ cores'[b] = cores[b]
  <2>1. CASE cores' = [cores EXCEPT ![d] = Fresh]
    <3>1. cores'[b] = Fresh => Service(b)!Next
      BY DEF Service!Next, Service!Reset, Service!Fresh, Fresh
    <3> QED
      BY <1>3, <2>1, <3>1
  <2>2. ASSUME NEW k \in Operators, issued < MaxChallenges, CanIssue(cores[d], issued + 1),
               cores' = [cores EXCEPT ![d] = Issued(@, issued + 1, k)]
        PROVE  Service(b)!Next \/ cores'[b] = cores[b]
    BY <1>1, <1>2, <1>3, <2>2, OperationIsServed
  <2>3. ASSUME NEW i \in Ids, NEW k \in Operators, CanVerify(cores[d], i, k),
               cores' = [cores EXCEPT ![d] = Verified(@, i)]
        PROVE  Service(b)!Next \/ cores'[b] = cores[b]
    BY <1>1, <1>3, <2>3, OperationIsServed
  <2>4. ASSUME NEW i \in Ids, NEW k \in Operators, NEW l \in Labels, CanComplete(cores[d], i, k),
               cores' = [cores EXCEPT ![d] = Completed(@, k, l)]
        PROVE  Service(b)!Next \/ cores'[b] = cores[b]
    BY <1>3, <2>4, OperationIsServed
  <2> QED
    BY <1>5, <2>1, <2>2, <2>3, <2>4 DEF Elsewhere
<1>6. ASSUME User \/ (\E c \in net : Settle(c)) \/ UNCHANGED vars PROVE UNCHANGED cores
  BY <1>6 DEF User, Settle, SetCore, Dismiss, GoBack, GoNext, EnterLabel, EnterKey, EnterName,
              EnterOrgKey, PasteSignature, ClickIssue, ClickVerify, ClickComplete, vars
<1> QED
  BY <1>4, <1>5, <1>6 DEF Next

\* Every core the wizard talks to behaves like the abstract service, whatever the
\* browser sends and when, and whoever else is at work: what Genesis is shown to
\* implement is what this module relies on.
THEOREM CoresAreServices ==
  Spec => /\ \A b \in Cores : Service(b)!Init
          /\ [][\A b \in Cores : Service(b)!Next \/ cores'[b] = cores[b]]_vars
<1>1. Init => \A b \in Cores : Service(b)!Init
  BY DEF Init, Service!Init, Service!Fresh, Fresh
<1>2. Init => CallsAreFilled
  BY DEF Init, CallsAreFilled, Query, Call
<1>3. IInv /\ CallsAreFilled /\ [Next]_vars => CallsAreFilled'
  BY StepKeepsFilled
<1>4. IInv /\ CallsAreFilled /\ [Next]_vars =>
        \A b \in Cores : Service(b)!Next \/ cores'[b] = cores[b]
  BY CoreStep
<1> QED
  BY <1>1, <1>2, <1>3, <1>4, Invariant, PTL DEF Spec
================================================================================
