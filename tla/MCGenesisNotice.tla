---------------------------- MODULE MCGenesisNotice ----------------------------
(* The browser's wizard with two cores, two operators and one root name.   *)
EXTENDS GenesisNotice, TLC

CONSTANTS modulr

\* Two calls of the wizard at once go to one core, with no query beside them and the
\* other core untouched; a name with a dot, which blocks the step, is typed while none
\* is in flight.
IsSmall ==
  /\ form.label \in Labels \/ WizardCalls = {}
  /\ Cardinality(WizardCalls) = 2 =>
       /\ net = WizardCalls
       /\ \E b \in Cores : (\A c \in net : c.base = b) /\ (\A o \in Cores \ {b} : cores[o] = Fresh)

Interchangeable == Permutations(Operators) \cup Permutations(Cores)
================================================================================
