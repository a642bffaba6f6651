-------------------------------- MODULE LifeBoard --------------------------------
(***************************************************************************)
(* The Game of Life background: a board on a torus that is seeded anew     *)
(* when it has grown empty, has stopped changing or has run for long.  A   *)
(* board is the set of its living cells.                                   *)
(***************************************************************************)
EXTENDS Integers, FiniteSets

CONSTANTS Columns, Rows,
          LifeSeeds,     \* boards that randomSeed may return
          MIN_POPULATION, STAGNANT_GENS_LIMIT, MAX_GENS_BEFORE_RESEED
ASSUME LifeAssumption ==
  /\ Columns \in Nat \ {0} /\ Rows \in Nat \ {0}
  /\ LifeSeeds \subseteq SUBSET ((0..Columns-1) \X (0..Rows-1)) /\ LifeSeeds # {}
  /\ MIN_POPULATION \in Nat
  /\ STAGNANT_GENS_LIMIT \in Nat /\ MAX_GENS_BEFORE_RESEED \in Nat

VARIABLES board, stagnant, gens     \* curRef, stagnant, genCount
lifeVars == <<board, stagnant, gens>>

Cells == (0..Columns-1) \X (0..Rows-1)

Neighbours(c) ==
  {<<(c[1] + dx + Columns) % Columns, (c[2] + dy + Rows) % Rows>> :
     dx \in -1..1, dy \in -1..1} \ {c}

\* stepConway; on boards of three columns and rows or more.
Generation(b) ==
  {c \in Cells : LET n == Cardinality(Neighbours(c) \cap b)
                 IN  n = 3 \/ (n = 2 /\ c \in b)}

\* The field is not shown: what the refs hold is replaced before it is read again.
LifeIdle == board = {} /\ stagnant = 0 /\ gens = 0
LifeHidden == board' = {} /\ stagnant' = 0 /\ gens' = 0

\* reseed; also resizeAndMaybeSeed, which the effect and every resize call.
Reseeded == board' \in LifeSeeds /\ stagnant' = 0 /\ gens' = 0

\* The three reasons to seed anew.
Tired(next, still, age) ==
  \/ Cardinality(next) < MIN_POPULATION
  \/ still > STAGNANT_GENS_LIMIT
  \/ age > MAX_GENS_BEFORE_RESEED

\* A frame with animation, STEP_MS after the last generation.
LifeStep ==
  LET next == Generation(board)
      still == IF next = board THEN stagnant + 1 ELSE 0
      age == gens + 1
  IN  IF Tired(next, still, age) THEN Reseeded
      ELSE board' = next /\ stagnant' = still /\ gens' = age

\* A board never outlives the limits, and one below the minimal population is on
\* display only as long as a random seed itself is.
LifeStaysLively ==
  /\ stagnant <= STAGNANT_GENS_LIMIT /\ gens <= MAX_GENS_BEFORE_RESEED
  /\ Cardinality(board) < MIN_POPULATION => gens = 0
  /\ stagnant > 0 => Generation(board) = board
================================================================================
