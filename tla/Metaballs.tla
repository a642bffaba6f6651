-------------------------------- MODULE Metaballs --------------------------------
(***************************************************************************)
(* The metaball background: how many balls there are.  Two balls that      *)
(* touch leave the list and come back as one when their blending is over;  *)
(* a large ball splits in two, with a pause between two splits.  Positions *)
(* and radii are abstracted to whether a pair touches and a ball is large. *)
(***************************************************************************)
LOCAL INSTANCE Integers

CONSTANTS MIN_BALLS, MAX_BALLS, SEED_BALLS,
          MERGE_BLEND, SPLIT_COOLDOWN     \* durations, in the unit of elapsed
ASSUME BallsAssumption ==
  /\ MIN_BALLS \in Nat /\ MAX_BALLS \in Nat /\ SEED_BALLS \in MIN_BALLS..MAX_BALLS
  /\ MIN_BALLS >= 2
  /\ MERGE_BLEND \in Nat \ {0} /\ SPLIT_COOLDOWN \in Nat /\ MERGE_BLEND <= SPLIT_COOLDOWN

VARIABLES
  balls,        \* ballsRef: length of the list, 0 before it is seeded
  blending,     \* mergeAnimRef: what is left of the blending, 0 when there is none
  sinceSplit    \* time since lastSplitTime, up to SPLIT_COOLDOWN
ballsVars == <<balls, blending, sinceSplit>>

\* Time passes: up to the end of the pause, down to the end of the blending.
Later(t, e) == IF t + e > SPLIT_COOLDOWN THEN SPLIT_COOLDOWN ELSE t + e
Less(t, e) == IF t > e THEN t - e ELSE 0

\* The component is mounted.
BallsInit == balls = 0 /\ blending = 0 /\ sinceSplit = 0

\* A new mount: the refs are gone.
BallsGone == balls' = 0 /\ blending' = 0 /\ sinceSplit' = 0

\* The effect's clean-up: a pair that blends is not put back.
BallsStopped == blending' = 0 /\ UNCHANGED <<balls, sinceSplit>>

\* The effect runs: resize seeds the first list.  Its clean-up came before.
BallsShown ==
  /\ balls' = IF balls = 0 THEN SEED_BALLS ELSE balls
  /\ blending' = 0
  /\ UNCHANGED sinceSplit

\* trySplit, and the pause before it.
MaySplit(n, since) == n < MAX_BALLS /\ since >= SPLIT_COOLDOWN

\* beginMerge.
MayMerge(n, left) == left = 0 /\ n > MIN_BALLS

\* A frame, this long after the last one; is a ball large, does a pair touch.
BallsFrame(elapsed, large, touch, animate) ==
  LET left == Less(blending, elapsed)
      back == IF blending > 0 /\ left = 0 THEN balls + 1 ELSE balls
      since == Later(sinceSplit, elapsed)
      splits == animate /\ large /\ MaySplit(back, since)
      list == IF splits THEN back + 1 ELSE back
      merges == animate /\ touch /\ MayMerge(list, left)
  IN  /\ balls' = IF merges THEN list - 2 ELSE list
      /\ blending' = IF merges THEN MERGE_BLEND ELSE left
      /\ sinceSplit' = IF splits THEN 0 ELSE since

\* Balls to come: the list and the one that is being blended.
BallsAll == balls + (IF blending > 0 THEN 1 ELSE 0)

\* Bounds of the population through merging, splitting and interruptions: never
\* more than MAX_BALLS, and an interruption costs at most one ball below MIN_BALLS
\* (the comment of the component promises MIN_BALLS; a pair whose blending is
\* interrupted by a change of preset or of motion is lost as a whole).
BallsBounded == balls > 0 => BallsAll \in (MIN_BALLS - 1)..MAX_BALLS
================================================================================
