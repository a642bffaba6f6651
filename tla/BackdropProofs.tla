----------------------------- MODULE BackdropProofs -----------------------------
(***************************************************************************)
(* Proofs about the background, for any bounds of the population, any      *)
(* board and any wall.                                                     *)
(***************************************************************************)
EXTENDS Backdrop, TLAPS

LoopTypes ==
  /\ enabled \in BOOLEAN /\ preset \in Presets /\ motionOk \in BOOLEAN /\ tabVisible \in BOOLEAN
  /\ frames \in [Fields -> Nat] /\ listeners \in [Fields -> Nat]

\* The list is short of a pair only while the pair blends, and then there is room
\* for the ball that comes back: a split that takes the last place but one starts
\* the pause, and no blending is longer than that.
BallsInv ==
  /\ balls \in 0..MAX_BALLS /\ blending \in 0..MERGE_BLEND /\ sinceSplit \in 0..SPLIT_COOLDOWN
  /\ balls = 0 => blending = 0
  /\ balls > 0 => balls >= MIN_BALLS - 1
  /\ blending > 0 => \/ balls <= MAX_BALLS - 2
                     \/ balls = MAX_BALLS - 1 /\ blending + sinceSplit <= SPLIT_COOLDOWN

LifeTypes == stagnant \in Nat /\ gens \in Nat

BrickTypes ==
  /\ wall \in [1..WallColumns -> Nat]
  /\ moved \in Int /\ score \in Int /\ owed \in Int
  /\ bricksSincePaddle \in Nat /\ consecutiveEmptyRallies \in Nat
  /\ debt \in BOOLEAN /\ pause \in {"none", "win", "lose"}
  /\ winOverlay \in BOOLEAN /\ loseOverlay \in BOOLEAN

BricksOK == BrickTypes /\ NoBrickPasses /\ MovesAreOwed /\ ShownIsPlayed

\* A field is seeded before its first frame.
SeededWhenShown == Shown("metaballs") => balls > 0

IInv ==
  /\ LoopTypes /\ OneLoopWhileShown
  /\ BallsInv /\ SeededWhenShown
  /\ LifeTypes /\ LifeStaysLively
  /\ BricksOK

--------------------------------------------------------------------------------
(* The three games *)

\* Whatever happens in a frame, the population stays within its bounds.
LEMMA BallsFrameStep ==
  ASSUME BallsInv, balls > 0, NEW elapsed \in 1..SPLIT_COOLDOWN,
         NEW large \in BOOLEAN, NEW touch \in BOOLEAN, motionOk \in BOOLEAN,
         BallsFrame(elapsed, large, touch, motionOk)
  PROVE  BallsInv' /\ balls' > 0
<1> DEFINE left == IF blending > elapsed THEN blending - elapsed ELSE 0
           back == IF blending > 0 /\ left = 0 THEN balls + 1 ELSE balls
           since == IF sinceSplit + elapsed > SPLIT_COOLDOWN THEN SPLIT_COOLDOWN
                    ELSE sinceSplit + elapsed
           splits == motionOk /\ large /\ back < MAX_BALLS /\ since >= SPLIT_COOLDOWN
           list == IF splits THEN back + 1 ELSE back
           merges == motionOk /\ touch /\ left = 0 /\ list > MIN_BALLS
<1>1. /\ balls' = IF merges THEN list - 2 ELSE list
      /\ blending' = IF merges THEN MERGE_BLEND ELSE left
      /\ sinceSplit' = IF splits THEN 0 ELSE since
  BY DEF BallsFrame, Later, Less, MaySplit, MayMerge
<1>2. /\ MIN_BALLS \in Nat /\ MAX_BALLS \in Nat /\ MIN_BALLS >= 2 /\ MIN_BALLS <= MAX_BALLS
      /\ MERGE_BLEND \in Nat /\ SPLIT_COOLDOWN \in Nat /\ MERGE_BLEND <= SPLIT_COOLDOWN
  BY BallsAssumption
<1>3. /\ balls \in Int /\ balls >= MIN_BALLS - 1 /\ balls <= MAX_BALLS
      /\ blending \in Nat /\ blending <= MERGE_BLEND
      /\ sinceSplit \in Nat /\ sinceSplit <= SPLIT_COOLDOWN
      /\ blending > 0 => \/ balls <= MAX_BALLS - 2
                         \/ balls = MAX_BALLS - 1 /\ blending + sinceSplit <= SPLIT_COOLDOWN
  BY <1>2 DEF BallsInv
<1>4. /\ left \in Nat /\ left <= MERGE_BLEND
      /\ since \in Nat /\ since <= SPLIT_COOLDOWN
      /\ back \in Int /\ back >= MIN_BALLS - 1 /\ back <= MAX_BALLS
  BY <1>2, <1>3
\* While the blending lasts, the sum of its rest and of the pause does not grow.
<1>5. left > 0 => /\ back = balls
                  /\ \/ balls <= MAX_BALLS - 2
                     \/ balls = MAX_BALLS - 1 /\ left + since <= SPLIT_COOLDOWN
  BY <1>2, <1>3
<1> HIDE DEF left, back, since
<1>6. /\ list \in Int /\ list >= MIN_BALLS - 1 /\ list <= MAX_BALLS
  BY <1>2, <1>4
<1>7. CASE left > 0
  <2>1. ~ merges
    BY <1>7
  <2>2. balls' = list /\ blending' = left
    BY <1>1, <2>1
  <2>3. CASE splits
    <3>1. back <= MAX_BALLS - 2
      BY <1>2, <1>3, <1>4, <1>5, <1>7, <2>3
    <3>2. list = back + 1 /\ sinceSplit' = 0
      BY <1>1, <2>3
    <3> QED
      BY <1>2, <1>4, <1>6, <1>7, <2>2, <3>1, <3>2 DEF BallsInv
  <2>4. CASE ~ splits
    <3>1. list = back /\ sinceSplit' = since
      BY <1>1, <2>4
    <3> QED
      BY <1>2, <1>4, <1>5, <1>7, <2>2, <3>1 DEF BallsInv
  <2> QED
    BY <2>3, <2>4
<1>8. CASE left = 0
  <2>1. sinceSplit' \in 0..SPLIT_COOLDOWN
    BY <1>1, <1>2, <1>4
  <2>2. CASE merges
    <3>1. balls' = list - 2 /\ blending' = MERGE_BLEND /\ list > MIN_BALLS
      BY <1>1, <2>2
    <3> HIDE DEF list
    <3>2. balls' \in Int /\ balls' >= MIN_BALLS - 1 /\ balls' <= MAX_BALLS - 2 /\ balls' > 0
      BY <1>2, <1>6, <3>1
    <3>3. balls' \in 0..MAX_BALLS /\ blending' \in 0..MERGE_BLEND
      BY <1>2, <3>1, <3>2
    <3> QED
      BY <2>1, <3>2, <3>3 DEF BallsInv
  <2>3. CASE ~ merges
    <3>1. balls' = list /\ blending' = 0
      BY <1>1, <1>8, <2>3
    <3> QED
      BY <1>2, <1>6, <2>1, <3>1 DEF BallsInv
  <2> QED
    BY <2>2, <2>3
<1> QED
  BY <1>4, <1>7, <1>8

\* The bounds of the population are those of the list and of the ball to come.
LEMMA BallsInvBounds ==
  ASSUME BallsInv
  PROVE  BallsBounded
BY BallsAssumption DEF BallsInv, BallsBounded, BallsAll

\* A generation that is not a reason to seed anew is within the limits.
LEMMA LifeStepKeeps ==
  ASSUME LifeTypes, LifeStaysLively, LifeStep
  PROVE  LifeTypes' /\ LifeStaysLively'
<1> DEFINE next == Generation(board)
           still == IF next = board THEN stagnant + 1 ELSE 0
           age == gens + 1
<1>1. still \in Nat /\ age \in Nat
  BY DEF LifeTypes
<1>2. STAGNANT_GENS_LIMIT \in Nat /\ MAX_GENS_BEFORE_RESEED \in Nat
  BY LifeAssumption
<1>3. CASE Reseeded
  BY <1>2, <1>3 DEF Reseeded, LifeTypes, LifeStaysLively
<1>4. CASE ~ Tired(next, still, age) /\ board' = next /\ stagnant' = still /\ gens' = age
  <2>1. /\ ~ Cardinality(board') < MIN_POPULATION
        /\ ~ still > STAGNANT_GENS_LIMIT /\ ~ age > MAX_GENS_BEFORE_RESEED
    BY <1>4 DEF Tired
  <2>2. stagnant' <= STAGNANT_GENS_LIMIT /\ gens' <= MAX_GENS_BEFORE_RESEED
    BY <1>1, <1>2, <1>4, <2>1
  <2>3. stagnant' > 0 => Generation(board') = board'
    <3>1. still > 0 => next = board
      OBVIOUS
    <3> HIDE DEF still
    <3> QED
      BY <1>4, <3>1
  <2> QED
    BY <1>1, <1>4, <2>1, <2>2, <2>3 DEF LifeTypes, LifeStaysLively
<1> QED
  BY <1>3, <1>4 DEF LifeStep

LEMMA LifeRestarts ==
  ASSUME LifeHidden \/ Reseeded
  PROVE  LifeTypes' /\ LifeStaysLively'
BY LifeAssumption DEF LifeHidden, Reseeded, LifeTypes, LifeStaysLively

\* Every wall a level starts with, and the empty one, has its columns.
LEMMA WallShapes ==
  /\ NoWall \in [1..WallColumns -> Nat] /\ Walls \subseteq [1..WallColumns -> Nat]
  /\ StartGap \in Nat /\ StartGap > 0
BY WallAssumption DEF NoWall

LEMMA NoRally == rallyScoreMultiplier(0) = 1
BY DEF rallyScoreMultiplier

\* A level starts with every brick away from the paddle and nothing owed.
LEMMA NewLevelStep ==
  ASSUME NewLevel, winOverlay' = FALSE, loseOverlay' = FALSE
  PROVE  BricksOK'
<1>1. /\ wall' \in [1..WallColumns -> Nat] /\ moved' = 0 /\ owed' = 0 /\ score' = 0
      /\ debt' = FALSE /\ consecutiveEmptyRallies' = 0 /\ pause' = "none"
      /\ bricksSincePaddle' = 0 /\ multiplier' = 1
  BY WallShapes DEF NewLevel, BallReset
<1>2. NoBrickPasses'
  <2>1. \A c \in 1..WallColumns : StartGap + (c - 1) - 0 > 0
    BY WallShapes
  <2> QED
    BY <1>1, <2>1, WallShapes DEF NoBrickPasses, Distance
<1>3. MovesAreOwed'
  BY <1>1 DEF MovesAreOwed
<1>4. ShownIsPlayed'
  BY <1>1, NoRally DEF ShownIsPlayed
<1>5. BrickTypes'
  <2>1. /\ moved' \in Int /\ score' \in Int /\ owed' \in Int
        /\ bricksSincePaddle' \in Nat /\ consecutiveEmptyRallies' \in Nat
    BY <1>1
  <2>2. /\ debt' \in BOOLEAN /\ pause' \in {"none", "win", "lose"}
        /\ winOverlay' \in BOOLEAN /\ loseOverlay' \in BOOLEAN
    BY <1>1
  <2> QED
    BY <1>1, <2>1, <2>2 DEF BrickTypes
<1> QED
  BY <1>2, <1>3, <1>4, <1>5 DEF BricksOK

LEMMA HiddenBricks ==
  ASSUME BricksHidden
  PROVE  BricksOK'
<1>1. \A c \in 1..WallColumns : NoWall[c] = 0
  BY DEF NoWall
<1>2. NoBrickPasses'
  BY <1>1 DEF BricksHidden, NoBrickPasses
<1>3. BrickTypes'
  <2>1. wall' \in [1..WallColumns -> Nat]
    BY WallShapes DEF BricksHidden
  <2>2. /\ moved' \in Int /\ score' \in Int /\ owed' \in Int
        /\ bricksSincePaddle' \in Nat /\ consecutiveEmptyRallies' \in Nat
    BY DEF BricksHidden
  <2>3. /\ debt' \in BOOLEAN /\ pause' \in {"none", "win", "lose"}
        /\ winOverlay' \in BOOLEAN /\ loseOverlay' \in BOOLEAN
    BY DEF BricksHidden
  <2> QED
    BY <2>1, <2>2, <2>3 DEF BrickTypes
<1>4. MovesAreOwed' /\ ShownIsPlayed'
  BY NoRally DEF BricksHidden, MovesAreOwed, ShownIsPlayed
<1> QED
  BY <1>2, <1>3, <1>4 DEF BricksOK

\* In play no brick touches the paddle.
Clear(w, shift) == \A c \in 1..WallColumns : w[c] > 0 => Distance(c, shift) > 0

\* Moving by one width, bricks that were clear of the paddle are so again, or the
\* first of them is on it.
LEMMA OneMove ==
  ASSUME NEW w \in [1..WallColumns -> Nat], NEW shift \in Int, Clear(w, shift)
  PROVE  /\ \A c \in 1..WallColumns : w[c] > 0 => Distance(c, shift + 1) >= 0
         /\ ~ HitsPaddle(w, shift + 1) => Clear(w, shift + 1)
<1>1. \A c \in 1..WallColumns :
        /\ Distance(c, shift) \in Int /\ Distance(c, shift + 1) = Distance(c, shift) - 1
  BY WallShapes DEF Distance
<1> QED
  BY <1>1 DEF Clear, HitsPaddle

LEMMA PlayStep ==
  ASSUME BricksOK, pause = "none", NEW shift \in Int,
         shift = moved + (IF debt THEN 1 ELSE 0), Clear(wall, shift),
         NEW paddle \in BOOLEAN, NEW miss \in BOOLEAN, NEW hit \in 0..WallColumns,
         hit > 0 => wall[hit] > 0, Play(shift, paddle, hit, miss)
  PROVE  BricksOK'
<1> DEFINE empty == paddle /\ bricksSincePaddle = 0
           empties == IF empty THEN consecutiveEmptyRallies + 1
                      ELSE IF paddle THEN 0 ELSE consecutiveEmptyRallies
           penalty == IF empty THEN emptyRallyPenalty(empties) ELSE 0
           further == IF empty /\ empties >= 5 THEN 1 ELSE 0
           below == IF FallsIntoDebt(score, penalty) THEN 1 ELSE 0
           dead == paddle /\ HitsPaddle(wall, shift + further)
           rally == (IF paddle /\ ~ dead THEN 0 ELSE bricksSincePaddle)
                    + (IF hit > 0 /\ ~ dead THEN 1 ELSE 0)
           gain == IF hit > 0 /\ ~ dead THEN rallyScoreMultiplier(rally) ELSE 0
<1>1. /\ consecutiveEmptyRallies' = empties
      /\ moved' = shift + further
      /\ owed' = owed + further + below
      /\ debt' = ((IF debt THEN DebtPaid ELSE FALSE) \/ below = 1)
      /\ score' = score - penalty + gain
      /\ bricksSincePaddle' = rally
      /\ IF dead THEN wall' = wall /\ UNCHANGED multiplier /\ GameOver
         ELSE /\ wall' = IF hit > 0 THEN [wall EXCEPT ![hit] = @ - 1] ELSE wall
              /\ multiplier' = IF paddle \/ hit > 0 THEN rallyScoreMultiplier(rally)
                               ELSE multiplier
              /\ Outcome(miss)
  BY DEF Play
<1>2. BrickTypes /\ MovesAreOwed /\ ShownIsPlayed
  BY DEF BricksOK
<1>3. /\ wall \in [1..WallColumns -> Nat] /\ moved \in Int /\ score \in Int /\ owed \in Int
      /\ bricksSincePaddle \in Nat /\ consecutiveEmptyRallies \in Nat /\ debt \in BOOLEAN
      /\ winOverlay = FALSE /\ loseOverlay = FALSE
      /\ multiplier = rallyScoreMultiplier(bricksSincePaddle)
  BY <1>2 DEF BrickTypes, ShownIsPlayed
<1>4. empties \in Nat /\ further \in {0, 1} /\ below \in {0, 1} /\ (further = 1 => paddle)
  BY <1>3
<1>5. penalty \in Nat
  BY <1>3 DEF emptyRallyPenalty
<1>6. rally \in Nat
  BY <1>3
<1>7. gain \in Nat
  <2> HIDE DEF rally
  <2> QED
    BY <1>6 DEF rallyScoreMultiplier
<1>8. dead => paddle /\ HitsPaddle(wall, shift + further)
  OBVIOUS
<1>9. dead => rally = bricksSincePaddle
  BY <1>3
<1>10. ~ paddle /\ hit = 0 => rally = bricksSincePaddle
  BY <1>3
<1>11. paddle /\ ~ dead => ~ HitsPaddle(wall, shift + further)
  OBVIOUS
<1> HIDE DEF empty, empties, penalty, further, below, dead, rally, gain
<1>12. MovesAreOwed'
  <2>1. moved + (IF debt THEN 1 ELSE 0) = owed
    BY <1>2 DEF MovesAreOwed
  <2>2. debt' = (below = 1)
    BY <1>1 DEF DebtPaid
  <2> QED
    BY <1>1, <1>3, <1>4, <2>1, <2>2 DEF MovesAreOwed
<1>13. /\ moved' \in Int /\ score' \in Int /\ owed' \in Int /\ debt' \in BOOLEAN
       /\ bricksSincePaddle' \in Nat /\ consecutiveEmptyRallies' \in Nat
  BY <1>1, <1>3, <1>4, <1>5, <1>6, <1>7 DEF DebtPaid
<1>14. /\ \A c \in 1..WallColumns : wall[c] > 0 => Distance(c, moved') >= 0
       /\ ~ HitsPaddle(wall, moved') => Clear(wall, moved')
       /\ ~ paddle => Clear(wall, moved')
  <2>1. CASE further = 1
    BY <1>1, <1>3, <1>4, <2>1, OneMove
  <2>2. CASE further = 0
    <3>1. moved' = shift
      BY <1>1, <2>2
    <3>2. \A c \in 1..WallColumns : Distance(c, moved') \in Int
      BY <1>13, WallShapes DEF Distance
    <3> QED
      BY <3>1, <3>2 DEF Clear
  <2> QED
    BY <1>4, <2>1, <2>2
<1>15. CASE dead
  <2>1. wall' = wall /\ UNCHANGED multiplier /\ pause' = "lose" /\ loseOverlay' = TRUE
        /\ UNCHANGED winOverlay
    BY <1>1, <1>15 DEF GameOver
  <2>2. NoBrickPasses'
    BY <1>14, <2>1 DEF NoBrickPasses, Distance
  <2>3. ShownIsPlayed'
    BY <1>1, <1>3, <1>9, <1>15, <2>1 DEF ShownIsPlayed
  <2> QED
    BY <1>3, <1>12, <1>13, <2>1, <2>2, <2>3 DEF BricksOK, BrickTypes
<1>16. CASE ~ dead
  <2>1. /\ wall' = IF hit > 0 THEN [wall EXCEPT ![hit] = @ - 1] ELSE wall
        /\ multiplier' = IF paddle \/ hit > 0 THEN rallyScoreMultiplier(rally) ELSE multiplier
        /\ Outcome(miss)
    BY <1>1, <1>16
  <2>2. wall' \in [1..WallColumns -> Nat] /\ \A c \in 1..WallColumns : wall'[c] > 0 => wall[c] > 0
    BY <1>3, <2>1
  <2>3. Clear(wall, moved')
    BY <1>1, <1>11, <1>14, <1>16
  <2>4. NoBrickPasses'
    <3>1. \A c \in 1..WallColumns : Distance(c, moved') \in Int
      BY <1>13, WallShapes DEF Distance
    <3>2. \A c \in 1..WallColumns : wall'[c] > 0 => Distance(c, moved') >= 0 /\ Distance(c, moved') # 0
      BY <2>2, <2>3, <3>1 DEF Clear
    <3> QED
      BY <3>2 DEF NoBrickPasses, Distance
  <2>5. \/ pause' = "win" /\ winOverlay' = TRUE /\ UNCHANGED loseOverlay
        \/ pause' = "lose" /\ loseOverlay' = TRUE /\ UNCHANGED winOverlay
        \/ UNCHANGED <<pause, winOverlay, loseOverlay>>
    BY <2>1 DEF Outcome, GameOver, overlays
  <2>6. multiplier' = rallyScoreMultiplier(rally)
    BY <1>3, <1>10, <2>1
  <2>7. ShownIsPlayed'
    BY <1>1, <1>3, <2>5, <2>6 DEF ShownIsPlayed
  <2> QED
    BY <1>3, <1>12, <1>13, <2>2, <2>4, <2>5, <2>7 DEF BricksOK, BrickTypes
<1> QED
  BY <1>15, <1>16

LEMMA BricksFrameStep ==
  ASSUME BricksOK, NEW paddle \in BOOLEAN, NEW miss \in BOOLEAN, NEW hit \in 0..WallColumns,
         hit > 0 => wall[hit] > 0, BricksFrame(paddle, hit, miss)
  PROVE  BricksOK'
<1> DEFINE shift == IF debt THEN moved + 1 ELSE moved
<1>1. /\ BrickTypes /\ NoBrickPasses /\ MovesAreOwed /\ ShownIsPlayed
      /\ moved \in Int /\ debt \in BOOLEAN /\ wall \in [1..WallColumns -> Nat]
  BY DEF BricksOK, BrickTypes
<1>2. pause = "none"
  BY DEF BricksFrame
<1>3. shift \in Int /\ shift = moved + (IF debt THEN 1 ELSE 0)
  BY <1>1
<1>4. Clear(wall, moved)
  <2>1. \A c \in 1..WallColumns : Distance(c, moved) \in Int
    BY <1>1, WallShapes DEF Distance
  <2> QED
    BY <1>1, <1>2, <2>1 DEF NoBrickPasses, Clear
<1>5. CASE DeadByDebt(shift)
  <2>1. /\ moved' = shift /\ debt' = FALSE /\ pause' = "lose" /\ loseOverlay' = TRUE
        /\ UNCHANGED <<winOverlay, wall, score, bricksSincePaddle, consecutiveEmptyRallies,
                       multiplier, owed>>
    BY <1>5 DEF BricksFrame, GameOver, DebtPaid
  <2>2. debt /\ shift = moved + 1
    BY <1>5 DEF DeadByDebt
  <2>3. NoBrickPasses'
    BY <1>1, <1>4, <2>1, <2>2, OneMove DEF NoBrickPasses, Distance
  <2>4. MovesAreOwed'
    BY <1>1, <2>1, <2>2 DEF MovesAreOwed
  <2>5. ShownIsPlayed'
    BY <1>1, <1>2, <2>1 DEF ShownIsPlayed
  <2> QED
    BY <1>1, <1>3, <2>1, <2>3, <2>4, <2>5 DEF BricksOK, BrickTypes
<1>6. CASE ~ DeadByDebt(shift)
  <2>1. Play(shift, paddle, hit, miss)
    BY <1>6 DEF BricksFrame
  <2>2. Clear(wall, shift)
    <3>1. CASE debt
      <4>1. ~ HitsPaddle(wall, moved + 1)
        BY <1>6, <3>1 DEF DeadByDebt
      <4> QED
        BY <1>1, <1>4, <3>1, <4>1, OneMove
    <3>2. CASE ~ debt
      BY <1>4, <3>2
    <3> QED
      BY <3>1, <3>2
  <2> QED
    BY <1>2, <1>3, <2>1, <2>2, PlayStep
<1> QED
  BY <1>5, <1>6

LEMMA ResumeStep ==
  ASSUME BricksOK, Resume
  PROVE  BricksOK'
<1>1. winOverlay' = FALSE /\ loseOverlay' = FALSE
  BY DEF BricksOK, BrickTypes, ShownIsPlayed, Resume, PauseOver
<1> QED
  BY <1>1, NewLevelStep DEF Resume

--------------------------------------------------------------------------------
(* The loops *)

\* One field's loop and listener.
OneLoop(f) ==
  /\ listeners[f] = (IF Shown(f) THEN 1 ELSE 0)
  /\ IF ~ Shown(f) THEN frames[f] = 0
     ELSE IF f = "metaballs" /\ ~ motionOk THEN frames[f] <= 1
     ELSE frames[f] = 1

\* Clean-up and effect leave one loop, or none, whatever the change was.
LEMMA SetLoops ==
  ASSUME LoopTypes, OneLoopWhileShown, NEW on \in BOOLEAN, NEW p \in Presets,
         NEW motion \in BOOLEAN, Set(on, p, motion)
  PROVE  LoopTypes' /\ OneLoopWhileShown'
<1> DEFINE reruns == {f \in Fields : Reruns(f, on, p, motion)}
           now(f) == Visible(f, on, p, motion)
<1>1. /\ enabled' = on /\ preset' = p /\ motionOk' = motion /\ UNCHANGED tabVisible
      /\ frames' = [f \in Fields |-> IF f \in reruns THEN Restarted(f, now(f)) ELSE frames[f]]
      /\ listeners' = [f \in Fields |->
           IF f \notin reruns THEN listeners[f]
           ELSE listeners[f] - (IF Shown(f) THEN 1 ELSE 0) + (IF now(f) THEN 1 ELSE 0)]
  BY DEF Set
<1>2. ASSUME NEW f \in Fields
      PROVE  /\ Shown(f) \in BOOLEAN /\ now(f) \in BOOLEAN
             /\ Shown(f)' = now(f)
             /\ frames[f] \in Nat /\ listeners[f] \in Nat
             /\ listeners[f] = (IF Shown(f) THEN 1 ELSE 0)
             /\ ~ Shown(f) => frames[f] = 0
             /\ Shown(f) => frames[f] <= 1
             /\ Shown(f) /\ ~ (f = "metaballs" /\ ~ motionOk) => frames[f] = 1
  BY <1>1 DEF LoopTypes, OneLoopWhileShown, Shown, Visible
<1>3. ASSUME NEW f \in Fields
      PROVE  frames'[f] \in Nat /\ listeners'[f] \in Nat /\ OneLoop(f)'
  <2>1. CASE f \in reruns
    <3>1. /\ frames'[f] = (IF now(f) THEN 1 ELSE 0)
          /\ listeners'[f] = (IF now(f) THEN 1 ELSE 0)
      <4>1. (IF Shown(f) THEN Cancelled(frames[f]) ELSE frames[f]) = 0
        BY <1>2 DEF Cancelled
      <4>2. Restarted(f, now(f)) = (IF now(f) THEN 1 ELSE 0)
        BY <4>1, <1>2 DEF Restarted
      <4>3. frames'[f] = Restarted(f, now(f))
        BY <1>1, <2>1
      <4>4. listeners'[f] = listeners[f] - (IF Shown(f) THEN 1 ELSE 0) + (IF now(f) THEN 1 ELSE 0)
        BY <1>1, <2>1
      <4> HIDE DEF now
      <4> QED
        BY <1>2, <4>2, <4>3, <4>4
    <3> HIDE DEF now
    <3> QED
      BY <1>2, <3>1 DEF OneLoop
  <2>2. CASE f \notin reruns
    <3>1. /\ frames'[f] = frames[f] /\ listeners'[f] = listeners[f]
      BY <1>1, <2>2
    <3>2. /\ now(f) = Shown(f)
          /\ f = "metaballs" => motion = motionOk
      BY <2>2 DEF Reruns
    <3> HIDE DEF now
    <3> QED
      BY <1>1, <1>2, <3>1, <3>2 DEF OneLoop
  <2> QED
    BY <2>1, <2>2
<1>4. OneLoopWhileShown'
  BY <1>3 DEF OneLoop, OneLoopWhileShown
<1>5. LoopTypes'
  <2>1. frames' \in [Fields -> Nat] /\ listeners' \in [Fields -> Nat]
    BY <1>1, <1>3
  <2> QED
    BY <1>1, <2>1 DEF LoopTypes
<1> QED
  BY <1>4, <1>5

\* A frame takes one and asks for at most one.
LEMMA FrameLoops ==
  ASSUME LoopTypes, OneLoopWhileShown, NEW f \in Fields, NEW again \in BOOLEAN,
         Frame(f, again), again \/ (f = "metaballs" /\ ~ motionOk)
  PROVE  LoopTypes' /\ OneLoopWhileShown' /\ Shown(f) /\ UNCHANGED env
<1>1. /\ frames[f] > 0 /\ UNCHANGED <<env, listeners>>
      /\ frames' = [frames EXCEPT ![f] = @ - 1 + (IF again THEN 1 ELSE 0)]
  BY DEF Frame
<1>2. frames \in [Fields -> Nat]
  BY DEF LoopTypes
<1>3. Shown(f) /\ frames[f] = 1
  BY <1>1, <1>2 DEF OneLoopWhileShown
<1>4. frames'[f] = (IF again THEN 1 ELSE 0)
  BY <1>1, <1>2, <1>3
<1>5. \A g \in Fields : g # f => frames'[g] = frames[g]
  BY <1>1, <1>2
<1>6. \A g \in Fields : Shown(g)' = Shown(g)
  BY <1>1 DEF env, Shown, Visible
<1>7. frames' \in [Fields -> Nat]
  BY <1>1, <1>2, <1>3
<1>8. LoopTypes'
  BY <1>1, <1>7 DEF LoopTypes, env
<1>9. OneLoopWhileShown'
  BY <1>1, <1>3, <1>4, <1>5, <1>6 DEF OneLoopWhileShown, env
<1> QED
  BY <1>1, <1>3, <1>8, <1>9

--------------------------------------------------------------------------------
(* The steps *)

\* What a step leaves alone keeps its invariant.
LEMMA Kept ==
  /\ BallsInv /\ UNCHANGED ballsVars => BallsInv'
  /\ LifeTypes /\ LifeStaysLively /\ UNCHANGED lifeVars => LifeTypes' /\ LifeStaysLively'
  /\ BricksOK /\ UNCHANGED brickVars => BricksOK'
  /\ SeededWhenShown /\ UNCHANGED <<env, ballsVars>> => SeededWhenShown'
<1>1. BallsInv /\ UNCHANGED ballsVars => BallsInv'
  BY DEF BallsInv, ballsVars
<1>2. LifeTypes /\ LifeStaysLively /\ UNCHANGED lifeVars => LifeTypes' /\ LifeStaysLively'
  BY DEF LifeTypes, LifeStaysLively, lifeVars
<1>3. BricksOK /\ UNCHANGED brickVars => BricksOK'
  BY DEF BricksOK, BrickTypes, NoBrickPasses, MovesAreOwed, ShownIsPlayed, brickVars, HitsPaddle
<1>4. SeededWhenShown /\ UNCHANGED <<env, ballsVars>> => SeededWhenShown'
  BY DEF SeededWhenShown, env, ballsVars, Shown, Visible
<1> QED
  BY <1>1, <1>2, <1>3, <1>4

LEMMA InitHolds ==
  ASSUME Init
  PROVE  IInv
<1>1. LoopTypes /\ OneLoopWhileShown
  <2>1. "fireflies" \in Presets
    BY DEF Presets, Fields
  <2>2. LoopTypes
    BY <2>1 DEF Init, LoopTypes
  <2>3. \A f \in Fields : ~ Shown(f) /\ frames[f] = 0 /\ listeners[f] = 0
    BY DEF Init, Shown, Visible
  <2> QED
    BY <2>2, <2>3 DEF OneLoopWhileShown
<1>2. BallsInv /\ SeededWhenShown
  BY BallsAssumption DEF Init, BallsInit, BallsInv, SeededWhenShown, Shown, Visible
<1>3. LifeTypes /\ LifeStaysLively
  BY LifeAssumption DEF Init, LifeIdle, LifeTypes, LifeStaysLively
<1>4. BricksOK
  <2>1. BrickTypes
    <3>1. wall \in [1..WallColumns -> Nat]
      BY WallShapes DEF Init, BricksIdle
    <3>2. /\ moved \in Int /\ score \in Int /\ owed \in Int
          /\ bricksSincePaddle \in Nat /\ consecutiveEmptyRallies \in Nat
      BY DEF Init, BricksIdle
    <3>3. /\ debt \in BOOLEAN /\ pause \in {"none", "win", "lose"}
          /\ winOverlay \in BOOLEAN /\ loseOverlay \in BOOLEAN
      BY DEF Init, BricksIdle
    <3> QED
      BY <3>1, <3>2, <3>3 DEF BrickTypes
  <2>2. NoBrickPasses
    <3>1. \A c \in 1..WallColumns : NoWall[c] = 0
      BY DEF NoWall
    <3> QED
      BY <3>1 DEF Init, BricksIdle, NoBrickPasses
  <2>3. MovesAreOwed /\ ShownIsPlayed
    BY NoRally DEF Init, BricksIdle, MovesAreOwed, ShownIsPlayed
  <2> QED
    BY <2>1, <2>2, <2>3 DEF BricksOK
<1> QED
  BY <1>1, <1>2, <1>3, <1>4 DEF IInv

\* A change of the settings or of the preference.
LEMMA SetStep ==
  ASSUME IInv, NEW on \in BOOLEAN, NEW p \in Presets, NEW motion \in BOOLEAN,
         Set(on, p, motion)
  PROVE  IInv'
<1> DEFINE reruns == {f \in Fields : Reruns(f, on, p, motion)}
           now(f) == Visible(f, on, p, motion)
<1>1. /\ LoopTypes /\ OneLoopWhileShown /\ BallsInv /\ SeededWhenShown
      /\ LifeTypes /\ LifeStaysLively /\ BricksOK
  BY DEF IInv
<1>2. LoopTypes' /\ OneLoopWhileShown'
  BY <1>1, SetLoops
<1>3. /\ enabled' = on /\ preset' = p /\ motionOk' = motion
      /\ CASE ~ on -> BallsGone
           [] on /\ "metaballs" \in reruns /\ now("metaballs") -> BallsShown
           [] on /\ "metaballs" \in reruns /\ ~ now("metaballs") -> BallsStopped
           [] OTHER -> UNCHANGED ballsVars
      /\ \/ UNCHANGED lifeVars \/ Reseeded \/ LifeHidden
      /\ \/ UNCHANGED brickVars \/ BricksShown \/ BricksHidden
  BY DEF Set
<1>4. Shown("metaballs")' = now("metaballs") /\ (now("metaballs") => on)
  BY <1>3 DEF Shown, Visible
<1>5. "metaballs" \in Fields
  BY DEF Fields
<1>6. BallsInv' /\ SeededWhenShown'
  <2>1. CASE BallsGone /\ ~ on
    <3>1. BallsInv'
      BY <2>1, BallsAssumption DEF BallsGone, BallsInv
    <3> QED
      BY <1>4, <2>1, <3>1 DEF SeededWhenShown
  <2>2. CASE BallsShown
    <3>1. blending' = 0 /\ balls' > 0 /\ BallsInv'
      BY <1>1, <2>2, BallsAssumption DEF BallsShown, BallsInv
    <3> QED
      BY <3>1 DEF SeededWhenShown
  <2>3. CASE BallsStopped /\ ~ now("metaballs")
    <3>1. BallsInv'
      BY <1>1, <2>3, BallsAssumption DEF BallsStopped, BallsInv
    <3> QED
      BY <1>4, <2>3, <3>1 DEF SeededWhenShown
  <2>4. CASE UNCHANGED ballsVars /\ "metaballs" \notin reruns
    <3>1. now("metaballs") = Shown("metaballs")
      BY <1>5, <2>4 DEF Reruns
    <3>2. BallsInv'
      BY <1>1, <2>4, Kept
    <3> QED
      BY <1>1, <1>4, <2>4, <3>1, <3>2 DEF SeededWhenShown, ballsVars
  <2>5. \/ BallsGone /\ ~ on
        \/ BallsShown
        \/ BallsStopped /\ ~ now("metaballs")
        \/ UNCHANGED ballsVars /\ "metaballs" \notin reruns
    <3> HIDE DEF reruns, now
    <3>1. CASE ~ on
      BY <1>3, <3>1
    <3>2. CASE on /\ "metaballs" \in reruns /\ now("metaballs")
      BY <1>3, <3>2
    <3>3. CASE on /\ "metaballs" \in reruns /\ ~ now("metaballs")
      BY <1>3, <3>3
    <3>4. CASE on /\ "metaballs" \notin reruns
      BY <1>3, <3>4
    <3> QED
      BY <3>1, <3>2, <3>3, <3>4
  <2> QED
    BY <2>1, <2>2, <2>3, <2>4, <2>5
<1>7. LifeTypes' /\ LifeStaysLively'
  BY <1>1, <1>3, Kept, LifeRestarts
<1>8. BricksOK'
  BY <1>1, <1>3, Kept, NewLevelStep, HiddenBricks DEF BricksShown
<1> QED
  BY <1>2, <1>6, <1>7, <1>8 DEF IInv

\* A frame of one of the fields.
LEMMA FrameStep ==
  ASSUME IInv, NEW f \in Fields, NEW again \in BOOLEAN, Frame(f, again),
         again \/ (f = "metaballs" /\ ~ motionOk),
         (BallsInv /\ balls > 0)' \/ UNCHANGED ballsVars,
         (LifeTypes /\ LifeStaysLively)', BricksOK'
  PROVE  IInv'
<1>1. LoopTypes' /\ OneLoopWhileShown' /\ UNCHANGED env
  BY FrameLoops DEF IInv
<1>2. BallsInv' /\ SeededWhenShown'
  <2>1. CASE (BallsInv /\ balls > 0)'
    BY <2>1 DEF SeededWhenShown
  <2>2. CASE UNCHANGED ballsVars
    BY <1>1, <2>2, Kept DEF IInv
  <2> QED
    BY <2>1, <2>2
<1> QED
  BY <1>1, <1>2 DEF IInv

LEMMA StepHolds ==
  ASSUME IInv, [Next]_vars
  PROVE  IInv'
<1>1. /\ LoopTypes /\ OneLoopWhileShown /\ BallsInv /\ SeededWhenShown
      /\ LifeTypes /\ LifeStaysLively /\ BricksOK
      /\ motionOk \in BOOLEAN /\ enabled \in BOOLEAN /\ preset \in Presets
  BY DEF IInv, LoopTypes
<1>2. UNCHANGED lifeVars => (LifeTypes /\ LifeStaysLively)'
  BY <1>1, Kept
<1>3. UNCHANGED brickVars => BricksOK'
  BY <1>1, Kept
<1>4. Fields = {"fireflies", "metaballs", "life", "brick"}
  BY DEF Fields
<1>5. CASE ChooseBackground
  BY <1>1, <1>5, SetStep DEF ChooseBackground
<1>6. CASE ChangeMotion
  BY <1>1, <1>6, SetStep DEF ChangeMotion
<1>7. CASE ChangeTab
  <2>1. LoopTypes' /\ OneLoopWhileShown'
    BY <1>1, <1>7 DEF ChangeTab, LoopTypes, OneLoopWhileShown, loops, Shown, Visible
  <2>2. SeededWhenShown'
    BY <1>1, <1>7 DEF ChangeTab, SeededWhenShown, Shown, Visible, ballsVars
  <2> QED
    BY <1>1, <1>2, <1>3, <1>7, <2>1, <2>2, Kept DEF ChangeTab, IInv
<1>8. CASE Resize
  <2>1. UNCHANGED <<env, frames, listeners, ballsVars, brickVars>>
        /\ (Reseeded \/ UNCHANGED lifeVars)
    BY <1>8 DEF Resize
  <2>2. LoopTypes' /\ OneLoopWhileShown' /\ SeededWhenShown'
    BY <1>1, <2>1 DEF LoopTypes, OneLoopWhileShown, SeededWhenShown, Shown, Visible, env, ballsVars
  <2>3. LifeTypes' /\ LifeStaysLively'
    BY <1>2, <2>1, LifeRestarts
  <2> QED
    BY <1>1, <1>3, <2>1, <2>2, <2>3, Kept DEF IInv
<1>9. CASE FireflyFrame
  BY <1>2, <1>3, <1>4, <1>9, FrameStep DEF FireflyFrame
<1>10. CASE MetaballFrame
  <2>1. Frame("metaballs", motionOk) /\ UNCHANGED <<lifeVars, brickVars>>
    BY <1>10 DEF MetaballFrame
  <2>2. PICK elapsed \in 1..SPLIT_COOLDOWN, large \in BOOLEAN, touch \in BOOLEAN :
          BallsFrame(elapsed, large, touch, motionOk)
    BY <1>10 DEF MetaballFrame
  <2>3. balls > 0
    BY <1>1, <1>4, <2>1, FrameLoops DEF SeededWhenShown
  <2>4. (BallsInv /\ balls > 0)'
    BY <1>1, <2>2, <2>3, BallsFrameStep
  <2> QED
    BY <1>1, <1>2, <1>3, <1>4, <2>1, <2>4, FrameStep
<1>11. CASE LifeFrame
  <2>1. Frame("life", TRUE) /\ UNCHANGED <<ballsVars, brickVars>>
        /\ (LifeStep \/ UNCHANGED lifeVars)
    BY <1>11 DEF LifeFrame
  <2>2. (LifeTypes /\ LifeStaysLively)'
    BY <1>1, <1>2, <2>1, LifeStepKeeps
  <2> QED
    BY <1>3, <1>4, <2>1, <2>2, FrameStep
<1>12. CASE BrickDraw
  BY <1>2, <1>3, <1>4, <1>12, FrameStep DEF BrickDraw
<1>13. CASE BrickPlay
  <2>1. Frame("brick", TRUE) /\ UNCHANGED <<ballsVars, lifeVars>>
    BY <1>13 DEF BrickPlay
  <2>2. PICK paddle \in BOOLEAN, miss \in BOOLEAN, hit \in 0..WallColumns :
          (hit > 0 => wall[hit] > 0) /\ BricksFrame(paddle, hit, miss)
    BY <1>13 DEF BrickPlay
  <2>3. BricksOK'
    BY <1>1, <2>2, BricksFrameStep
  <2> QED
    BY <1>2, <1>4, <2>1, <2>3, FrameStep
<1>14. CASE BrickResume
  <2>1. Frame("brick", TRUE) /\ UNCHANGED <<ballsVars, lifeVars>> /\ Resume
    BY <1>14 DEF BrickResume
  <2>2. BricksOK'
    BY <1>1, <2>1, ResumeStep
  <2> QED
    BY <1>2, <1>4, <2>1, <2>2, FrameStep
<1>15. CASE UNCHANGED vars
  <2>1. UNCHANGED <<env, frames, listeners, ballsVars, lifeVars, brickVars>>
    BY <1>15 DEF vars, loops
  <2>2. LoopTypes' /\ OneLoopWhileShown'
    BY <1>1, <2>1 DEF LoopTypes, OneLoopWhileShown, Shown, Visible, env
  <2> QED
    BY <1>1, <1>2, <1>3, <2>1, <2>2, Kept DEF IInv
<1> QED
  BY <1>5, <1>6, <1>7, <1>8, <1>9, <1>10, <1>11, <1>12, <1>13, <1>14, <1>15 DEF Next

--------------------------------------------------------------------------------
(* Theorems *)

\* The inductive invariant.
THEOREM Invariant == Spec => []IInv
<1>1. Init => IInv
  BY InitHolds
<1>2. IInv /\ [Next]_vars => IInv'
  BY StepHolds
<1> QED
  BY <1>1, <1>2, PTL DEF Spec

\* However settings, motion, tab and size change, a field that is shown has its one
\* loop and one that is not has neither a frame nor a listener left.
THEOREM LoopsAreCleanedUp == Spec => []OneLoopWhileShown
<1>1. IInv => OneLoopWhileShown
  BY DEF IInv
<1> QED
  BY <1>1, Invariant, PTL

\* The three games keep their rules, whatever interrupts them.
THEOREM RulesAreKept == Spec => []GamesKeepTheirRules
<1>1. IInv => GamesKeepTheirRules
  BY BallsInvBounds DEF IInv, BricksOK, GamesKeepTheirRules
<1> QED
  BY <1>1, Invariant, PTL
================================================================================
