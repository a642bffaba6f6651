-------------------------------- MODULE BrickGame --------------------------------
(***************************************************************************)
(* The brick background: a game that plays itself.  A brick is told by its *)
(* column; columns move towards the paddle by one width at a time.  The    *)
(* flight of the ball is abstracted to what it meets in a frame.  Scores   *)
(* are in units of POINTS_PER_BRICK.                                       *)
(***************************************************************************)
LOCAL INSTANCE Integers

CONSTANTS WallColumns, Walls, StartGap
ASSUME WallAssumption ==
  /\ WallColumns \in Nat \ {0} /\ StartGap \in Nat \ {0}
  /\ Walls \subseteq [1..WallColumns -> Nat] /\ Walls # {}   \* what buildBricks may return

VARIABLES
  wall,         \* bricks alive in each column, nearest to the paddle first
  moved,        \* how many widths the bricks have moved
  score, bricksSincePaddle, consecutiveEmptyRallies,
  debt,         \* brickShiftForDebtRef
  pause,        \* "none", "win" until celebrationUntil, "lose" until lossUntil
  multiplier, winOverlay, loseOverlay,   \* what React shows
  owed          \* widths by which the bricks should have moved
brickVars == <<wall, moved, score, bricksSincePaddle, consecutiveEmptyRallies, debt, pause,
               multiplier, winOverlay, loseOverlay, owed>>
overlays == <<winOverlay, loseOverlay>>

rallyScoreMultiplier(n) ==
  CASE n < 3 -> 1 [] n \in 3..4 -> 2 [] n \in 5..10 -> 3 [] OTHER -> 5

emptyRallyPenalty(n) == IF n <= 1 THEN 1 ELSE IF n >= 5 THEN 5 ELSE n

\* scoreAdd: does a deduction take the score from nought or more below it?
FallsIntoDebt(s, points) == s >= 0 /\ s - points < 0

NoWall == [c \in 1..WallColumns |-> 0]
Distance(c, shift) == StartGap + (c - 1) - shift

\* anyBrickHitsPaddle: a brick overlaps the column of the paddle, whatever its row.
HitsPaddle(w, shift) == \E c \in 1..WallColumns : w[c] > 0 /\ Distance(c, shift) = 0

\* The field is not shown.
BricksIdle ==
  /\ wall = NoWall /\ moved = 0 /\ score = 0 /\ bricksSincePaddle = 0
  /\ consecutiveEmptyRallies = 0 /\ debt = FALSE /\ pause = "none" /\ multiplier = 1
  /\ winOverlay = FALSE /\ loseOverlay = FALSE /\ owed = 0

\* Clean-up of the effect and the effect that resets the score.
BricksHidden ==
  /\ wall' = NoWall /\ moved' = 0 /\ score' = 0 /\ bricksSincePaddle' = 0
  /\ consecutiveEmptyRallies' = 0 /\ debt' = FALSE /\ pause' = "none" /\ multiplier' = 1
  /\ winOverlay' = FALSE /\ loseOverlay' = FALSE /\ owed' = 0

\* resetBall.
BallReset == bricksSincePaddle' = 0 /\ multiplier' = 1

\* newLevel, with buildBricks.
NewLevel ==
  /\ wall' \in Walls /\ moved' = 0 /\ owed' = 0
  /\ score' = 0 /\ debt' = FALSE /\ consecutiveEmptyRallies' = 0
  /\ pause' = "none"
  /\ BallReset

\* The effect runs: resize starts a level.
BricksShown == NewLevel /\ winOverlay' = FALSE /\ loseOverlay' = FALSE

--------------------------------------------------------------------------------
(* A frame *)

\* triggerGameOver.
GameOver == pause' = "lose" /\ loseOverlay' = TRUE /\ UNCHANGED winOverlay

\* Variant: the debt is not forgotten once it is paid.
DebtLeft == debt

\* The flag is cleared before the bricks move.
DebtPaid == FALSE

\* The first frame after celebrationUntil or lossUntil.
PauseOver == pause # "none"

Resume ==
  /\ PauseOver
  /\ IF pause = "lose" THEN loseOverlay' = FALSE /\ UNCHANGED winOverlay
                       ELSE winOverlay' = FALSE /\ UNCHANGED loseOverlay
  /\ NewLevel

\* The end of the frame: the wall is down, the ball is lost, or bricks are too near.
Outcome(miss) ==
  IF wall' = NoWall THEN pause' = "win" /\ winOverlay' = TRUE /\ UNCHANGED loseOverlay
  ELSE IF miss \/ HitsPaddle(wall', moved') THEN GameOver
  ELSE UNCHANGED <<pause, overlays>>

\* The ball comes back to the paddle, and may hit a brick (hit, 0 for none) in the
\* same frame; shift: where the bricks are by now.
Play(shift, paddle, hit, miss) ==
  LET empty == paddle /\ bricksSincePaddle = 0
      empties == IF empty THEN consecutiveEmptyRallies + 1
                 ELSE IF paddle THEN 0 ELSE consecutiveEmptyRallies
      penalty == IF empty THEN emptyRallyPenalty(empties) ELSE 0
      further == IF empty /\ empties >= 5 THEN 1 ELSE 0
      below == IF FallsIntoDebt(score, penalty) THEN 1 ELSE 0
      dead == paddle /\ HitsPaddle(wall, shift + further)
      rally == (IF paddle /\ ~ dead THEN 0 ELSE bricksSincePaddle)
               + (IF hit > 0 /\ ~ dead THEN 1 ELSE 0)
      gain == IF hit > 0 /\ ~ dead THEN rallyScoreMultiplier(rally) ELSE 0
  IN  /\ consecutiveEmptyRallies' = empties
      /\ moved' = shift + further
      /\ owed' = owed + further + below
      /\ debt' = ((IF debt THEN DebtPaid ELSE FALSE) \/ below = 1)
      /\ score' = score - penalty + gain
      /\ bricksSincePaddle' = rally
      /\ IF dead THEN wall' = wall /\ UNCHANGED multiplier /\ GameOver
         ELSE /\ wall' = IF hit > 0 THEN [wall EXCEPT ![hit] = @ - 1] ELSE wall
              /\ multiplier' = IF paddle \/ hit > 0 THEN rallyScoreMultiplier(rally)
                               ELSE multiplier
              /\ Outcome(miss)

\* The bricks a debt has moved reach the paddle.
DeadByDebt(shift) == debt /\ HitsPaddle(wall, shift)

BricksFrame(paddle, hit, miss) ==
  LET shift == IF debt THEN moved + 1 ELSE moved
  IN  /\ pause = "none"
      /\ IF DeadByDebt(shift)
         THEN /\ moved' = shift /\ debt' = DebtPaid
              /\ GameOver
              /\ UNCHANGED <<wall, score, bricksSincePaddle, consecutiveEmptyRallies,
                             multiplier, owed>>
         ELSE Play(shift, paddle, hit, miss)

--------------------------------------------------------------------------------
(* Properties *)

\* No brick ever gets past the paddle: the game is over in the frame in which the
\* first one reaches it, whichever of the two penalties moved it there.
NoBrickPasses ==
  \A c \in 1..WallColumns : wall[c] > 0 =>
    Distance(c, moved) >= 0 /\ (Distance(c, moved) = 0 => pause = "lose")

\* Falling into debt moves the bricks once, the fifth empty rally and each one after
\* it once more: no move is lost and none is made twice.
MovesAreOwed == moved + (IF debt THEN 1 ELSE 0) = owed

\* What is shown is the game: the multiplier is that of the running rally, and an
\* overlay is open exactly during its pause.
ShownIsPlayed ==
  /\ multiplier = rallyScoreMultiplier(bricksSincePaddle)
  /\ winOverlay <=> pause = "win"
  /\ loseOverlay <=> pause = "lose"
================================================================================
