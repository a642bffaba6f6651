-------------------------------- MODULE Backdrop --------------------------------
(***************************************************************************)
(* AnimatedBackground: the settings choose one of the fields, a field that *)
(* is shown runs a loop of animation frames.  The effect of a field is     *)
(* cleaned up and run again whenever one of its inputs changes.            *)
(***************************************************************************)
EXTENDS Metaballs, LifeBoard, BrickGame, Integers

VARIABLES
  enabled, preset,   \* settings.backgroundEnabled, backgroundPreset
  motionOk,          \* useEffectiveMotion
  tabVisible,
  frames,            \* frames requested, per field
  listeners,         \* listeners on resize, per field
  painted            \* has the canvas of the field been drawn since it was cleared
env     == <<enabled, preset, motionOk, tabVisible>>
loops   == <<frames, listeners, painted>>
vars    == <<env, loops, ballsVars, lifeVars, brickVars>>

Fields == {"fireflies", "metaballs", "life", "brick"}
Presets == Fields \cup {"aurora", "gradient"}

\* The visible (fireflies: active) property of a field.
Visible(f, on, p, motion) == on /\ p = f /\ (f = "fireflies" => motion)
Shown(f) == Visible(f, enabled, preset, motionOk)

\* Does an input of the field's effect change?
Reruns(f, on, p, motion) ==
  \/ Visible(f, on, p, motion) # Shown(f)
  \/ enabled # on
  \/ f \in {"metaballs", "life"} /\ motion # motionOk

\* Variant: clean-up does not cancel the frame.
FramesLeft(n) == n

\* Clean-up cancels the frame that was requested last.
Cancelled(n) == IF n > 0 THEN n - 1 ELSE 0

\* What the effects of a field leave behind, clean-up first.
Restarted(f, now) ==
  LET rest == IF Shown(f) THEN Cancelled(frames[f]) ELSE frames[f]
  IN  IF now THEN rest + 1 ELSE rest

\* The settings, or the preference of the system, change.
Set(on, p, motion) ==
  LET reruns == {f \in Fields : Reruns(f, on, p, motion)}
      now(f) == Visible(f, on, p, motion)
  IN  /\ enabled' = on /\ preset' = p /\ motionOk' = motion
      /\ frames' = [f \in Fields |-> IF f \in reruns THEN Restarted(f, now(f)) ELSE frames[f]]
      /\ listeners' = [f \in Fields |->
           IF f \notin reruns THEN listeners[f]
           ELSE listeners[f] - (IF Shown(f) THEN 1 ELSE 0) + (IF now(f) THEN 1 ELSE 0)]
      /\ painted' = [f \in Fields |-> painted[f] /\ f \notin reruns]
      /\ CASE ~ on -> BallsGone
           [] on /\ "metaballs" \in reruns /\ now("metaballs") -> BallsShown
           [] on /\ "metaballs" \in reruns /\ ~ now("metaballs") -> BallsStopped
           [] OTHER -> UNCHANGED ballsVars
      /\ CASE "life" \notin reruns -> UNCHANGED lifeVars
           [] "life" \in reruns /\ now("life") -> Reseeded
           [] OTHER -> LifeHidden
      /\ CASE "brick" \notin reruns -> UNCHANGED brickVars
           [] "brick" \in reruns /\ now("brick") -> BricksShown
           [] OTHER -> BricksHidden
      /\ UNCHANGED tabVisible

ChooseBackground == \E on \in BOOLEAN, p \in Presets : Set(on, p, motionOk)
ChangeMotion == Set(enabled, preset, ~ motionOk)

\* A hidden tab gets no animation frames.
ChangeTab == tabVisible' = ~ tabVisible /\ UNCHANGED <<enabled, preset, motionOk, loops,
                                                       ballsVars, lifeVars, brickVars>>

\* A resized canvas is blank.
Resize ==
  \E f \in Fields :
    /\ listeners[f] > 0
    /\ painted' = [painted EXCEPT ![f] = FALSE]
    /\ IF f = "life" THEN Reseeded ELSE UNCHANGED lifeVars
    /\ UNCHANGED <<env, frames, listeners, ballsVars, brickVars>>

\* Variant: without motion the canvas is left as it is.
DrawnInMotion(f) == painted[f] \/ motionOk

\* Every frame draws.
Drawn(f) == TRUE

\* A frame of field f is run; it requests the next one (again).
Frame(f, again) ==
  /\ tabVisible /\ frames[f] > 0
  /\ frames' = [frames EXCEPT ![f] = @ - 1 + (IF again THEN 1 ELSE 0)]
  /\ painted' = [painted EXCEPT ![f] = Drawn(f)]
  /\ UNCHANGED <<env, listeners>>

FireflyFrame == Frame("fireflies", TRUE) /\ UNCHANGED <<ballsVars, lifeVars, brickVars>>

MetaballFrame ==
  /\ Frame("metaballs", motionOk)
  /\ \E elapsed \in 1..SPLIT_COOLDOWN, large, touch \in BOOLEAN :
       BallsFrame(elapsed, large, touch, motionOk)
  /\ UNCHANGED <<lifeVars, brickVars>>

LifeFrame ==
  /\ Frame("life", TRUE)
  /\ (motionOk /\ LifeStep) \/ UNCHANGED lifeVars
  /\ UNCHANGED <<ballsVars, brickVars>>

\* Without animation only the end of a pause is waited for; the frames between two
\* drawings change nothing.
BrickDraw == Frame("brick", TRUE) /\ UNCHANGED <<ballsVars, lifeVars, brickVars>>

BrickPlay ==
  /\ Frame("brick", TRUE)
  /\ motionOk
  /\ \E paddle, miss \in BOOLEAN, hit \in 0..WallColumns :
       /\ ~ (paddle /\ miss) /\ (hit > 0 => wall[hit] > 0)
       /\ BricksFrame(paddle, hit, miss)
  /\ UNCHANGED <<ballsVars, lifeVars>>

BrickResume == Frame("brick", TRUE) /\ Resume /\ UNCHANGED <<ballsVars, lifeVars>>

Init ==
  /\ enabled = FALSE /\ preset = "fireflies" /\ motionOk \in BOOLEAN /\ tabVisible = TRUE
  /\ frames = [f \in Fields |-> 0] /\ listeners = frames
  /\ painted = [f \in Fields |-> FALSE]
  /\ BallsInit /\ LifeIdle /\ BricksIdle

Next ==
  \/ ChooseBackground \/ ChangeMotion \/ ChangeTab \/ Resize
  \/ FireflyFrame \/ MetaballFrame \/ LifeFrame
  \/ BrickDraw \/ BrickPlay \/ BrickResume

\* The browser calls the frames of a tab that is visible again and again, and a
\* pause ends with the first frame after its time.
Fairness == SF_vars(FireflyFrame \/ MetaballFrame \/ LifeFrame \/ BrickDraw) /\ SF_vars(BrickResume)
Spec == Init /\ [][Next]_vars /\ Fairness

--------------------------------------------------------------------------------
(* Properties *)

\* Through all changes of preset, motion, tab and size a field that is not shown
\* has no frame and no listener left, one that is shown never runs two loops, and
\* only metaballs at rest stop asking for frames.
OneLoopWhileShown ==
  \A f \in Fields :
    /\ listeners[f] = (IF Shown(f) THEN 1 ELSE 0)
    /\ IF ~ Shown(f) THEN frames[f] = 0
       ELSE IF f = "metaballs" /\ ~ motionOk THEN frames[f] <= 1
       ELSE frames[f] = 1

\* The rules of the three games, through all interruptions.
GamesKeepTheirRules ==
  /\ BallsBounded
  /\ LifeStaysLively
  /\ NoBrickPasses /\ MovesAreOwed /\ ShownIsPlayed

\* Whoever waits for a frame gets it, unless the tab stays hidden: a field that is
\* shown and blank is drawn again (but for metaballs at rest, whose only frame may
\* have been drawn before), and "New game in a moment" comes true.
WaitsEnd ==
  /\ \A f \in Fields :
       Shown(f) /\ ~ painted[f] ~>
         \/ painted[f] \/ ~ Shown(f)
         \/ ~ tabVisible
         \/ f = "metaballs" /\ ~ motionOk
  /\ pause # "none" ~> pause = "none" \/ ~ tabVisible
================================================================================
