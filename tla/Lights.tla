------------------------------- MODULE Lights -------------------------------
(***************************************************************************)
(* The LED: board_rgb_animate and the animation task of board.c, and who   *)
(* uses them - the LED of each state and the commands in an answer         *)
(* (app_state.c).                                                          *)
(*                                                                         *)
(* An animation is a mode and a colour, which a caller stores one after    *)
(* the other and the task reads one after the other.  A colour is what one *)
(* pixel shows at some strength: a caller's, "own" for a picture that      *)
(* ignores the caller's (board.c:378-502), or "dark".  board.c has two     *)
(* drivers: a strip of pixels, and the one dimmed LED of the M5Stick.      *)
(***************************************************************************)
EXTENDS Naturals

CONSTANTS
  LightCallers,    \* tasks that call board_rgb_animate
  Colours,         \* the callers' colours, without those two
  MaxLightCalls    \* bound: calls

ASSUME LightsAssumption == {"dark", "own"} \cap Colours = {} /\ MaxLightCalls \in Nat

VARIABLES
  driver,          \* which of the two
  animMode, animColour,   \* s_rgb_anim
  storing,         \* per caller: the animation it is storing, or NoAnimation
  painting,        \* per caller: the colour board_rgb_set is at, or "none"
  frame,           \* the task: the step of its frame and what it has read
  oddPhase,        \* phase & 1, which the dimmed LED's frames count
  led,             \* what a pixel of the LED shows
  overlapped,      \* history: two calls stored at the same time since the last alone
  lastCall,        \* history: the last call to end
  undisturbed,     \* history: since this frame began, nobody stored or painted
  lightCalls

lightVars == <<driver, animMode, animColour, storing, painting, frame, oddPhase, led, overlapped,
               lastCall, undisturbed, lightCalls>>

Pictures == {"rainbow", "stars"}   \* RAINBOW_SPIN, AURORA, OCEAN; STARFIELD, FIRE
Comets == {"comet"}                \* CHASE, PULSE_WAVE, SPARKLE
Modes == {"off", "solid", "blink", "breathe"} \cup Comets \cup Pictures
Shades == Colours \cup {"dark"}

Animations == [mode : Modes, colour : Shades]
NoAnimation == [mode |-> "none", colour |-> "none"]

\* The calls of the program: only OFF and the pictures are called with 0, 0, 0, and
\* at boot the rainbow has a colour.
Callable(a) ==
  /\ a.mode = "off" => a.colour = "dark"
  /\ a.mode \notin {"off"} \cup Pictures => a.colour # "dark"

LightsTypeOK ==
  /\ driver \in {"strip", "pwm"}
  /\ animMode \in Modes /\ animColour \in Shades
  /\ storing \in [LightCallers -> Animations \cup {NoAnimation}]
  /\ painting \in [LightCallers -> Shades \cup {"none"}]
  /\ frame \in [pc : {"colour", "paint", "second", "rest"}, mode : Modes, colour : Shades]
  /\ oddPhase \in BOOLEAN /\ led \in Shades \cup {"own"}
  /\ overlapped \in BOOLEAN /\ lastCall \in Animations
  /\ undisturbed \in BOOLEAN /\ lightCalls \in 0..MaxLightCalls

\* rgb_enabled is read once, at boot: the rainbow or SOLID yellow, or OFF.
LightsInit ==
  /\ driver \in {"strip", "pwm"}
  /\ \E a \in Animations :
       /\ a.mode \in {"rainbow", "solid", "off"} /\ (a.mode = "off" <=> a.colour = "dark")
       /\ animMode = a.mode /\ animColour = a.colour /\ lastCall = a
  /\ storing = [c \in LightCallers |-> NoAnimation]
  /\ painting = [c \in LightCallers |-> "none"]
  /\ frame = [pc |-> "rest", mode |-> "off", colour |-> "dark"] /\ oddPhase = FALSE
  /\ led = "dark" /\ overlapped = FALSE /\ undisturbed = FALSE /\ lightCalls = 0

-----------------------------------------------------------------------------
(* board_rgb_animate, and board_rgb_set where [DEVICE:rgb=off] and          *)
(* [DEVICE:rgb=R,G,B] call it themselves.                                   *)

Idle(c) == storing[c] = NoAnimation /\ painting[c] = "none"
Stored == \A c \in LightCallers : storing[c] = NoAnimation
Painted == \A c \in LightCallers : painting[c] = "none"
Alone(c) == \A d \in LightCallers \ {c} : storing[d] = NoAnimation

CallBegins(c) == Idle(c) /\ lightCalls < MaxLightCalls /\ lightCalls' = lightCalls + 1

StoreMode(c, a) ==
  /\ CallBegins(c) /\ Callable(a)
  /\ storing' = [storing EXCEPT ![c] = a]
  /\ animMode' = a.mode
  /\ overlapped' = ~Alone(c) /\ undisturbed' = FALSE
  /\ UNCHANGED <<driver, animColour, painting, frame, oddPhase, led, lastCall>>

\* Mutant: the colour of a call that turns the LED off is not stored.
StoreColourLit(c) ==
  /\ storing[c] # NoAnimation
  /\ animColour' = IF storing[c].mode = "off" THEN animColour ELSE storing[c].colour
  /\ lastCall' = storing[c]
  /\ storing' = [storing EXCEPT ![c] = NoAnimation]
  /\ undisturbed' = FALSE
  /\ UNCHANGED <<driver, animMode, painting, frame, oddPhase, led, overlapped, lightCalls>>

StoreColour(c) ==
  /\ storing[c] # NoAnimation
  /\ animColour' = storing[c].colour /\ lastCall' = storing[c]
  /\ storing' = [storing EXCEPT ![c] = NoAnimation]
  /\ undisturbed' = FALSE
  /\ UNCHANGED <<driver, animMode, painting, frame, oddPhase, led, overlapped, lightCalls>>

PaintBegins(c, colour) ==
  /\ CallBegins(c)
  /\ painting' = [painting EXCEPT ![c] = colour] /\ undisturbed' = FALSE
  /\ UNCHANGED <<driver, animMode, animColour, storing, frame, oddPhase, led, overlapped, lastCall>>

\* A pixel somebody has painted over meanwhile stays that one's.
PaintEnds(c) ==
  /\ painting[c] # "none"
  /\ led' \in {painting[c], led}
  /\ painting' = [painting EXCEPT ![c] = "none"] /\ undisturbed' = FALSE
  /\ UNCHANGED <<driver, animMode, animColour, storing, frame, oddPhase, overlapped, lastCall,
                 lightCalls>>

-----------------------------------------------------------------------------
(* rgb_anim_task.                                                          *)

FrameReadsMode ==
  /\ frame.pc = "rest"
  /\ frame' = [frame EXCEPT !.pc = "colour", !.mode = animMode]
  /\ undisturbed' = (Stored /\ Painted)
  /\ UNCHANGED <<driver, animMode, animColour, storing, painting, oddPhase, led, overlapped,
                 lastCall, lightCalls>>

FrameReadsColour ==
  /\ frame.pc = "colour"
  /\ frame' = [frame EXCEPT !.pc = "paint", !.colour = animColour]
  /\ UNCHANGED <<driver, animMode, animColour, storing, painting, oddPhase, led, overlapped,
                 lastCall, undisturbed, lightCalls>>

\* A pixel the frame sets, unless a caller who is painting sets it again.
Shows(colours) == led' \in colours \cup ({painting[c] : c \in LightCallers} \ {"none"})

FrameGoesTo(pc) ==
  /\ frame' = [frame EXCEPT !.pc = pc]
  /\ UNCHANGED <<driver, animMode, animColour, storing, painting, overlapped, lastCall,
                 undisturbed, lightCalls>>

\* The strip.  SOLID, BREATHE, OFF, and BLINK, which is dark half a second later in
\* the same frame.
StripPaints ==
  /\ driver = "strip" /\ frame.pc = "paint" /\ frame.mode \notin Comets \cup Pictures
  /\ \/ frame.mode = "off" /\ Shows({"dark"})
     \/ frame.mode \in {"solid", "blink"} /\ Shows({frame.colour})
     \/ frame.mode = "breathe" /\ Shows({frame.colour, "dark"})
  /\ FrameGoesTo(IF frame.mode = "blink" THEN "second" ELSE "rest")
  /\ UNCHANGED oddPhase

StripDarkens ==
  /\ driver = "strip" /\ frame.pc = "second"
  /\ Shows({"dark"}) /\ FrameGoesTo("rest") /\ UNCHANGED oddPhase

\* The pictures bring their own colours: r, g and b are not looked at.
StripPictures ==
  /\ driver = "strip" /\ frame.pc = "paint" /\ frame.mode \in Pictures
  /\ Shows({"own"}) /\ FrameGoesTo("rest") /\ UNCHANGED oddPhase

StripComets ==
  /\ driver = "strip" /\ frame.pc = "paint" /\ frame.mode \in Comets
  /\ Shows({frame.colour, "dark"}) /\ FrameGoesTo("rest") /\ UNCHANGED oddPhase

\* The one LED, of the caller's brightness.  BLINK is lit in the odd frames and dark in
\* the others, BREATHE and the first pictures count on; the other modes are just lit.
PwmPaints ==
  /\ driver = "pwm" /\ frame.pc = "paint"
  /\ \/ frame.mode = "off" /\ Shows({"dark"})
     \/ frame.mode \in {"breathe", "rainbow"} /\ Shows({frame.colour, "dark"})
     \/ frame.mode = "blink" /\ ~oddPhase /\ Shows({"dark"})
     \/ frame.mode = "blink" /\ oddPhase /\ Shows({frame.colour})
     \/ frame.mode \in {"solid", "comet", "stars"} /\ Shows({frame.colour})
  /\ oddPhase' = IF frame.mode \in {"breathe", "rainbow", "blink"} THEN ~oddPhase ELSE oddPhase
  /\ FrameGoesTo("rest")

FrameNext ==
  \/ FrameReadsMode \/ FrameReadsColour
  \/ StripPaints \/ StripDarkens \/ StripPictures \/ StripComets \/ PwmPaints

LightsNext ==
  \/ \E c \in LightCallers, a \in Animations : StoreMode(c, a)
  \/ \E c \in LightCallers : StoreColour(c)
  \/ \E c \in LightCallers, colour \in Shades : PaintBegins(c, colour)
  \/ \E c \in LightCallers : PaintEnds(c)
  \/ FrameNext

LightsSpec == LightsInit /\ [][LightsNext]_lightVars

-----------------------------------------------------------------------------
(* Properties.                                                             *)

\* What a whole frame of an animation leaves on the LED.
FrameLeaves(a) ==
  CASE a.mode = "off" -> {"dark"}
    [] a.mode = "solid" -> {a.colour}
    [] a.mode = "blink" -> IF driver = "strip" \/ oddPhase THEN {"dark"} ELSE {a.colour}
    [] a.mode \in Pictures /\ driver = "strip" -> {"own"}
    [] OTHER -> {a.colour, "dark"}

\* board.c:561: what the task animates is one caller's mode with that caller's
\* colour, unless two calls overlapped - then the mixture stays until the next
\* call; and a whole frame later the LED shows it, whatever was torn, painted
\* over or half painted before.
SettledIsOneCall ==
  Stored /\ ~overlapped =>
    /\ lastCall = [mode |-> animMode, colour |-> animColour]
    /\ frame.pc = "rest" /\ undisturbed => led \in FrameLeaves(lastCall)
=============================================================================
