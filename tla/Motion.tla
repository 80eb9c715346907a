-------------------------------- MODULE Motion --------------------------------
(***************************************************************************)
(* The parts of the client (client/src/app.tsx) that live while the page   *)
(* is open: the accelerometer with its permission and its toast, and the   *)
(* frames of the card.                                                     *)
(*                                                                         *)
(* useStore is called by App and by LegendCard, and each call is a store   *)
(* of its own: App's asks for the permission, and the card's receives the  *)
(* motion.  Both add a listener when they mount.  The store is created     *)
(* again on every render, so what requestPermission sets in it is never    *)
(* rendered: `permission` stays undefined, and the effect of App that      *)
(* depends on it runs once.                                                *)
(***************************************************************************)
EXTENDS Integers

CONSTANTS
  MaxSlow,    \* bound: frames that take longer than 1/15 s
  MaxTouches  \* bound: clicks and moves of the pointer

ASSUME MotionAssumption == MaxSlow \in Nat /\ MaxTouches \in Nat

VARIABLES
  app,          \* "absent", "mounted" or "unmounted"
  listeners,    \* devicemotion listeners of App and of the card
  granted,      \* the browser's answer so far: "ask", "granted", "denied", or
                \* "free" in a browser that does not want to be asked
  pending,      \* requests for the permission that are not answered
  toast,
  flip,         \* the card's state: does it show its front?
  rendered,     \* the flip of its last render, which its callbacks see
  pointer,      \* the ref `mouse`: "away", or where it is over the card
  target,       \* where the springs take the card: the side that faces the
                \* user, and where it leans
  performance,  \* r3f: "max", or "min" until the debounce is over
  dpr,          \* pixel density: "device" or "one"
  \* History:
  late,         \* a grant came after App had unmounted
  slow,         \* slow frames so far
  touches       \* clicks and moves so far

cardVars == <<flip, rendered, pointer, target, performance, dpr, slow,
              touches>>
sensorVars == <<app, listeners, granted, pending, toast, late>>
motionVars == <<cardVars, sensorVars>>

MotionInit ==
  /\ app = "absent"
  /\ listeners = [App |-> 0, Card |-> 0]
  /\ granted \in {"ask", "granted", "denied", "free"}
  /\ pending = {}
  /\ toast = FALSE /\ late = FALSE
  /\ flip = FALSE /\ rendered = FALSE
  /\ pointer = "away" /\ touches = 0
  /\ target = [front |-> FALSE, lean |-> "away"]
  /\ performance = "max" /\ dpr = "device" /\ slow = 0

-----------------------------------------------------------------------------
\* Mounting.

\* Mutant: the callback is not memoized: each bind adds another listener.
Bind_Again(who) == [listeners EXCEPT ![who] = @ + 1]

\* bindMotionEvents: the callback of the first render, always the same one,
\* which the browser adds once.
Bind(who) == [listeners EXCEPT ![who] = 1]

\* App mounts: its effects add the listener and, where the browser wants to be
\* asked, ask for the permission.
Mount ==
  /\ app = "absent"
  /\ app' = "mounted"
  /\ listeners' = Bind("App")
  /\ pending' = IF granted = "free" THEN pending ELSE pending \cup {"effect"}
  /\ UNCHANGED <<granted, toast, late, cardVars>>

\* The card mounts.
CardMount ==
  /\ listeners' = Bind("Card")
  /\ UNCHANGED <<app, granted, pending, toast, late, cardVars>>

\* A crash unmounts everything: unbindMotionEvents of each.
Unmount ==
  /\ app' = "unmounted"
  /\ listeners' = [App |-> 0, Card |-> 0]
  /\ toast' = FALSE
  /\ UNCHANGED <<granted, pending, late, cardVars>>

-----------------------------------------------------------------------------
\* The permission.

\* What the browser may answer to a request: what it answered before; the
\* first time, without a gesture of the user, it throws.
Answers(request) ==
  IF granted # "ask" THEN {granted}
  ELSE IF request = "effect" THEN {"throws"} ELSE {"granted", "denied"}

\* Mutant: also when it was granted.
EffectAnswered_Always(answer) ==
  /\ toast' = (app = "mounted")
  /\ UNCHANGED <<listeners, late>>

\* App's effect: a toast unless the permission is granted.
EffectAnswered(answer) ==
  /\ toast' = (app = "mounted" /\ (toast \/ answer # "granted"))
  /\ UNCHANGED <<listeners, late>>

\* requestPermission: a grant binds the listener (again), whether or not the
\* app is still there.
AcceptAnswered(answer) ==
  /\ listeners' = IF answer = "granted" THEN Bind("App") ELSE listeners
  /\ late' = (late \/ (answer = "granted" /\ app = "unmounted"))
  /\ UNCHANGED toast

Answer(request) ==
  /\ request \in pending
  /\ pending' = pending \ {request}
  /\ \E answer \in Answers(request) :
       /\ granted' = IF answer = "throws" THEN granted ELSE answer
       /\ IF request = "effect" THEN EffectAnswered(answer)
          ELSE AcceptAnswered(answer)
  /\ UNCHANGED <<app, cardVars>>

\* A tap on the toast: acceptToast.
AcceptToast ==
  /\ app = "mounted" /\ toast
  /\ pending' = pending \cup {"accept"}
  /\ toast' = FALSE
  /\ UNCHANGED <<app, listeners, granted, late, cardVars>>

\* The toast is dragged down: dismissToast.
DismissToast ==
  /\ app = "mounted" /\ toast
  /\ toast' = FALSE
  /\ UNCHANGED <<app, listeners, granted, pending, late, cardVars>>

-----------------------------------------------------------------------------
\* The card.

\* A click: setFlip(!flip), with the flip of the last render.
Click ==
  /\ listeners.Card > 0
  /\ pointer # "away"
  /\ touches < MaxTouches
  /\ flip' = ~rendered
  /\ touches' = touches + 1
  /\ UNCHANGED <<rendered, pointer, target, performance, dpr, slow,
                 sensorVars>>

Rerender ==
  /\ listeners.Card > 0
  /\ rendered # flip
  /\ rendered' = flip
  /\ UNCHANGED <<flip, pointer, target, performance, dpr, slow, touches,
                 sensorVars>>

\* The pointer enters, before it moves, or moves over the card, or leaves.
Point(p) ==
  /\ listeners.Card > 0
  /\ touches < MaxTouches
  /\ p # pointer
  /\ p = "centre" => pointer = "away"
  /\ pointer = "away" => p = "centre"
  /\ pointer' = p
  /\ touches' = touches + 1
  /\ UNCHANGED <<flip, rendered, target, performance, dpr, slow,
                 sensorVars>>

\* Mutant: the frames go on with the callback of the first render.
Facing_First == FALSE

\* The side the frame callback turns to the user.
Facing == rendered

\* Mutant: once reduced, the density stays.
Density_Once == IF performance = "max" THEN dpr ELSE "one"

\* The density follows the performance as it was when the frame began.
Density == IF performance = "max" THEN "device" ELSE "one"

\* useFrame: a slow frame regresses the performance.
Frame ==
  /\ listeners.Card > 0
  /\ \E isSlow \in BOOLEAN :
       /\ isSlow => slow < MaxSlow
       /\ slow' = IF isSlow THEN slow + 1 ELSE slow
       /\ performance' = IF isSlow THEN "min" ELSE performance
  /\ dpr' = Density
  /\ target' = [front |-> Facing, lean |-> pointer]
  /\ UNCHANGED <<flip, rendered, pointer, touches, sensorVars>>

\* Ten seconds after the last slow frame.
Debounce ==
  /\ performance = "min"
  /\ performance' = "max"
  /\ UNCHANGED <<flip, rendered, pointer, target, dpr, slow, touches,
                 sensorVars>>

Touch == Click \/ \E p \in {"away", "centre", "left", "right"} : Point(p)

MotionStep ==
  \/ \E request \in pending : Answer(request)
  \/ AcceptToast \/ DismissToast
  \/ Touch \/ Rerender \/ Frame \/ Debounce
=============================================================================
