----------------------------- MODULE SeatProofs -----------------------------
(***************************************************************************)
(* Theorems about a seat, for every set of keys, every hysteresis and      *)
(* however far the pointer moves and long the grace period lasts.          *)
(***************************************************************************)
EXTENDS Seat, TLAPS

-----------------------------------------------------------------------------
(* Key repeat *)

\* A key is being repeated only under a keymap and with a positive period: what
\* keeps a release from being missed, and the next wait positive.
RepeatPossible == odd = {} /\ timer => keymap /\ period > 0

RepeatIInv == RepeatInv /\ RepeatPossible

\* Stopping a repetition leaves no timer in the loop.
LEMMA StopRepeatClears ==
  ASSUME RepeatTracked, timer \in BOOLEAN, StopRepeat
  PROVE  timer' = FALSE /\ armed' = 0
<1>1. CASE timer
  BY <1>1 DEF RepeatTracked, StopRepeat
<1>2. CASE ~timer
  BY <1>2 DEF RepeatTracked, StopRepeat
<1> QED
  BY <1>1, <1>2

\* What one step of the keyboard's handlers may do to the repeat timer.
LEMMA RepeatInductive == Spec => []RepeatIInv
<1> USE SeatAssumption DEF RepeatIInv, RepeatInv
<1>1. Init => RepeatIInv
  <2> SUFFICES ASSUME Init PROVE RepeatIInv
    OBVIOUS
  <2>1. TypeOK
    <3>1. 0 \in Positions /\ 1 \in 1 .. MaxSecond /\ 0 \in 0 .. 1
      BY DEF Positions
    <3>2. /\ odd \in {{}, Oddities} /\ run \in BOOLEAN /\ grace \in {"before", "on", "over"}
          /\ unlockedBy \in {"none", "key", "motion", "button"}
          /\ keyboard \in BOOLEAN /\ focus \in BOOLEAN /\ keymap \in BOOLEAN /\ timer \in BOOLEAN
          /\ held \subseteq Keys /\ repeatKey \in Keys \cup {NoKey}
      BY Zenon DEF Init
    <3>3. /\ armed \in 0 .. 1 /\ wait \in Int /\ period \in {-1, 0, 40}
          /\ second \in 1 .. MaxSecond /\ lastInterval \in 0 .. second
      BY <3>1 DEF Init
    <3>4. pos \in Positions /\ start \in Positions /\ last \in Positions /\ recent \subseteq Positions
      BY <3>1 DEF Init
    <3> QED
      BY <3>2, <3>3, <3>4 DEF TypeOK
  <2> QED
    BY <2>1 DEF Init, RepeatTracked, RepeatIsHeld, RepeatIsSpaced, RepeatPossible
<1>2. RepeatIInv /\ [Next]_vars => RepeatIInv'
  <2> SUFFICES ASSUME RepeatIInv, [Next]_vars PROVE RepeatIInv'
    OBVIOUS
  <2> USE DEF TypeOK, RepeatTracked, RepeatIsHeld, RepeatIsSpaced, RepeatPossible
  <2>1. ASSUME NEW key \in Keys, KeyPress(key), UNCHANGED odd PROVE RepeatIInv'
    <3>1. /\ run /\ keyboard /\ focus /\ held' = held \cup {key}
          /\ UNCHANGED <<odd, keyboard, focus, keymap, period, pointerVars>>
      BY <2>1 DEF KeyPress
    <3>2. CASE ~keymap \/ grace = "on"
      <4>1. /\ UNCHANGED <<timer, armed, wait, repeatKey, grace>>
            /\ run' \in BOOLEAN /\ unlockedBy' \in {"none", "key", "motion", "button"}
        BY <2>1, <3>2 DEF KeyPress, graceVars
      <4> QED
        BY <3>1, <4>1 DEF pointerVars
    <3>3. CASE keymap /\ grace # "on" /\ Repeats
      <4>1. Arm(key) /\ UNCHANGED graceVars
        BY <2>1, <3>3 DEF KeyPress
      <4> QED
        BY <3>1, <3>3, <4>1 DEF Arm, Repeats, Delay, graceVars, pointerVars
    <3>4. CASE keymap /\ grace # "on" /\ ~Repeats
      <4>1. StopRepeat /\ UNCHANGED <<wait, repeatKey, graceVars>>
        BY <2>1, <3>4 DEF KeyPress
      <4> QED
        BY <3>1, <4>1, StopRepeatClears DEF graceVars, pointerVars
    <3> QED
      BY <3>2, <3>3, <3>4
  <2>2. ASSUME NEW key \in Keys, KeyRelease(key), UNCHANGED odd PROVE RepeatIInv'
    <3>1. CASE keymap
      BY <2>2, <3>1, StopRepeatClears DEF KeyRelease, graceVars, pointerVars
    <3>2. CASE ~keymap
      BY <2>2, <3>2 DEF KeyRelease, graceVars, pointerVars
    <3> QED
      BY <3>1, <3>2
  <2>3. ASSUME KeyboardRepeat, UNCHANGED odd PROVE RepeatIInv'
    BY <2>3 DEF KeyboardRepeat, graceVars, pointerVars
  <2>4. ASSUME KeyboardEnter, UNCHANGED odd PROVE RepeatIInv'
    BY <2>4 DEF KeyboardEnter, graceVars, pointerVars
  <2>5. ASSUME KeyboardLeave, UNCHANGED odd PROVE RepeatIInv'
    <3>1. timer' = FALSE /\ armed' = 0
      BY <2>5, StopRepeatClears DEF KeyboardLeave
    <3>2. /\ focus' = FALSE /\ held' = {}
          /\ UNCHANGED <<odd, graceVars, keyboard, keymap, wait, repeatKey, period, pointerVars>>
      BY <2>5 DEF KeyboardLeave
    <3>3. TypeOK'
      <4>0. 0 \in 0 .. 1
        OBVIOUS
      <4>1. focus' \in BOOLEAN /\ timer' \in BOOLEAN /\ armed' \in 0 .. 1 /\ held' \subseteq Keys
        BY Zenon, <3>1, <3>2, <4>0
      <4> QED
        BY <3>2, <4>1 DEF graceVars, pointerVars
    <3> QED
      BY <3>1, <3>3
  <2>6. ASSUME NEW b \in BOOLEAN, KeyboardKeymap(b), UNCHANGED odd PROVE RepeatIInv'
    BY <2>6 DEF KeyboardKeymap, graceVars, pointerVars
  <2>7. ASSUME NEW b \in BOOLEAN, SeatHandleCapabilities(b), UNCHANGED odd PROVE RepeatIInv'
    BY <2>7 DEF SeatHandleCapabilities, graceVars, pointerVars
  <2>8. ASSUME NEW rate \in Rates, KeyboardRepeatInfo(rate), UNCHANGED odd PROVE RepeatIInv'
    <3>1. PeriodOf(rate) \in {-1, 0, 40}
      BY DEF PeriodOf, Rates
    <3> QED
      BY <2>8, <3>1 DEF KeyboardRepeatInfo, graceVars, pointerVars
  <2>9. ASSUME NEW x \in Positions, PointerEnter(x), UNCHANGED odd PROVE RepeatIInv'
    BY <2>9 DEF PointerEnter, graceVars, keyVars
  <2>10. ASSUME NEW x \in Positions, PointerMotion(x), UNCHANGED odd PROVE RepeatIInv'
    <3>1. /\ UNCHANGED <<keyVars, second, grace>> /\ run' \in BOOLEAN
          /\ unlockedBy' \in {"none", "key", "motion", "button"}
          /\ pos' \in Positions /\ recent' \subseteq Positions
      BY <2>10 DEF PointerMotion, graceVars
    <3>2. /\ lastInterval' \in 0 .. second /\ start' \in Positions /\ last' \in Positions
      <4>1. Origin \in Positions
        BY DEF Origin
      <4>2. second \in 0 .. second
        OBVIOUS
      <4>3. CASE grace = "on"
        BY <2>10, <4>1, <4>2, <4>3 DEF PointerMotion
      <4>4. CASE grace # "on"
        BY <2>10, <4>4 DEF PointerMotion
      <4> QED
        BY <4>3, <4>4
    <3> QED
      BY <2>10, <3>1, <3>2 DEF keyVars
  <2>11. ASSUME PointerButton, UNCHANGED odd PROVE RepeatIInv'
    BY <2>11 DEF PointerButton, keyVars, pointerVars
  <2>12. ASSUME NextSecond, UNCHANGED odd PROVE RepeatIInv'
    BY <2>12 DEF NextSecond, graceVars, keyVars
  <2>13. ASSUME GraceStarts \/ GraceEnds, UNCHANGED odd PROVE RepeatIInv'
    BY <2>13 DEF GraceStarts, GraceEnds, keyVars, pointerVars
  <2>14. CASE UNCHANGED vars
    BY <2>14 DEF vars, graceVars, keyVars, pointerVars
  <2> QED
    BY <2>1, <2>2, <2>3, <2>4, <2>5, <2>6, <2>7, <2>8, <2>9, <2>10, <2>11, <2>12, <2>13, <2>14
       DEF Next
<1> QED
  BY <1>1, <1>2, PTL DEF Spec

\* The seat always knows its one repeat timer; and as long as devices, keymap
\* and repeat settings are not changed under a held key, only a key that is held
\* on the focused keyboard is repeated, at a positive interval.
THEOREM RepeatInvariant == Spec => []RepeatInv
<1>1. RepeatIInv => RepeatInv
  BY DEF RepeatIInv
<1> QED
  BY <1>1, RepeatInductive, PTL

-----------------------------------------------------------------------------
(* Pointer motion *)

\* In the grace period, last_mouse is where the pointer is, and a start of the
\* interval that is of this second is a place it has been at in this second.
PointerTracked ==
  odd = {} /\ grace = "on" /\ recent # {} =>
    /\ last = pos /\ pos \in recent
    /\ lastInterval = second => start \in recent

\* The loop runs until something unlocks, and the pointer has not entered a lock
\* surface before the grace period starts.
NotYetUnlocked == run => unlockedBy = "none"
EntersInGrace == odd = {} /\ grace = "before" => recent = {}

MotionIInv == MotionIsDeliberate /\ PointerTracked /\ NotYetUnlocked /\ EntersInGrace

\* Motion ends the grace period only after the pointer has been, within one
\* second, at two places the hysteresis apart.
THEOREM MotionDeliberate == Spec => []MotionIsDeliberate
<1> USE SeatAssumption DEF MotionIInv
<1>1. Init => MotionIInv
  BY DEF Init, MotionIsDeliberate, PointerTracked, NotYetUnlocked, EntersInGrace
<1>2. TypeOK /\ MotionIInv /\ [Next]_vars => MotionIInv'
  <2> SUFFICES ASSUME TypeOK, MotionIInv, [Next]_vars PROVE MotionIInv'
    OBVIOUS
  <2> USE DEF PointerTracked, NotYetUnlocked, EntersInGrace
  <2>1. ASSUME UNCHANGED <<odd, run, unlockedBy, grace, pointerVars>> PROVE MotionIInv'
    BY <2>1 DEF MotionIsDeliberate, pointerVars
  <2>2. ASSUME NEW key \in Keys, KeyPress(key), UNCHANGED odd PROVE MotionIInv'
    <3>1. CASE keymap /\ grace = "on"
      BY <2>2, <3>1 DEF KeyPress, pointerVars, MotionIsDeliberate
    <3>2. CASE ~(keymap /\ grace = "on")
      BY <2>1, <2>2, <3>2 DEF KeyPress, graceVars
    <3> QED
      BY <3>1, <3>2
  <2>3. ASSUME NEW x \in Positions, PointerEnter(x), UNCHANGED odd PROVE MotionIInv'
    BY <2>3 DEF PointerEnter, graceVars, MotionIsDeliberate
  <2>4. ASSUME NEW x \in Positions, PointerMotion(x), UNCHANGED odd PROVE MotionIInv'
    <3>1. CASE grace = "on"
      <4>1. odd = {} => Origin \in recent
        BY <2>4, <3>1 DEF PointerMotion, Origin
      <4>2. /\ run /\ recent # {} /\ pos' = x /\ recent' = recent \cup {x}
            /\ lastInterval' = second /\ start' = Origin /\ last' = x /\ UNCHANGED <<second, grace>>
        BY <2>4, <3>1 DEF PointerMotion, graceVars
      <4>3. CASE Dist(x, Origin) >= Threshold
        <5>1. Dist(Origin, x) >= Threshold
          BY <4>3 DEF Dist, Origin, TypeOK, Positions
        <5>2. run' = FALSE
          BY <2>4, <3>1, <4>3 DEF PointerMotion
        <5> QED
          BY <2>4, <3>1, <4>1, <4>2, <5>1, <5>2 DEF MotionIsDeliberate
      <4>4. CASE ~(Dist(x, Origin) >= Threshold)
        <5>1. UNCHANGED graceVars
          BY <2>4, <3>1, <4>4 DEF PointerMotion
        <5> QED
          BY <2>4, <4>1, <4>2, <5>1 DEF graceVars, MotionIsDeliberate
      <4> QED
        BY <4>3, <4>4
    <3>2. CASE grace # "on"
      BY <2>4, <3>2 DEF PointerMotion, graceVars, MotionIsDeliberate
    <3> QED
      BY <3>1, <3>2
  <2>5. ASSUME PointerButton, UNCHANGED odd PROVE MotionIInv'
    BY <2>5 DEF PointerButton, pointerVars, MotionIsDeliberate
  <2>6. ASSUME NextSecond, UNCHANGED odd PROVE MotionIInv'
    BY <2>6 DEF NextSecond, graceVars, MotionIsDeliberate, TypeOK
  <2>7. ASSUME GraceStarts \/ GraceEnds, UNCHANGED odd PROVE MotionIInv'
    BY <2>7 DEF GraceStarts, GraceEnds, pointerVars, MotionIsDeliberate
  <2>8. CASE UNCHANGED vars
    BY <2>1, <2>8 DEF vars, graceVars
  <2> QED
    BY <2>1, <2>2, <2>3, <2>4, <2>5, <2>6, <2>7, <2>8
       DEF Next, KeyRelease, KeyboardRepeat, KeyboardEnter, KeyboardLeave, KeyboardKeymap,
           SeatHandleCapabilities, KeyboardRepeatInfo, graceVars
<1>3. RepeatInv => TypeOK
  BY DEF RepeatInv
<1>4. MotionIInv => MotionIsDeliberate
  OBVIOUS
<1> QED
  BY <1>1, <1>2, <1>3, <1>4, RepeatInvariant, PTL DEF Spec

=============================================================================
