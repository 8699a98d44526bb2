-------------------------------- MODULE Seat --------------------------------
(***************************************************************************)
(* One wl_seat (seat.c): the key-repeat timer against presses, releases,   *)
(* focus changes, keymaps, repeat settings and capability changes, and the *)
(* pointer tracking that decides whether motion ends the grace period.     *)
(*                                                                         *)
(* What the user's hands do (keys held, pointer position, the clock) is    *)
(* external; an event is delivered in the step in which it happens.        *)
(* Positions are on a line.                                                *)
(***************************************************************************)
EXTENDS Integers

CONSTANTS
  Keys,        \* keys of the keyboard
  MaxPos,      \* bound: pointer positions are 0 .. MaxPos
  Threshold,   \* args.grace_pointer_hysteresis
  MaxSecond    \* bound: the seconds CLOCK_MONOTONIC goes through

ASSUME SeatAssumption ==
  /\ MaxPos \in Nat /\ Threshold \in Nat \ {0} /\ MaxSecond \in Nat \ {0}

\* What may happen beyond the common course of events: the seat's devices change
\* while a key is held; the keymap is taken away then; the repeat settings change
\* then; the pointer enters a lock surface before the grace period has started.
Oddities == {"capabilities", "no_keymap", "repeat_change", "enter_early"}

VARIABLES
  odd,         \* {} or Oddities
  run,         \* state->run_display
  unlockedBy,  \* history: the event that ended the grace period, or "none"
  grace,       \* "before" it starts, "on" (state->grace_timer # NULL), "over"
  keyboard,    \* seat->keyboard # NULL
  focus,       \* the compositor has sent keyboard enter, and no leave
  keymap,      \* state->xkb.state # NULL
  held,        \* the keys the user holds down
  timer,       \* seat->repeat_timer # NULL
  armed,       \* repeat timers of this seat in the loop, the removed ones apart
  wait,        \* the milliseconds the newest of them was set to
  repeatKey,   \* seat->repeat_sym, repeat_codepoint
  period,      \* seat->repeat_period_ms
  second,      \* CLOCK_MONOTONIC, tv_sec
  pos,         \* where the pointer is
  recent,      \* history: where it has been in this second
  lastInterval, start, last   \* seat->last_interval, interval_start, last_mouse

keyVars     == <<keyboard, focus, keymap, held, timer, armed, wait, repeatKey, period>>
pointerVars == <<second, pos, recent, lastInterval, start, last>>
graceVars   == <<run, unlockedBy, grace>>
vars == <<odd, graceVars, keyVars, pointerVars>>

Delay     == 600
Positions == 0 .. MaxPos
\* repeat_info: no repetition, more than 1000 keys a second, 25 keys a second
Rates     == {0, 2000, 25}
NoKey     == "none"

TypeOK ==
  /\ odd \in {{}, Oddities}
  /\ run \in BOOLEAN /\ unlockedBy \in {"none", "key", "motion", "button"}
  /\ grace \in {"before", "on", "over"}
  /\ keyboard \in BOOLEAN /\ focus \in BOOLEAN /\ keymap \in BOOLEAN /\ timer \in BOOLEAN
  /\ held \subseteq Keys /\ repeatKey \in Keys \cup {NoKey}
  /\ armed \in 0 .. 1 /\ wait \in Int /\ period \in {-1, 0, 40}
  /\ second \in 1 .. MaxSecond /\ lastInterval \in 0 .. second
  /\ pos \in Positions /\ start \in Positions /\ last \in Positions /\ recent \subseteq Positions

-----------------------------------------------------------------------------
(* Keyboard *)

\* stop_repeat
StopRepeat == timer' = FALSE /\ armed' = IF timer THEN armed - 1 ELSE armed

\* stop_repeat, then a new timer
Arm(key) ==
  /\ timer' = TRUE /\ armed' = (IF timer THEN armed - 1 ELSE armed) + 1
  /\ wait' = Delay /\ repeatKey' = key

\* keyboard_key: keys are repeated at all
Repeats == period > 0

\* keyboard_key, pressed: typed (swaylock_handle_key, module Auth), or the end
\* of the grace period
KeyPress(key) ==
  /\ run /\ keyboard /\ focus /\ key \notin held
  /\ held' = held \cup {key}
  /\ CASE ~keymap ->
            UNCHANGED <<graceVars, timer, armed, wait, repeatKey>>
       [] keymap /\ grace = "on" ->
            /\ run' = FALSE /\ unlockedBy' = "key"
            /\ UNCHANGED <<grace, timer, armed, wait, repeatKey>>
       [] keymap /\ grace # "on" /\ Repeats ->
            Arm(key) /\ UNCHANGED graceVars
       [] keymap /\ grace # "on" /\ ~Repeats ->
            StopRepeat /\ UNCHANGED <<wait, repeatKey, graceVars>>
  /\ UNCHANGED <<keyboard, focus, keymap, period, pointerVars>>

\* keyboard_key, released: any release stops the repetition
KeyRelease(key) ==
  /\ run /\ keyboard /\ focus /\ key \in held
  /\ held' = held \ {key}
  /\ IF keymap THEN StopRepeat ELSE UNCHANGED <<timer, armed>>
  /\ UNCHANGED <<graceVars, keyboard, focus, keymap, wait, repeatKey, period, pointerVars>>

\* keyboard_repeat: the key is typed again
KeyboardRepeat ==
  /\ run /\ armed > 0
  /\ timer' = TRUE          \* one timer goes, one comes
  /\ wait' = period
  /\ UNCHANGED <<graceVars, keyboard, focus, keymap, held, armed, repeatKey, period, pointerVars>>

\* keyboard_enter.  Keys held at that time are not reported as pressed.
KeyboardEnter ==
  /\ run /\ keyboard /\ ~focus
  /\ focus' = TRUE /\ held' = {}
  /\ UNCHANGED <<graceVars, keyboard, keymap, timer, armed, wait, repeatKey, period, pointerVars>>

\* A mutant: losing the focus does not matter.
KeyboardLeaveIgnored ==
  /\ run /\ keyboard /\ focus
  /\ focus' = FALSE /\ held' = {}
  /\ UNCHANGED <<graceVars, keyboard, keymap, timer, armed, wait, repeatKey, period, pointerVars>>

\* keyboard_leave.  What is held from then on is not this client's business.
KeyboardLeave ==
  /\ run /\ keyboard /\ focus
  /\ focus' = FALSE /\ held' = {}
  /\ StopRepeat
  /\ UNCHANGED <<graceVars, keyboard, keymap, wait, repeatKey, period, pointerVars>>

\* keyboard_keymap: an XKB keymap, or none
KeyboardKeymap(xkb) ==
  /\ run /\ keyboard
  /\ ~xkb => "no_keymap" \in odd
  /\ keymap' = xkb
  /\ UNCHANGED <<graceVars, keyboard, focus, held, timer, armed, wait, repeatKey, period, pointerVars>>

\* The period keyboard_repeat_info makes of a rate.
PeriodOf(rate) == IF rate <= 0 THEN -1 ELSE 1000 \div rate

\* keyboard_repeat_info
KeyboardRepeatInfo(rate) ==
  /\ run /\ keyboard
  /\ timer => "repeat_change" \in odd
  /\ period' = PeriodOf(rate)
  /\ UNCHANGED <<graceVars, keyboard, focus, keymap, held, timer, armed, wait, repeatKey, pointerVars>>

\* seat_handle_capabilities: the devices are released and made anew.  The new
\* keyboard has no focus until it is entered.
SeatHandleCapabilities(has) ==
  /\ run
  /\ timer => "capabilities" \in odd
  /\ keyboard' = has /\ focus' = FALSE /\ held' = {}
  /\ UNCHANGED <<graceVars, keymap, timer, armed, wait, repeatKey, period, pointerVars>>

-----------------------------------------------------------------------------
(* Pointer *)

Dist(p, q) == IF p > q THEN p - q ELSE q - p

\* wl_pointer_enter: on a lock surface, whose coordinates are its own
PointerEnter(x) ==
  /\ run
  /\ grace = "on" \/ "enter_early" \in odd
  /\ pos' = x /\ recent' = {x}
  /\ IF grace = "on"
     THEN lastInterval' = second /\ start' = x /\ last' = x
     ELSE UNCHANGED <<lastInterval, start, last>>
  /\ UNCHANGED <<graceVars, keyVars, second>>

\* A mutant: motion is measured from where the pointer entered.
OriginEntered == start

\* Where motion is measured from: the last place of the second before.
Origin == IF lastInterval # second THEN last ELSE start

\* wl_pointer_motion.  Events come only after an enter.
PointerMotion(x) ==
  /\ run /\ recent # {} /\ x # pos
  /\ pos' = x /\ recent' = recent \cup {x}
  /\ IF grace = "on"
     THEN /\ lastInterval' = second /\ start' = Origin /\ last' = x
          /\ IF Dist(x, Origin) >= Threshold
             THEN run' = FALSE /\ unlockedBy' = "motion" /\ UNCHANGED grace
             ELSE UNCHANGED graceVars
     ELSE UNCHANGED <<graceVars, lastInterval, start, last>>
  /\ UNCHANGED <<keyVars, second>>

\* wl_pointer_button
PointerButton ==
  /\ run /\ recent # {} /\ grace = "on"
  /\ run' = FALSE /\ unlockedBy' = "button"
  /\ UNCHANGED <<grace, keyVars, pointerVars>>

-----------------------------------------------------------------------------
(* The clock, and the grace period (module Session) *)

NextSecond ==
  /\ run /\ second < MaxSecond
  /\ second' = second + 1
  /\ recent' = IF recent = {} THEN {} ELSE {pos}
  /\ UNCHANGED <<graceVars, keyVars, pos, lastInterval, start, last>>

\* main, after the first loop: the grace timer is set
GraceStarts ==
  /\ run /\ grace = "before"
  /\ grace' = "on"
  /\ UNCHANGED <<run, unlockedBy, keyVars, pointerVars>>

\* grace_timeout, lock_in, sleep_in
GraceEnds ==
  /\ run /\ grace = "on"
  /\ grace' = "over"
  /\ UNCHANGED <<run, unlockedBy, keyVars, pointerVars>>

\* The seat is allocated zeroed; last_interval is then no second of the clock.
Init ==
  /\ odd \in {{}, Oddities}
  /\ run = TRUE /\ unlockedBy = "none" /\ grace = "before"
  /\ keyboard = FALSE /\ focus = FALSE /\ keymap = FALSE /\ held = {}
  /\ timer = FALSE /\ armed = 0 /\ wait = 0 /\ repeatKey = NoKey /\ period = 0
  /\ second = 1 /\ pos = 0 /\ recent = {}
  /\ lastInterval = 0 /\ start = 0 /\ last = 0

Next ==
  /\ \/ \E key \in Keys : KeyPress(key) \/ KeyRelease(key)
     \/ KeyboardRepeat \/ KeyboardEnter \/ KeyboardLeave
     \/ \E b \in BOOLEAN : KeyboardKeymap(b) \/ SeatHandleCapabilities(b)
     \/ \E rate \in Rates : KeyboardRepeatInfo(rate)
     \/ \E x \in Positions : PointerEnter(x) \/ PointerMotion(x)
     \/ PointerButton \/ NextSecond \/ GraceStarts \/ GraceEnds
  /\ UNCHANGED odd

Spec == Init /\ [][Next]_vars

-----------------------------------------------------------------------------
\* The repeat timer stop_repeat would remove is the only one of the seat in the
\* event loop: no second timer types keys that nothing can stop.
RepeatTracked == armed = IF timer THEN 1 ELSE 0

\* In the common course of events a key is repeated only while the user holds it
\* down on the focused keyboard (keyboard_leave: a lingering timer would type
\* into the password).
RepeatIsHeld == odd = {} /\ timer => keyboard /\ focus /\ repeatKey \in held

\* Repeated keys are apart in time, unless the rate changes under a held key: the
\* timer is never set to nothing or less, which would type the key in every turn
\* of the event loop.
RepeatIsSpaced == odd = {} /\ timer => wait > 0

\* The seat knows its one repeat timer, and what that types is held and is typed
\* at intervals, with the types.
RepeatInv == TypeOK /\ RepeatTracked /\ RepeatIsHeld /\ RepeatIsSpaced

\* The grace period ends by motion only if the pointer was, within the second,
\* at two places at least the hysteresis apart (wl_pointer_motion), provided it
\* entered the surface in that period.
MotionIsDeliberate ==
  odd = {} /\ unlockedBy = "motion" => \E p \in recent : Dist(p, pos) >= Threshold

=============================================================================
