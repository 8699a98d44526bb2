------------------------------ MODULE Session ------------------------------
(***************************************************************************)
(* The life of one lock: main() from the lock request to unlock_and_destroy *)
(* with its two event loops, the signals, the grace period, and the        *)
(* swaylock-sleep-watcher process that ends the grace period before the    *)
(* machine sleeps (main.c, seat.c, sleep-watcher.c).                       *)
(*                                                                         *)
(* Each action of swaylock is one callback of loop_poll, or the straight   *)
(* code between the two loops.  The compositor's lock events, the signals  *)
(* and logind are external.  Nothing runs while the machine is asleep.     *)
(***************************************************************************)
EXTENDS Integers

CONSTANTS
  GraceTime,   \* args.grace_time > 0
  ReadyFd,     \* args.ready_fd >= 0
  CanFail,     \* the watcher may also fail for reasons outside its code
  MaxSleeps    \* bound: how often the machine is put to sleep

ASSUME SessionAssumption ==
  /\ GraceTime \in BOOLEAN
  /\ ReadyFd \in BOOLEAN
  /\ CanFail \in BOOLEAN
  /\ MaxSleeps \in Nat

VARIABLES
  phase,       \* "locking", "main" (the second loop), "done", "exited" (by exit())
  runDisplay,  \* state.run_display
  locked,      \* state.locked
  broken,      \* the compositor connection has failed
  ready,       \* the newline was written to ready_fd
  unlockedBy,  \* history: what cleared run_display first
  usr1,        \* a byte waits in the SIGUSR1 pipe, which nothing drains
  usr2,        \* a byte waits in the SIGUSR2 pipe, which nothing drains
  graceTimer,  \* state.grace_timer # NULL
  live,        \* un-removed grace timers in the event loop
  pipes,       \* sleep_comm_r and sleep_comm_w are open (else both are -1)
  pollEntry,   \* the poll set's entry for sleep_comm_r: "absent", "active", "removed"
  watcher,     \* "none", "starting", "watching", "gone"
  inhibitor,   \* the watcher holds logind's delay lock on sleep
  message,     \* PrepareForSleep(TRUE / FALSE) waits on the watcher's bus
  power,       \* logind: "awake", "preparing", "asleep"
  inhibited,   \* history: the lock was held when this preparation began
  sleeps       \* sleeps so far

graceVars   == <<graceTimer, live, pipes, pollEntry>>
watcherVars == <<watcher, inhibitor, message>>
powerVars   == <<power, inhibited, sleeps>>
signalVars  == <<usr1, usr2>>
mainVars    == <<phase, runDisplay, locked, broken, ready, unlockedBy>>
vars == <<mainVars, signalVars, graceVars, watcherVars, powerVars>>

Awake == power # "asleep"
Looping == Awake /\ phase \in {"locking", "main"}

-----------------------------------------------------------------------------
(* The compositor and the signals (external) *)

\* ext_session_lock_v1.locked
HandleLocked ==
  /\ Looping /\ ~locked /\ ~broken
  /\ locked' = TRUE
  /\ UNCHANGED <<phase, runDisplay, broken, ready, unlockedBy, signalVars,
                 graceVars, watcherVars, powerVars>>

\* Leaving by exit() or return closes every descriptor.
ProcessEnds(how) ==
  /\ phase' = how
  /\ pipes' = FALSE
  /\ live' = 0
  /\ pollEntry' = "absent"
  /\ graceTimer' = FALSE

\* ext_session_lock_v1.finished: exit(2)
HandleFinished ==
  /\ Looping /\ ~broken
  /\ ProcessEnds("exited")
  /\ UNCHANGED <<runDisplay, locked, broken, ready, unlockedBy, signalVars,
                 watcherVars, powerVars>>

ConnectionBreaks ==
  /\ Looping /\ ~broken
  /\ broken' = TRUE
  /\ UNCHANGED <<phase, runDisplay, locked, ready, unlockedBy, signalVars,
                 graceVars, watcherVars, powerVars>>

\* do_sigusr, do_sigusr2
Signal ==
  /\ Looping
  /\ \/ ~usr1 /\ usr1' = TRUE /\ UNCHANGED usr2
     \/ ~usr2 /\ usr2' = TRUE /\ UNCHANGED usr1
  /\ UNCHANGED <<mainVars, graceVars, watcherVars, powerVars>>

-----------------------------------------------------------------------------
(* Callbacks that end the loops *)

StopRunning(why) ==
  /\ runDisplay' = FALSE
  /\ unlockedBy' = IF runDisplay THEN why ELSE unlockedBy
  /\ UNCHANGED <<phase, locked, broken, ready, signalVars, graceVars,
                 watcherVars, powerVars>>

\* display_in(): wl_display_dispatch() fails
DisplayIn == Looping /\ broken /\ runDisplay /\ StopRunning("display")

TermInWhenLocked == Looping /\ locked /\ usr1 /\ runDisplay /\ StopRunning("SIGUSR1")

\* term_in()
TermIn == Looping /\ usr1 /\ runDisplay /\ StopRunning("SIGUSR1")

\* comm_in() with a successful reply: see Auth
AuthSucceeds == Looping /\ runDisplay /\ StopRunning("password")

GraceInputUnchecked == Looping /\ ~broken /\ runDisplay /\ StopRunning("grace")

\* keyboard_key(), wl_pointer_button(), and wl_pointer_motion() beyond the
\* hysteresis: any of them unlocks while grace_timer is set.
GraceInput == Looping /\ ~broken /\ graceTimer /\ runDisplay /\ StopRunning("grace")

-----------------------------------------------------------------------------
(* The grace period *)

ClosePipes == pipes' = FALSE

LoopRemoveTimer == live' = IF graceTimer THEN live - 1 ELSE live

\* loop_remove_fd(fd): marks the entry whose descriptor is fd, if there is one.
\* A field that is already -1 (open = FALSE) matches no entry.
LoopRemoveFd(open) ==
  pollEntry' = IF open /\ pollEntry = "active" THEN "removed" ELSE pollEntry

\* grace_timeout(); the loop frees the timer
GraceTimeout ==
  /\ Looping
  /\ live > 0
  /\ graceTimer' = FALSE
  /\ live' = live - 1
  /\ LoopRemoveFd(pipes)
  /\ ClosePipes
  /\ UNCHANGED <<mainVars, signalVars, watcherVars, powerVars>>

LockInKeepingTimer ==
  /\ Looping
  /\ usr2
  /\ graceTimer
  /\ graceTimer' = FALSE
  /\ LoopRemoveFd(pipes)
  /\ ClosePipes
  /\ UNCHANGED <<live, mainVars, signalVars, watcherVars, powerVars>>

LockInDraining ==
  /\ Looping
  /\ usr2
  /\ usr2' = FALSE
  /\ IF graceTimer
       THEN LoopRemoveTimer /\ graceTimer' = FALSE /\ LoopRemoveFd(pipes) /\ ClosePipes
       ELSE UNCHANGED graceVars
  /\ UNCHANGED <<usr1, mainVars, watcherVars, powerVars>>

\* lock_in(); without a grace period it does nothing
LockIn ==
  /\ Looping
  /\ usr2
  /\ graceTimer
  /\ LoopRemoveTimer
  /\ graceTimer' = FALSE
  /\ LoopRemoveFd(pipes)
  /\ ClosePipes
  /\ UNCHANGED <<mainVars, signalVars, watcherVars, powerVars>>

\* The watcher's end of the pipe is closed: POLLHUP on sleep_comm_r.
WatcherHungUp == watcher = "gone"

\* sleep_in().  The fields are set to -1 before loop_remove_fd() looks for them.
SleepIn ==
  /\ Looping
  /\ pollEntry = "active" /\ pipes
  /\ WatcherHungUp
  /\ graceTimer
  /\ LoopRemoveTimer
  /\ graceTimer' = FALSE
  /\ ClosePipes
  /\ LoopRemoveFd(pipes')
  /\ UNCHANGED <<mainVars, signalVars, watcherVars, powerVars>>

\* loop_poll() frees the entries marked removed when it next dispatches.
LoopFreeRemoved ==
  /\ Looping
  /\ pollEntry = "removed"
  /\ pollEntry' = "absent"
  /\ UNCHANGED <<graceTimer, live, pipes, mainVars, signalVars, watcherVars,
                 powerVars>>

-----------------------------------------------------------------------------
(* main() between and after the loops *)

\* start_sleep_watcher() makes the pipes and spawns the watcher; a spawn that
\* fails goes unnoticed and looks like a watcher that is gone at once.
StartGrace ==
  \/ /\ graceTimer' = TRUE /\ live' = live + 1 /\ pipes' = TRUE
     /\ pollEntry' = "active"
     /\ watcher' \in {"starting", "gone"}
     /\ UNCHANGED <<inhibitor, message>>
  \/ UNCHANGED <<graceVars, watcherVars>>

\* Post lock operations, also when the first loop ended without a lock
LeaveLocking ==
  /\ Looping
  /\ phase = "locking"
  /\ locked \/ ~runDisplay \/ broken
  /\ phase' = "main"
  /\ ready' = ReadyFd
  /\ IF GraceTime THEN StartGrace ELSE UNCHANGED <<graceVars, watcherVars>>
  /\ UNCHANGED <<runDisplay, locked, broken, unlockedBy, signalVars, powerVars>>

\* write() to ready_fd or daemonize() fails
LeaveLockingFails ==
  /\ Looping
  /\ phase = "locking"
  /\ locked \/ ~runDisplay \/ broken
  /\ ProcessEnds("exited")
  /\ UNCHANGED <<runDisplay, locked, broken, ready, unlockedBy, signalVars,
                 watcherVars, powerVars>>

\* resume_all_clients, unlock_and_destroy, return 0
LeaveMain ==
  /\ Looping
  /\ phase = "main"
  /\ ~runDisplay \/ broken
  /\ ProcessEnds("done")
  /\ UNCHANGED <<runDisplay, locked, broken, ready, unlockedBy, signalVars,
                 watcherVars, powerVars>>

-----------------------------------------------------------------------------
(* swaylock-sleep-watcher: run() *)

\* The process ends, for whatever reason: the kernel closes its descriptors.
WatcherEnds ==
  /\ watcher' = "gone"
  /\ inhibitor' = FALSE
  /\ message' = {}
  /\ UNCHANGED <<mainVars, signalVars, graceVars, powerVars>>

\* The bus is open and the signal matched; the lock may be refused.
WatcherStarts ==
  /\ Awake
  /\ watcher = "starting"
  /\ watcher' = "watching"
  /\ inhibitor' \in BOOLEAN
  /\ UNCHANGED <<message, mainVars, signalVars, graceVars, powerVars>>

WatcherFails ==
  CanFail /\ Awake /\ watcher \in {"starting", "watching"} /\ WatcherEnds

WatcherEofIgnoringHup == FALSE /\ WatcherEnds

\* comm_r reads end of file: "grace period ended, this program may exit"
WatcherEof == Awake /\ watcher = "watching" /\ ~pipes /\ WatcherEnds

\* prepare_for_sleep() is registered with a NULL userdata, so both of its
\* branches use a null state: the process is killed.
WatcherPrepareForSleep ==
  Awake /\ watcher = "watching" /\ message # {} /\ WatcherEnds

-----------------------------------------------------------------------------
(* logind (external).  The delay lock holds sleep up until it is released;  *)
(* its time limit is taken to be long enough.                               *)

Announce(goingDown) ==
  message' = IF watcher = "watching" THEN message \cup {goingDown} ELSE message

PrepareForSleep ==
  /\ power = "awake"
  /\ sleeps < MaxSleeps
  /\ power' = "preparing"
  /\ inhibited' = inhibitor
  /\ sleeps' = sleeps + 1
  /\ Announce(TRUE)
  /\ UNCHANGED <<watcher, inhibitor, mainVars, signalVars, graceVars>>

Suspend ==
  /\ power = "preparing"
  /\ ~inhibitor
  /\ power' = "asleep"
  /\ UNCHANGED <<inhibited, sleeps, mainVars, signalVars, graceVars, watcherVars>>

Resume ==
  /\ power = "asleep"
  /\ power' = "awake"
  /\ inhibited' = FALSE
  /\ Announce(FALSE)
  /\ UNCHANGED <<watcher, inhibitor, sleeps, mainVars, signalVars, graceVars>>

-----------------------------------------------------------------------------
Init ==
  /\ phase = "locking"
  /\ runDisplay = TRUE
  /\ locked = FALSE
  /\ broken = FALSE
  /\ ready = FALSE
  /\ unlockedBy = "nothing"
  /\ usr1 = FALSE
  /\ usr2 = FALSE
  /\ graceTimer = FALSE
  /\ live = 0
  /\ pipes = FALSE
  /\ pollEntry = "absent"
  /\ watcher = "none"
  /\ inhibitor = FALSE
  /\ message = {}
  /\ power = "awake"
  /\ inhibited = FALSE
  /\ sleeps = 0

Next ==
  \/ HandleLocked \/ HandleFinished \/ ConnectionBreaks \/ Signal
  \/ DisplayIn \/ TermIn \/ AuthSucceeds \/ GraceInput
  \/ GraceTimeout \/ LockIn \/ SleepIn \/ LoopFreeRemoved
  \/ LeaveLocking \/ LeaveLockingFails \/ LeaveMain
  \/ WatcherStarts \/ WatcherFails \/ WatcherEof \/ WatcherPrepareForSleep
  \/ PrepareForSleep \/ Suspend \/ Resume

Spec == Init /\ [][Next]_vars

(* poll() reports a ready descriptor and loop_poll() serves it; main() goes *)
(* on when a loop ends; the watcher is scheduled; the machine wakes up.     *)
Fairness ==
  /\ WF_vars(DisplayIn) /\ WF_vars(TermIn)
  /\ WF_vars(LockIn) /\ WF_vars(SleepIn) /\ WF_vars(LoopFreeRemoved)
  /\ WF_vars(LeaveLocking) /\ WF_vars(LeaveMain)
  /\ WF_vars(WatcherStarts) /\ WF_vars(WatcherEof)
  /\ WF_vars(Resume)

FairSpec == Spec /\ Fairness

-----------------------------------------------------------------------------
(* Properties *)

\* Every variable keeps its type; at most one grace timer is ever live.
TypeOK ==
  /\ phase \in {"locking", "main", "done", "exited"}
  /\ runDisplay \in BOOLEAN /\ locked \in BOOLEAN /\ broken \in BOOLEAN
  /\ ready \in BOOLEAN
  /\ unlockedBy \in {"nothing", "display", "SIGUSR1", "password", "grace"}
  /\ usr1 \in BOOLEAN /\ usr2 \in BOOLEAN
  /\ graceTimer \in BOOLEAN /\ live \in 0 .. 1 /\ pipes \in BOOLEAN
  /\ pollEntry \in {"absent", "active", "removed"}
  /\ watcher \in {"none", "starting", "watching", "gone"}
  /\ inhibitor \in BOOLEAN /\ message \subseteq BOOLEAN
  /\ power \in {"awake", "preparing", "asleep"}
  /\ inhibited \in BOOLEAN /\ sleeps \in 0 .. MaxSleeps

\* Whichever of the timeout, SIGUSR2 and the watcher ends the grace period, it
\* takes the timer, its pointer and both pipes down together; while the period
\* lasts all of them exist and the watcher's pipe is polled.
GraceConsistent ==
  /\ live = IF graceTimer THEN 1 ELSE 0
  /\ pipes = graceTimer
  /\ graceTimer => phase = "main" /\ pollEntry = "active" /\ watcher # "none"

\* The grace period is taken down as one, with the types.
GraceInv == TypeOK /\ GraceConsistent

\* The lock is left without a password only on SIGUSR1, when the compositor
\* connection is lost, or by input that came before the grace period ended.
\* Once the period is over in the main loop it never opens again.
GraceOverIsFinal ==
  [][phase = "main" /\ ~graceTimer =>
       ~graceTimer' /\ (unlockedBy' = "grace" => unlockedBy = "grace")]_vars

\* README: "The grace period also ends on receipt of the signal SIGUSR2",
\* also when the signal arrives before the period has begun.
Usr2EndsGrace == [](usr2 => <>[](~graceTimer))

\* main(): "Failure of this process just cancels the grace period".
WatcherFailureEndsGrace == (watcher = "gone") ~> ~graceTimer

\* The grace period ends when the user or a broken watcher asks for it.
GraceEnds == Usr2EndsGrace /\ WatcherFailureEndsGrace

\* The end of the grace period, or of swaylock, ends the watcher and so frees
\* logind's delay lock: the machine is not held awake by a forgotten helper.
GraceEndFreesInhibitor ==
  (phase # "locking" /\ ~graceTimer) ~> (watcher \in {"none", "gone"} /\ ~inhibitor)

\* swaylock.1: SIGUSR1 unlocks the screen and exits, in the locking phase too.
Usr1Exits == usr1 ~> (phase \in {"done", "exited"})

\* README: "automatically end the grace period just before the computer goes to
\* sleep": asleep, with the delay lock held when sleep was announced, the grace
\* period is over.
AsleepMeansLocked == power = "asleep" /\ inhibited => ~graceTimer

=============================================================================
