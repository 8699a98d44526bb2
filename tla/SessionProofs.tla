--------------------------- MODULE SessionProofs ----------------------------
(***************************************************************************)
(* Theorems about the life of a lock, with and without a grace period and  *)
(* a ready descriptor, however the watcher behaves and however often the   *)
(* machine sleeps.                                                         *)
(***************************************************************************)
EXTENDS Session, TLAPS

\* The counters, and the types of everything else.
CountersOK ==
  /\ live \in 0 .. 1 /\ sleeps \in 0 .. MaxSleeps
  /\ live = IF graceTimer THEN 1 ELSE 0
SwitchesOK ==
  /\ runDisplay \in BOOLEAN /\ locked \in BOOLEAN /\ broken \in BOOLEAN /\ ready \in BOOLEAN
  /\ usr1 \in BOOLEAN /\ usr2 \in BOOLEAN /\ graceTimer \in BOOLEAN /\ pipes \in BOOLEAN
  /\ inhibitor \in BOOLEAN /\ inhibited \in BOOLEAN
NamesOK ==
  /\ phase \in {"locking", "main", "done", "exited"}
  /\ unlockedBy \in {"nothing", "display", "SIGUSR1", "password", "grace"}
  /\ pollEntry \in {"absent", "active", "removed"}
  /\ watcher \in {"none", "starting", "watching", "gone"}
  /\ power \in {"awake", "preparing", "asleep"} /\ message \subseteq BOOLEAN

\* All there is of a grace period but the timer itself.
PeriodWhole ==
  /\ pipes = graceTimer
  /\ graceTimer => phase = "main" /\ pollEntry = "active" /\ watcher # "none"

LEMMA GraceParts == GraceInv <=> CountersOK /\ SwitchesOK /\ NamesOK /\ PeriodWhole
BY DEF GraceInv, TypeOK, GraceConsistent, CountersOK, SwitchesOK, NamesOK, PeriodWhole

\* The compositor, the signals and the callbacks that only ask the loop to end
\* leave the grace period alone, or end with the process.
LEMMA EventsKeepGrace ==
  ASSUME SessionAssumption, CountersOK, SwitchesOK, NamesOK, PeriodWhole,
         \/ HandleLocked \/ HandleFinished \/ ConnectionBreaks \/ Signal
         \/ DisplayIn \/ TermIn \/ AuthSucceeds \/ GraceInput
  PROVE  CountersOK' /\ SwitchesOK' /\ NamesOK' /\ PeriodWhole'
<1> USE DEF mainVars, signalVars, graceVars, watcherVars, powerVars
<1>1. CASE HandleLocked
  <2>1. CountersOK'
    BY <1>1 DEF CountersOK, SwitchesOK, HandleLocked
  <2>2. SwitchesOK'
    BY <1>1, Zenon DEF SwitchesOK, HandleLocked
  <2>3. NamesOK'
    BY <1>1, Zenon DEF NamesOK, HandleLocked
  <2>4. PeriodWhole'
    BY <1>1, Zenon DEF PeriodWhole, HandleLocked
  <2> QED
    BY <2>1, <2>2, <2>3, <2>4
<1>2. CASE HandleFinished
  <2>1. CountersOK'
    BY <1>2 DEF CountersOK, SwitchesOK, HandleFinished, ProcessEnds
  <2>2. SwitchesOK'
    BY <1>2, Zenon DEF SwitchesOK, HandleFinished, ProcessEnds
  <2>3. NamesOK'
    BY <1>2, Zenon DEF NamesOK, HandleFinished, ProcessEnds
  <2>4. PeriodWhole'
    BY <1>2, Zenon DEF PeriodWhole, HandleFinished, ProcessEnds
  <2> QED
    BY <2>1, <2>2, <2>3, <2>4
<1>3. CASE ConnectionBreaks
  <2>1. CountersOK'
    BY <1>3 DEF CountersOK, SwitchesOK, ConnectionBreaks
  <2>2. SwitchesOK'
    BY <1>3, Zenon DEF SwitchesOK, ConnectionBreaks
  <2>3. NamesOK'
    BY <1>3, Zenon DEF NamesOK, ConnectionBreaks
  <2>4. PeriodWhole'
    BY <1>3, Zenon DEF PeriodWhole, ConnectionBreaks
  <2> QED
    BY <2>1, <2>2, <2>3, <2>4
<1>4. CASE Signal
  <2>1. CountersOK'
    BY <1>4 DEF CountersOK, SwitchesOK, Signal
  <2>2. SwitchesOK'
    BY <1>4, Zenon DEF SwitchesOK, Signal
  <2>3. NamesOK'
    BY <1>4, Zenon DEF NamesOK, Signal
  <2>4. PeriodWhole'
    BY <1>4, Zenon DEF PeriodWhole, Signal
  <2> QED
    BY <2>1, <2>2, <2>3, <2>4
<1>5. CASE DisplayIn \/ TermIn \/ AuthSucceeds \/ GraceInput
  <2>1. /\ runDisplay' = FALSE /\ unlockedBy' \in {"display", "SIGUSR1", "password", "grace", unlockedBy}
        /\ UNCHANGED <<phase, locked, broken, ready, signalVars, graceVars, watcherVars, powerVars>>
    BY <1>5 DEF DisplayIn, TermIn, AuthSucceeds, GraceInput, StopRunning
  <2>2. CountersOK'
    BY <2>1 DEF CountersOK, SwitchesOK
  <2>3. SwitchesOK'
    BY <2>1, Zenon DEF SwitchesOK
  <2>4. NamesOK'
    BY <2>1, Zenon DEF NamesOK
  <2>5. PeriodWhole'
    BY <2>1, Zenon DEF PeriodWhole
  <2> QED
    BY <2>2, <2>3, <2>4, <2>5
<1> QED
  BY <1>1, <1>2, <1>3, <1>4, <1>5

\* Each of the three ends of the grace period takes down all of it, and main
\* sets all of it up.
LEMMA GraceStepsKeepGrace ==
  ASSUME SessionAssumption, CountersOK, SwitchesOK, NamesOK, PeriodWhole,
         \/ GraceTimeout \/ LockIn \/ SleepIn \/ LoopFreeRemoved
         \/ LeaveLocking \/ LeaveLockingFails \/ LeaveMain
  PROVE  CountersOK' /\ SwitchesOK' /\ NamesOK' /\ PeriodWhole'
<1> USE DEF mainVars, signalVars, graceVars, watcherVars, powerVars
<1>1. CASE GraceTimeout
  <2>1. CountersOK'
    BY <1>1 DEF CountersOK, SwitchesOK, GraceTimeout, LoopRemoveFd, ClosePipes
  <2>2. SwitchesOK'
    BY <1>1, Zenon DEF SwitchesOK, GraceTimeout, LoopRemoveFd, ClosePipes
  <2>3. NamesOK'
    BY <1>1, Zenon DEF NamesOK, GraceTimeout, LoopRemoveFd, ClosePipes
  <2>4. PeriodWhole'
    BY <1>1, Zenon DEF PeriodWhole, GraceTimeout, LoopRemoveFd, ClosePipes
  <2> QED
    BY <2>1, <2>2, <2>3, <2>4
<1>2. CASE LockIn
  <2>1. CountersOK'
    BY <1>2 DEF CountersOK, SwitchesOK, LockIn, LoopRemoveTimer, LoopRemoveFd, ClosePipes
  <2>2. SwitchesOK'
    BY <1>2, Zenon DEF SwitchesOK, LockIn, LoopRemoveTimer, LoopRemoveFd, ClosePipes
  <2>3. NamesOK'
    BY <1>2, Zenon DEF NamesOK, LockIn, LoopRemoveTimer, LoopRemoveFd, ClosePipes
  <2>4. PeriodWhole'
    BY <1>2, Zenon DEF PeriodWhole, LockIn, LoopRemoveTimer, LoopRemoveFd, ClosePipes
  <2> QED
    BY <2>1, <2>2, <2>3, <2>4
<1>3. CASE SleepIn
  <2>1. CountersOK'
    BY <1>3 DEF CountersOK, SwitchesOK, SleepIn, LoopRemoveTimer, LoopRemoveFd, ClosePipes
  <2>2. SwitchesOK'
    BY <1>3, Zenon DEF SwitchesOK, SleepIn, LoopRemoveTimer, LoopRemoveFd, ClosePipes
  <2>3. NamesOK'
    BY <1>3, Zenon DEF NamesOK, SleepIn, LoopRemoveTimer, LoopRemoveFd, ClosePipes
  <2>4. PeriodWhole'
    BY <1>3, Zenon DEF PeriodWhole, SleepIn, LoopRemoveTimer, LoopRemoveFd, ClosePipes
  <2> QED
    BY <2>1, <2>2, <2>3, <2>4
<1>4. CASE LoopFreeRemoved
  <2>1. CountersOK'
    BY <1>4 DEF CountersOK, SwitchesOK, LoopFreeRemoved
  <2>2. SwitchesOK'
    BY <1>4, Zenon DEF SwitchesOK, LoopFreeRemoved
  <2>3. NamesOK'
    BY <1>4, Zenon DEF NamesOK, LoopFreeRemoved
  <2>4. PeriodWhole'
    BY <1>4, Zenon DEF PeriodWhole, LoopFreeRemoved
  <2> QED
    BY <2>1, <2>2, <2>3, <2>4
<1>5. CASE LeaveLocking
  <2>1. CountersOK'
    BY <1>5 DEF CountersOK, SwitchesOK, NamesOK, PeriodWhole, LeaveLocking, StartGrace, SessionAssumption
  <2>2. SwitchesOK'
    BY <1>5, Zenon DEF SwitchesOK, LeaveLocking, StartGrace, SessionAssumption
  <2>3. NamesOK'
    BY <1>5, Zenon DEF NamesOK, LeaveLocking, StartGrace, SessionAssumption
  <2>4. PeriodWhole'
    BY <1>5, Zenon DEF PeriodWhole, LeaveLocking, StartGrace, SessionAssumption
  <2> QED
    BY <2>1, <2>2, <2>3, <2>4
<1>6. CASE LeaveLockingFails
  <2>1. CountersOK'
    BY <1>6 DEF CountersOK, SwitchesOK, LeaveLockingFails, ProcessEnds
  <2>2. SwitchesOK'
    BY <1>6, Zenon DEF SwitchesOK, LeaveLockingFails, ProcessEnds
  <2>3. NamesOK'
    BY <1>6, Zenon DEF NamesOK, LeaveLockingFails, ProcessEnds
  <2>4. PeriodWhole'
    BY <1>6, Zenon DEF PeriodWhole, LeaveLockingFails, ProcessEnds
  <2> QED
    BY <2>1, <2>2, <2>3, <2>4
<1>7. CASE LeaveMain
  <2>1. CountersOK'
    BY <1>7 DEF CountersOK, SwitchesOK, LeaveMain, ProcessEnds
  <2>2. SwitchesOK'
    BY <1>7, Zenon DEF SwitchesOK, LeaveMain, ProcessEnds
  <2>3. NamesOK'
    BY <1>7, Zenon DEF NamesOK, LeaveMain, ProcessEnds
  <2>4. PeriodWhole'
    BY <1>7, Zenon DEF PeriodWhole, LeaveMain, ProcessEnds
  <2> QED
    BY <2>1, <2>2, <2>3, <2>4
<1> QED
  BY <1>1, <1>2, <1>3, <1>4, <1>5, <1>6, <1>7

\* The watcher and logind do not touch the locker's side.
LEMMA OthersKeepGrace ==
  ASSUME SessionAssumption, CountersOK, SwitchesOK, NamesOK, PeriodWhole,
         \/ WatcherStarts \/ WatcherFails \/ WatcherEof \/ WatcherPrepareForSleep
         \/ PrepareForSleep \/ Suspend \/ Resume
  PROVE  CountersOK' /\ SwitchesOK' /\ NamesOK' /\ PeriodWhole'
<1> USE DEF mainVars, signalVars, graceVars, watcherVars, powerVars
<1>1. CASE WatcherStarts
  <2>1. CountersOK'
    BY <1>1 DEF CountersOK, SwitchesOK, WatcherStarts
  <2>2. SwitchesOK'
    BY <1>1, Zenon DEF SwitchesOK, WatcherStarts
  <2>3. NamesOK'
    BY <1>1, Zenon DEF NamesOK, WatcherStarts
  <2>4. PeriodWhole'
    BY <1>1, Zenon DEF PeriodWhole, WatcherStarts
  <2> QED
    BY <2>1, <2>2, <2>3, <2>4
<1>2. CASE WatcherFails \/ WatcherEof \/ WatcherPrepareForSleep
  <2>1. WatcherEnds /\ watcher # "none"
    BY <1>2 DEF WatcherFails, WatcherEof, WatcherPrepareForSleep
  <2>2. CountersOK'
    BY <2>1 DEF CountersOK, SwitchesOK, WatcherEnds
  <2>3. SwitchesOK'
    BY <2>1, Zenon DEF SwitchesOK, WatcherEnds
  <2>4. NamesOK'
    BY <2>1, Zenon DEF NamesOK, WatcherEnds
  <2>5. PeriodWhole'
    BY <2>1, Zenon DEF PeriodWhole, WatcherEnds
  <2> QED
    BY <2>2, <2>3, <2>4, <2>5
<1>3. CASE PrepareForSleep
  <2>1. CountersOK'
    BY <1>3 DEF CountersOK, SwitchesOK, PrepareForSleep, Announce, SessionAssumption
  <2>2. SwitchesOK'
    BY <1>3, Zenon DEF SwitchesOK, PrepareForSleep, Announce, SessionAssumption
  <2>3. NamesOK'
    BY <1>3, Zenon DEF NamesOK, PrepareForSleep, Announce, SessionAssumption
  <2>4. PeriodWhole'
    BY <1>3, Zenon DEF PeriodWhole, PrepareForSleep, Announce, SessionAssumption
  <2> QED
    BY <2>1, <2>2, <2>3, <2>4
<1>4. CASE Suspend
  <2>1. CountersOK'
    BY <1>4 DEF CountersOK, SwitchesOK, Suspend
  <2>2. SwitchesOK'
    BY <1>4, Zenon DEF SwitchesOK, Suspend
  <2>3. NamesOK'
    BY <1>4, Zenon DEF NamesOK, Suspend
  <2>4. PeriodWhole'
    BY <1>4, Zenon DEF PeriodWhole, Suspend
  <2> QED
    BY <2>1, <2>2, <2>3, <2>4
<1>5. CASE Resume
  <2>1. CountersOK'
    BY <1>5 DEF CountersOK, SwitchesOK, Resume, Announce
  <2>2. SwitchesOK'
    BY <1>5, Zenon DEF SwitchesOK, Resume, Announce
  <2>3. NamesOK'
    BY <1>5, Zenon DEF NamesOK, Resume, Announce
  <2>4. PeriodWhole'
    BY <1>5, Zenon DEF PeriodWhole, Resume, Announce
  <2> QED
    BY <2>1, <2>2, <2>3, <2>4
<1> QED
  BY <1>1, <1>2, <1>3, <1>4, <1>5

\* The timer, its pointer, both pipes and the watcher stand and fall together,
\* whichever of the timeout, SIGUSR2 and the watcher ends the grace period and
\* whenever the process ends.  GraceInv is inductive.
THEOREM GraceInvariant == Spec => []GraceInv
<1>0. SessionAssumption
  BY SessionAssumption
<1>1. Init => GraceInv
  <2> SUFFICES ASSUME Init PROVE GraceInv
    OBVIOUS
  <2>1. CountersOK
    BY <1>0 DEF Init, CountersOK, SessionAssumption
  <2>2. SwitchesOK
    BY Zenon DEF Init, SwitchesOK
  <2>3. NamesOK
    BY Zenon DEF Init, NamesOK
  <2>4. PeriodWhole
    BY Zenon DEF Init, PeriodWhole
  <2> QED
    BY <2>1, <2>2, <2>3, <2>4, GraceParts
<1>2. GraceInv /\ [Next]_vars => GraceInv'
  <2> SUFFICES ASSUME GraceInv, [Next]_vars PROVE GraceInv'
    OBVIOUS
  <2>1. CASE UNCHANGED vars
    BY <2>1 DEF vars, mainVars, signalVars, graceVars, watcherVars, powerVars, GraceInv, TypeOK,
                GraceConsistent
  <2> QED
    <3>1. CountersOK /\ SwitchesOK /\ NamesOK /\ PeriodWhole
      BY GraceParts
    <3>2. CASE Next
      <4>1. CountersOK' /\ SwitchesOK' /\ NamesOK' /\ PeriodWhole'
        BY <1>0, <3>1, <3>2, EventsKeepGrace, GraceStepsKeepGrace, OthersKeepGrace DEF Next
      <4> QED
        BY <4>1 DEF GraceInv, TypeOK, GraceConsistent, CountersOK, SwitchesOK, NamesOK, PeriodWhole
    <3> QED
      BY <2>1, <3>2
<1> QED
  BY <1>1, <1>2, PTL DEF Spec

\* Once the grace period is over in the main loop no step opens it again, and no
\* input is then taken for one of the grace period.
THEOREM GraceOverHolds == Spec => GraceOverIsFinal
<1>1. ASSUME GraceInv, [Next]_vars, phase = "main", ~graceTimer
      PROVE  ~graceTimer' /\ (unlockedBy' = "grace" => unlockedBy = "grace")
  <2> USE <1>1 DEF mainVars, graceVars
  <2>1. CASE HandleLocked \/ HandleFinished \/ ConnectionBreaks \/ Signal
    BY <2>1 DEF HandleLocked, HandleFinished, ProcessEnds, ConnectionBreaks, Signal
  <2>2. CASE DisplayIn \/ TermIn \/ AuthSucceeds \/ GraceInput
    BY <2>2 DEF DisplayIn, TermIn, AuthSucceeds, GraceInput, StopRunning
  <2>3. CASE GraceTimeout \/ LockIn \/ SleepIn \/ LoopFreeRemoved
    BY <2>3 DEF GraceTimeout, LockIn, SleepIn, LoopFreeRemoved
  <2>4. CASE LeaveLocking \/ LeaveLockingFails \/ LeaveMain
    BY <2>4 DEF LeaveLocking, LeaveLockingFails, LeaveMain, ProcessEnds
  <2>5. CASE WatcherStarts \/ WatcherFails \/ WatcherEof \/ WatcherPrepareForSleep
    BY <2>5 DEF WatcherStarts, WatcherFails, WatcherEof, WatcherPrepareForSleep, WatcherEnds
  <2>6. CASE PrepareForSleep \/ Suspend \/ Resume
    <3>1. UNCHANGED <<graceTimer, unlockedBy>>
      BY <2>6 DEF PrepareForSleep, Suspend, Resume
    <3> QED
      BY <3>1
  <2>7. CASE UNCHANGED vars
    BY <2>7 DEF vars
  <2> QED
    BY <2>1, <2>2, <2>3, <2>4, <2>5, <2>6, <2>7 DEF Next
<1>2. GraceInv /\ [Next]_vars =>
        [phase = "main" /\ ~graceTimer =>
           ~graceTimer' /\ (unlockedBy' = "grace" => unlockedBy = "grace")]_vars
  BY <1>1
<1> QED
  BY <1>2, GraceInvariant, PTL DEF Spec, GraceOverIsFinal

=============================================================================
