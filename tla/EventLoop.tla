------------------------------ MODULE EventLoop ------------------------------
(***************************************************************************)
(* loop.c: descriptors in an array for poll() with a parallel list of      *)
(* callbacks, and a list of timers.  Callbacks add and remove both while   *)
(* loop_poll walks the lists, so removal only marks an entry; marked       *)
(* descriptors are freed, and the array closed up, after all descriptors   *)
(* have been dispatched, marked timers in the next walk over the timers.   *)
(*                                                                         *)
(* Callers are taken to add a descriptor only when its number is in no     *)
(* entry, marked ones included: loop_remove_fd finds the first entry of a  *)
(* number.  A list entry is named by the number it was added for.          *)
(***************************************************************************)
EXTENDS Integers, Sequences, SequencesExt

CONSTANTS
  Fds,       \* descriptor numbers
  Timers,    \* struct loop_timer addresses, free again once freed
  MaxDelay,  \* bound: the longest delay of a timer, in ticks
  CapStep,   \* initial size and growth of the pollfd array, 10 in loop.c
  NoCall

ASSUME EventLoopAssumption ==
  /\ MaxDelay \in Nat
  /\ CapStep \in Nat \ {0}
  /\ NoCall \notin [kind : {"fd"}, of : Fds, fd : Fds] \cup [kind : {"timer"}, of : Timers]

VARIABLES
  phase,     \* "idle" between calls of loop_poll; "blocked" in poll(); "fds", "timers"
  fds,       \* loop->fds up to fd_length: number and revents
  capacity,  \* loop->fd_capacity
  events,    \* loop->fd_events: the number it was added for, removed
  timers,    \* loop->timers: address, ticks left until expiry, removed
  next,      \* fd_index of the descriptor to dispatch next
  sweep,     \* the timers the walk over loop->timers has still to visit
  wait,      \* ticks left of poll's timeout, Forever without a timer
  ready,     \* descriptors that have data (or a hang-up)
  closed,    \* descriptors that were closed and are still in the array
  calling    \* the callback that is running, or NoCall

loopVars == <<phase, next, sweep, wait>>
fdVars   == <<fds, capacity, events>>
vars == <<loopVars, fdVars, timers, ready, closed, calling>>

Forever == MaxDelay + 1      \* INT_MAX: poll is not bounded by a timer

FdCall(handler, fd) == [kind |-> "fd", of |-> handler, fd |-> fd]
TimerCall(t) == [kind |-> "timer", of |-> t]

Listed(fd) == \E i \in DOMAIN fds : fds[i].fd = fd
Handlers == {events[i].fd : i \in {j \in DOMAIN events : ~events[j].removed}}
TimerIds(list) == {list[i].id : i \in DOMAIN list}

\* The timers that may still run; the one whose callback is running is spent.
Armed ==
  {[id |-> timers[i].id, left |-> timers[i].left] :
     i \in {j \in DOMAIN timers : ~timers[j].removed /\ calling # TimerCall(timers[j].id)}}

TypeOK ==
  /\ phase \in {"idle", "blocked", "fds", "timers"}
  /\ fds \in Seq([fd : Fds, revents : {"none", "data", "nval"}])
  /\ events \in Seq([fd : Fds, removed : BOOLEAN])
  /\ timers \in Seq([id : Timers, left : -1 .. MaxDelay, removed : BOOLEAN])
  /\ capacity \in Nat
  /\ next \in Nat
  /\ sweep \in Seq(Timers)
  /\ wait \in 0 .. Forever
  /\ ready \subseteq Fds /\ closed \subseteq Fds
  /\ calling \in {NoCall} \cup [kind : {"fd"}, of : Fds, fd : Fds]
                          \cup [kind : {"timer"}, of : Timers]

-----------------------------------------------------------------------------
(* The users of the loop: main between two calls, and callbacks.            *)

Using == phase = "idle" \/ calling # NoCall

\* The capacity after one more entry.
Grown == IF Len(fds) = capacity THEN capacity + CapStep ELSE capacity

\* loop_add_fd
AddFd(fd) ==
  /\ Using /\ ~Listed(fd)
  /\ events' = Append(events, [fd |-> fd, removed |-> FALSE])
  /\ fds' = Append(fds, [fd |-> fd, revents |-> "none"])
  /\ capacity' = Grown
  /\ UNCHANGED <<loopVars, timers, ready, closed, calling>>

\* loop_remove_fd; the caller may close the descriptor with it.
RemoveFd(fd) ==
  /\ Using /\ fd \in Handlers
  /\ LET i == CHOOSE i \in DOMAIN fds : fds[i].fd = fd
     IN  events' = [events EXCEPT ![i] = [fd |-> fd, removed |-> TRUE]]
  /\ \/ UNCHANGED <<ready, closed>>
     \/ ready' = ready \ {fd} /\ closed' = closed \cup {fd}
  /\ UNCHANGED <<loopVars, fds, capacity, timers, calling>>

\* A callback closes its descriptor and does not remove it, as sleep_in does.
CloseFd(fd) ==
  /\ calling = FdCall(fd, fd) /\ fd \in Handlers \ closed
  /\ closed' = closed \cup {fd} /\ ready' = ready \ {fd}
  /\ UNCHANGED <<loopVars, fdVars, timers, calling>>

\* loop_add_timer inserts at the head
AddTimer(t, delay) ==
  /\ Using /\ t \notin TimerIds(timers)
  /\ timers' = <<[id |-> t, left |-> delay, removed |-> FALSE]>> \o timers
  /\ UNCHANGED <<loopVars, fdVars, ready, closed, calling>>

\* Where a timer is in the list.
Place(t) == CHOOSE i \in DOMAIN timers : timers[i].id = t

\* The list once a timer has been freed.
Without(t) == RemoveAt(timers, Place(t))

\* The list once a timer has been marked.  Mutant: Without, which frees it.
Marked(t) ==
  [i \in DOMAIN timers |->
     IF timers[i].id = t THEN [id |-> t, left |-> timers[i].left, removed |-> TRUE]
     ELSE timers[i]]

\* loop_remove_timer, of a timer its caller knows to be in the list
RemoveTimer(t) ==
  /\ Using /\ t \in {a.id : a \in Armed}
  /\ timers' = Marked(t)
  /\ UNCHANGED <<loopVars, fdVars, ready, closed, calling>>

-----------------------------------------------------------------------------
(* loop_poll *)

\* The shortest of all timers, removed ones included.
Shortest ==
  LET left == {timers[i].left : i \in DOMAIN timers}
  IN  CHOOSE m \in left \cup {Forever} : \A n \in left : m <= n

\* A mutant: a negative timeout, which poll() takes for none.
PollTimeoutUnclamped == IF Shortest < 0 THEN Forever ELSE Shortest

PollTimeout == IF Shortest < 0 THEN 0 ELSE Shortest

BeginPoll ==
  /\ phase = "idle"
  /\ phase' = "blocked"
  /\ wait' = PollTimeout
  /\ UNCHANGED <<next, sweep, fdVars, timers, ready, closed, calling>>

Revents(fd) == IF fd \in closed THEN "nval" ELSE IF fd \in ready THEN "data" ELSE "none"

\* poll() returns: on events, after the timeout, or because of a signal, when
\* no descriptor has an event.  The array is written in each case (external:
\* Linux does so also for EINTR).
PollReturns ==
  /\ phase = "blocked"
  /\ phase' = "fds" /\ next' = 1 /\ wait' = Forever
  /\ fds' = [i \in DOMAIN fds |-> [fds[i] EXCEPT !.revents = Revents(fds[i].fd)]]
  /\ UNCHANGED <<sweep, capacity, events, timers, ready, closed, calling>>

PollInterrupted ==
  /\ \A i \in DOMAIN fds : Revents(fds[i].fd) = "none"
  /\ PollReturns

PollCompletes ==
  /\ wait = 0 \/ \E i \in DOMAIN fds : Revents(fds[i].fd) # "none"
  /\ PollReturns

\* A mutant: the mark of a removed entry is not looked at.
DueRemoved(i) == fds[i].revents = "data"

\* Removed entries and POLLNVAL are passed over.
Due(i) == ~events[i].removed /\ fds[i].revents = "data"

\* "Dispatch fds", one entry
DispatchFd ==
  /\ phase = "fds" /\ calling = NoCall
  /\ next <= Len(events)
  /\ next' = next + 1
  /\ calling' = IF Due(next) THEN FdCall(events[next].fd, fds[next].fd) ELSE NoCall
  /\ UNCHANGED <<phase, sweep, wait, fdVars, timers, ready, closed>>

\* "Free removed fd events": each memmove closes the gap at the same index, so
\* that the k-th entry left is the k-th one that was not removed.
CompactFds ==
  LET left == {i \in DOMAIN events : ~events[i].removed}
  IN  \E n \in 0 .. Len(events) : \E kept \in [1 .. n -> left] :
        /\ left = Range(kept) /\ \A k, l \in 1 .. n : k < l => kept[k] < kept[l]
        /\ events' = [k \in 1 .. n |-> events[kept[k]]]
        /\ fds' = [k \in 1 .. n |-> fds[kept[k]]]

FreeRemovedFds ==
  /\ phase = "fds" /\ calling = NoCall
  /\ next > Len(events)
  /\ phase' = "timers" /\ next' = 1
  /\ CompactFds
  /\ closed' = closed \cap Handlers
  /\ sweep' = [i \in DOMAIN timers |-> timers[i].id]
  /\ UNCHANGED <<wait, capacity, timers, ready, calling>>

TimerOf(t) == timers[Place(t)]

\* "Dispatch timers", one timer: a removed one is freed, an expired one called.
\* It stays in the list, unmarked, while its callback runs.
VisitTimer ==
  /\ phase = "timers" /\ calling = NoCall /\ sweep # <<>>
  /\ sweep' = Tail(sweep)
  /\ LET t == TimerOf(Head(sweep))
     IN  /\ timers' = IF t.removed THEN Without(t.id) ELSE timers
         /\ calling' = IF ~t.removed /\ t.left < 0 THEN TimerCall(t.id) ELSE NoCall
  /\ UNCHANGED <<phase, next, wait, fdVars, ready, closed>>

EndPoll ==
  /\ phase = "timers" /\ calling = NoCall /\ sweep = <<>>
  /\ phase' = "idle"
  /\ UNCHANGED <<next, sweep, wait, fdVars, timers, ready, closed, calling>>

\* A callback returns; the one of a descriptor may have read its data, a
\* timer is freed.
Return ==
  /\ calling # NoCall
  /\ calling' = NoCall
  /\ timers' = IF calling.kind = "timer" THEN Without(calling.of) ELSE timers
  /\ \/ UNCHANGED ready
     \/ calling.kind = "fd" /\ ready' = ready \ {calling.fd}
  /\ UNCHANGED <<loopVars, fdVars, closed>>

-----------------------------------------------------------------------------
(* Data and time (external) *)

Arrive(fd) ==
  /\ fd \in Handlers \ (closed \cup ready)
  /\ ready' = ready \cup {fd}
  /\ UNCHANGED <<loopVars, fdVars, timers, closed, calling>>

Tick ==
  /\ timers' = [i \in DOMAIN timers |->
       [timers[i] EXCEPT !.left = IF @ < 0 THEN @ ELSE @ - 1]]
  /\ wait' = IF wait \in {0, Forever} THEN wait ELSE wait - 1
  /\ UNCHANGED <<phase, next, sweep, fdVars, ready, closed, calling>>

-----------------------------------------------------------------------------
Init ==
  /\ phase = "idle" /\ next = 1 /\ sweep = <<>> /\ wait = Forever
  /\ fds = <<>> /\ capacity = CapStep /\ events = <<>> /\ timers = <<>>
  /\ ready = {} /\ closed = {} /\ calling = NoCall

LoopPoll ==
  \/ BeginPoll \/ PollCompletes \/ PollInterrupted
  \/ DispatchFd \/ FreeRemovedFds \/ VisitTimer \/ EndPoll
  \/ Return

Users ==
  \/ \E fd \in Fds : AddFd(fd) \/ RemoveFd(fd) \/ CloseFd(fd)
  \/ \E t \in Timers : RemoveTimer(t) \/ \E d \in 0 .. MaxDelay : AddTimer(t, d)

Next == LoopPoll \/ Users \/ Tick \/ \E fd \in Fds : Arrive(fd)

Spec == Init /\ [][Next]_vars

(* main calls loop_poll again and again, callbacks return, poll() returns   *)
(* when it has a reason to (a signal is none), and time passes.             *)
Fairness ==
  /\ WF_vars(BeginPoll \/ PollCompletes \/ DispatchFd \/ FreeRemovedFds
             \/ VisitTimer \/ EndPoll \/ Return)
  /\ WF_vars(Tick)

FairSpec == Spec /\ Fairness

-----------------------------------------------------------------------------
\* The pollfd array and the list of callbacks describe the same descriptors in
\* the same order, through additions in mid-walk and closing up, each number
\* once, and the array is never written past its capacity.
ArraysAligned ==
  /\ TypeOK
  /\ Len(fds) = Len(events) /\ Len(fds) <= capacity
  /\ \A i \in DOMAIN fds : fds[i].fd = events[i].fd
  /\ \A i, j \in DOMAIN fds : fds[i].fd = fds[j].fd => i = j

\* Every timer the walk has still to visit is allocated, however callbacks add
\* and remove timers meanwhile, and so is the one whose callback is running:
\* nothing is freed twice or used after it was freed.
WalkIsSafe ==
  /\ Range(sweep) \subseteq TimerIds(timers)
  /\ calling # NoCall /\ calling.kind = "timer" =>
       calling.of \in TimerIds(timers) \ Range(sweep)
  /\ IsInjective(sweep)

\* The two arrays and the two lists stay consistent through every walk.
LoopInv == ArraysAligned /\ WalkIsSafe

AbstractLoop == INSTANCE Loop WITH handlers <- Handlers, armed <- Armed

\* loop_poll keeps the promise of loop.h (Loop): only registered descriptors
\* that have data and armed timers that have expired are called, by their own
\* callback, and a timer once, whatever callbacks add, remove and close.
KeepsPromise == AbstractLoop!Spec

\* A registered descriptor with data is served or removed, and an armed timer
\* runs or is removed, however busy other descriptors and timers are: the
\* promise that everything in the locker that waits is woken.
EverythingServed ==
  /\ \A fd \in Fds :
       (fd \in Handlers \cap ready) ~>
         (fd \notin Handlers \cap ready \/ calling = FdCall(fd, fd))
  /\ \A t \in Timers :
       (t \in {a.id : a \in Armed}) ~> (t \notin {a.id : a \in Armed})

=============================================================================
