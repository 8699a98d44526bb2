-------------------------------- MODULE Loop --------------------------------
(***************************************************************************)
(* What loop.h promises its users: a callback is made only for a            *)
(* descriptor that is registered, under its own number, and has data, and  *)
(* only for a timer that is armed and whose time has passed, which disarms *)
(* it; one callback runs at a time; nothing removed is ever called.        *)
(* EventLoop implements this specification.                                *)
(***************************************************************************)
EXTENDS Integers

CONSTANTS
  Fds,       \* descriptor numbers
  Timers,    \* struct loop_timer addresses
  MaxDelay,  \* bound: the longest delay of a timer, in ticks
  NoCall

VARIABLES
  handlers,  \* registered descriptors
  armed,     \* armed timers, each with the ticks left until its expiry
  ready,     \* descriptors that have data
  calling    \* the callback that is running, or NoCall

vars == <<handlers, armed, ready, calling>>

\* A callback is given the descriptor it was called for.
FdCall(handler, fd) == [kind |-> "fd", of |-> handler, fd |-> fd]
TimerCall(t) == [kind |-> "timer", of |-> t]

\* Expiry is strict: at 0 ticks left the time has come, below it has passed.
Passed(left) == left < 0
Tock(left) == IF Passed(left) THEN left ELSE left - 1

AddFd(fd) ==
  /\ handlers' = handlers \cup {fd}
  /\ UNCHANGED <<armed, ready, calling>>

RemoveFd(fd) ==
  /\ handlers' = handlers \ {fd}
  /\ ready' \in {ready, ready \ {fd}}
  /\ UNCHANGED <<armed, calling>>

AddTimer(t, delay) ==
  /\ \A a \in armed : a.id # t
  /\ armed' = armed \cup {[id |-> t, left |-> delay]}
  /\ UNCHANGED <<handlers, ready, calling>>

RemoveTimer(t) ==
  /\ armed' = {a \in armed : a.id # t}
  /\ UNCHANGED <<handlers, ready, calling>>

CallFd(fd) ==
  /\ calling = NoCall
  /\ fd \in handlers \cap ready
  /\ calling' = FdCall(fd, fd)
  /\ UNCHANGED <<handlers, armed, ready>>

CallTimer(a) ==
  /\ calling = NoCall
  /\ a \in armed /\ Passed(a.left)
  /\ armed' = armed \ {a}
  /\ calling' = TimerCall(a.id)
  /\ UNCHANGED <<handlers, ready>>

\* A callback for a descriptor reads its data, or leaves some of it.
Return ==
  /\ calling # NoCall
  /\ \/ UNCHANGED ready
     \/ calling.kind = "fd" /\ ready' = ready \ {calling.fd}
  /\ calling' = NoCall
  /\ UNCHANGED <<handlers, armed>>

\* The descriptor is closed, and still registered.
Close(fd) == ready' = ready \ {fd} /\ UNCHANGED <<handlers, armed, calling>>

Arrive(fd) == ready' = ready \cup {fd} /\ UNCHANGED <<handlers, armed, calling>>

Tick ==
  /\ armed' = {[a EXCEPT !.left = Tock(a.left)] : a \in armed}
  /\ UNCHANGED <<handlers, ready, calling>>

Init ==
  /\ handlers = {} /\ armed = {} /\ ready = {}
  /\ calling = NoCall

Next ==
  \/ \E fd \in Fds : AddFd(fd) \/ RemoveFd(fd) \/ CallFd(fd) \/ Close(fd) \/ Arrive(fd)
  \/ \E t \in Timers : RemoveTimer(t) \/ \E d \in 0 .. MaxDelay : AddTimer(t, d)
  \/ \E a \in armed : CallTimer(a)
  \/ Return
  \/ Tick

Spec == Init /\ [][Next]_vars

=============================================================================
