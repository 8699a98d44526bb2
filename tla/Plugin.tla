------------------------------- MODULE Plugin -------------------------------
(***************************************************************************)
(* The wallpaper programs swaylock runs, and the nested Wayland server it  *)
(* runs for them (main.c, and the frame callbacks of forward.c): starting  *)
(* and restarting a program, its connection and redraw timeouts, outputs   *)
(* that come, change size and go, the fall back to client-less mode, and   *)
(* --pause-when-hidden.                                                    *)
(*                                                                         *)
(* One action is one callback of loop_poll, one event wl_event_loop_dispatch *)
(* handles inside dispatch_nested, or one step of the environment: the     *)
(* compositor, a program, or time.  What a program draws is reduced to "a  *)
(* buffer was committed"; an output is known from its create_surface on.   *)
(***************************************************************************)
EXTENDS Naturals, FiniteSets

CONSTANTS
  Outputs,         \* the compositor's outputs
  MaxPids,         \* bound: process groups alive at the same time
  PauseWhenHidden, \* args.pause_when_hidden
  CanFail,         \* socketpair or posix_spawn may fail
  Main,            \* the slot of the client that serves all outputs
  None

Pids  == 1..MaxPids
Slots == Outputs \cup {Main}

ASSUME PluginAssumption ==
  /\ IsFiniteSet(Outputs)
  /\ MaxPids \in Nat \ {0}
  /\ PauseWhenHidden \in BOOLEAN
  /\ CanFail \in BOOLEAN
  /\ Main \notin Outputs
  /\ None \notin Pids

VARIABLES
  perOutput,       \* args.plugin_per_output
  run,             \* "up"; "exited" by main's end, "aborted" by exit(); or how it crashed
  hiddenTimer,     \* hidden_check_timer # NULL
  display,         \* server.display # NULL
  startClientless, \* state.start_clientless_mode
  dispatching,     \* inside dispatch_nested
  clients,         \* server.clients, a record being named by its process group
  slot,            \* per client: unique_output (Main stands for NULL, and for no record)
  owner,           \* surface->client per output, server.main_client for Main
  registered,      \* clients with made_a_registry
  connecting,      \* clients whose client_connect_timer is armed
  paused,          \* clients marked paused
  procs,           \* per process group: "dead", "running", "stopped"
  surface,         \* per output, see Phases
  hasBuffer,       \* outputs with surface->has_buffer
  submission,      \* outputs whose client_submission_timer is armed
  frame,           \* per output, the frame-callback clock; see Frames
  asked,           \* outputs whose bg_frame callbacks list frame requests of a program
  lit              \* outputs the compositor is presenting

clientVars  == <<clients, slot, owner, registered, connecting, paused, procs>>
outputVars  == <<surface, hasBuffer, submission, frame, asked>>
controlVars == <<perOutput, run, hiddenTimer>>
serverVars  == <<display, startClientless, dispatching>>
vars == <<controlVars, serverVars, clientVars, outputVars, lit>>

\* frame_pending, frame_pending_since and frame_last_done against
\* hidden_timeout_ms: nothing pending and nothing presented lately, presented
\* lately, a callback outstanding for less and for more than the threshold.
Frames == {"idle", "shown", "waiting", "stale"}

\* No swaylock_surface; create_surface; first configured without and with a
\* nested server, for which nested_server_output was then created.
Phases == {"absent", "created", "configured", "advertised"}

TypeOK ==
  /\ perOutput \in BOOLEAN
  /\ run \in {"up", "exited", "aborted", "usedFreedServer", "usedNullServer"}
  /\ hiddenTimer \in BOOLEAN /\ display \in BOOLEAN
  /\ startClientless \in BOOLEAN /\ dispatching \in BOOLEAN
  /\ clients \subseteq Pids
  /\ slot \in [Pids -> Slots]
  /\ owner \in [Slots -> Pids \cup {None}]
  /\ registered \subseteq clients
  /\ connecting \subseteq clients
  /\ paused \subseteq clients
  /\ procs \in [Pids -> {"dead", "running", "stopped"}]
  /\ surface \in [Outputs -> Phases]
  /\ hasBuffer \subseteq Outputs
  /\ submission \subseteq Outputs
  /\ frame \in [Outputs -> Frames]
  /\ asked \subseteq Outputs
  /\ lit \subseteq Outputs

Surfaces == {o \in Outputs : surface[o] # "absent"}   \* state.surfaces
Configured == {o \in Outputs : surface[o] \in {"configured", "advertised"}}

-----------------------------------------------------------------------------
(* Process groups and client records *)

\* SIGCONT to the groups of P; a group that has died stays dead.
Continued(P) ==
  [p \in Pids |-> IF p \in P /\ procs[p] = "stopped" THEN "running" ELSE procs[p]]

\* set_client_paused(c, FALSE) for every c of C: kill() fails for a dead
\* group, which then stays marked.
Resumed(C) == {c \in paused \cap C : procs[c] # "dead"}

ClientForSurface(o) == IF owner[o] # None THEN owner[o] ELSE owner[Main]

\* The group the next posix_spawn creates, once the records C are gone.  A
\* group id is free again when the group is dead and no record names it.
Free(C) == {p \in Pids \ (clients \ C) : procs[p] = "dead"}

\* cleanup_client(c), the client having been resumed first.
Cleanup(c) ==
  /\ clients' = clients \ {c}
  /\ registered' = registered \ {c}
  /\ connecting' = connecting \ {c}
  /\ owner' = [owner EXCEPT ![slot[c]] = None]
  /\ slot' = [slot EXCEPT ![c] = Main]

\* run_plugin_command for slot s when it succeeds, C being the records that
\* are cleaned up just before.
Spawn(s, C) ==
  /\ Free(C) # {}
  /\ LET pid == CHOOSE p \in Free(C) : TRUE
     IN  /\ clients' = (clients \ C) \cup {pid}
         /\ connecting' = (connecting \ C) \cup {pid}
         /\ slot' = [p \in Pids |-> IF p = pid THEN s ELSE IF p \in C THEN Main ELSE slot[p]]
         /\ owner' = [owner EXCEPT ![s] = pid]
         /\ procs' = [Continued(C) EXCEPT ![pid] = "running"]
  /\ registered' = registered \ C
  /\ paused' = paused \ C

\* setup_clientless_mode: resume the remaining clients, cancel the redraw
\* timers, destroy the nested server and draw the fallback surfaces; nothing
\* when that has been done.  The cleaned-up clients C were resumed before.
\* The client records and their connect timers stay, and so do the timers T
\* when there is nothing to tear down.
Clientless(C, T) ==
  IF display
  THEN /\ display' = FALSE
       /\ paused' = (paused \ Resumed(clients)) \ C
       /\ procs' = Continued(clients)
       /\ submission' = {}
       /\ hasBuffer' = hasBuffer \cup Configured
  ELSE /\ paused' = paused \ C
       /\ procs' = Continued(C)
       /\ submission' = T
       /\ UNCHANGED <<display, hasBuffer>>

-----------------------------------------------------------------------------
(* Requests and hang-ups the nested server handles: dispatch_nested *)

Nested ==
  /\ run = "up" /\ display
  /\ dispatching' = TRUE
  /\ UNCHANGED <<controlVars, display, lit>>

\* client_resource_create: the program makes its registry
MakeRegistry(c) ==
  /\ Nested
  /\ c \in clients \ registered /\ procs[c] = "running"
  /\ registered' = registered \cup {c}
  /\ connecting' = connecting \ {c}
  /\ UNCHANGED <<startClientless, clients, slot, owner, paused, procs, outputVars>>

\* nested_surface_commit of a buffer that fits output o, with or without a
\* frame request: the surface has content, the redraw timer is disarmed, and
\* the first outstanding frame callback starts the clock.
Draw(c, o, wantsFrame) ==
  /\ Nested
  /\ c \in registered /\ procs[c] = "running"
  /\ o \in Configured /\ ClientForSurface(o) = c
  /\ hasBuffer' = hasBuffer \cup {o}
  /\ submission' = submission \ {o}
  /\ frame' = IF wantsFrame /\ frame[o] \notin {"waiting", "stale"}
              THEN [frame EXCEPT ![o] = "waiting"] ELSE frame
  /\ asked' = IF wantsFrame THEN asked \cup {o} ELSE asked
  /\ UNCHANGED <<startClientless, clientVars, surface>>

\* wl_client_destroy takes the frame requests of c off the lists.
Unasked(c) == asked \ {o \in Outputs : ClientForSurface(o) = c}

\* Mutant of ClientDestroyed: a program that made no registry is cleaned up,
\* but client-less mode is not requested.
ClientDestroyedQuietly(c) ==
  /\ \/ c \in registered /\ Spawn(slot[c], {c})
     \/ /\ c \notin registered \/ CanFail
        /\ Cleanup(c)
        /\ paused' = paused \ {c}
        /\ procs' = Continued({c})
  /\ asked' = Unasked(c)
  /\ UNCHANGED <<startClientless, surface, hasBuffer, submission, frame>>

\* client_destroyed(c): clean up and run the command again, unless it never
\* made a registry or cannot be run; client-less mode is then only requested.
ClientDestroyed(c) ==
  /\ \/ /\ c \in registered
        /\ Spawn(slot[c], {c})
        /\ UNCHANGED startClientless
     \/ /\ c \notin registered \/ CanFail
        /\ Cleanup(c)
        /\ paused' = paused \ {c}
        /\ procs' = Continued({c})
        /\ startClientless' = TRUE
  /\ asked' = Unasked(c)
  /\ UNCHANGED <<surface, hasBuffer, submission, frame>>

\* The dispatch sees that the connection of c is closed: its processes died,
\* or one of them closed it and the group runs on.
HangUp(c) ==
  /\ Nested
  /\ c \in clients /\ procs[c] # "stopped"
  /\ ClientDestroyed(c)

\* dispatch_nested after wl_event_loop_dispatch
EndDispatch ==
  /\ dispatching
  /\ dispatching' = FALSE
  /\ IF startClientless
     THEN Clientless({}, submission)
     ELSE UNCHANGED <<display, paused, procs, submission, hasBuffer>>
  /\ UNCHANGED <<controlVars, startClientless, clients, slot, owner, registered,
                 connecting, surface, frame, asked, lit>>

NestedDispatch ==
  \/ \E c \in Pids : MakeRegistry(c) \/ HangUp(c)
  \/ \E c \in Pids, o \in Outputs, w \in BOOLEAN : Draw(c, o, w)
  \/ EndDispatch

-----------------------------------------------------------------------------
(* The main loop: flush, timers, upstream events *)

Looping == run = "up" /\ ~dispatching

\* wl_display_flush_clients: a write to a closed connection destroys the
\* client, outside of dispatch_nested.  There is something to write only to a
\* client that has made an object.
FlushFails(c) ==
  /\ Looping /\ display
  /\ c \in registered /\ procs[c] # "stopped"
  /\ ClientDestroyed(c)
  /\ UNCHANGED <<controlVars, display, dispatching, lit>>

\* Mutant of ClientTimeout: the fall back comes first, so that there is no server
\* any more when the client is to be destroyed.
ClientTimeoutTooLate(c, T) ==
  /\ Cleanup(c)
  /\ UNCHANGED asked
  /\ Clientless({c}, T)

\* client_timeout(c): destroy the client without restart, and only as long as
\* the nested server exists; fall back.
ClientTimeout(c, T) ==
  /\ Cleanup(c)
  /\ asked' = IF display THEN Unasked(c) ELSE asked
  /\ Clientless({c}, T)

ConnectTimeout(c) ==
  /\ Looping
  /\ c \in connecting
  /\ ClientTimeout(c, submission)
  /\ UNCHANGED <<controlVars, startClientless, dispatching, surface, frame, lit>>

\* Mutant of RedrawTimeout: the client of all outputs is forgotten.
RedrawTimeoutOwnOnly(o) ==
  /\ Looping
  /\ o \in submission
  /\ IF owner[o] = None
     THEN /\ submission' = submission \ {o}
          /\ UNCHANGED <<display, clientVars, hasBuffer, asked>>
     ELSE ClientTimeout(owner[o], submission \ {o})
  /\ UNCHANGED <<controlVars, startClientless, dispatching, surface, frame, lit>>

\* output_redraw_timeout
RedrawTimeout(o) ==
  /\ Looping
  /\ o \in submission
  /\ IF ClientForSurface(o) = None
     THEN /\ submission' = submission \ {o}
          /\ UNCHANGED <<display, clientVars, hasBuffer, asked>>
     ELSE ClientTimeout(ClientForSurface(o), submission \ {o})
  /\ UNCHANGED <<controlVars, startClientless, dispatching, surface, frame, lit>>

\* client_is_hidden
Hidden(c) ==
  LET its == {o \in Surfaces : ClientForSurface(o) = c}
  IN  /\ \E o \in its : frame[o] = "stale"
      /\ \A o \in its : frame[o] \notin {"waiting", "shown"}

\* Mutant of HiddenCheck: it stops clients and leaves continuing them to
\* bg_frame_handle_done.
HiddenCheckOnlyStops ==
  /\ Looping /\ hiddenTimer
  /\ LET stop == {c \in clients \ paused : Hidden(c) /\ procs[c] # "dead"}
     IN  /\ paused' = paused \cup stop
         /\ procs' = [p \in Pids |-> IF p \in stop THEN "stopped" ELSE procs[p]]
  /\ UNCHANGED <<controlVars, serverVars, clients, slot, owner, registered, connecting,
                 outputVars, lit>>

\* hidden_check_timeout, which re-arms itself
HiddenCheck ==
  /\ Looping /\ hiddenTimer
  /\ LET stop == {c \in clients \ paused : Hidden(c) /\ procs[c] # "dead"}
         cont == {c \in Resumed(clients) : ~Hidden(c)}
     IN  /\ paused' = (paused \cup stop) \ cont
         /\ procs' = [p \in Pids |-> IF p \in stop THEN "stopped" ELSE Continued(cont)[p]]
  /\ UNCHANGED <<controlVars, serverVars, clients, slot, owner, registered, connecting,
                 outputVars, lit>>

\* bg_frame_handle_done: the compositor presents o.  The frame requests of the
\* program are answered and their resources destroyed.
FrameDone(o) ==
  /\ Looping
  /\ o \in lit \cap Surfaces /\ frame[o] \in {"waiting", "stale"}
  /\ asked' = asked \ {o}
  /\ run' = IF ~display /\ o \in asked THEN "usedFreedServer" ELSE run
  /\ frame' = [frame EXCEPT ![o] = "shown"]
  /\ paused' = paused \ Resumed({ClientForSurface(o)})
  /\ procs' = Continued({ClientForSurface(o)})
  /\ UNCHANGED <<perOutput, hiddenTimer, serverVars, clients, slot, owner, registered, connecting,
                 surface, hasBuffer, submission, lit>>

\* handle_wl_output_done, init_surface_if_ready, create_surface
CreateSurface(o) ==
  /\ Looping
  /\ surface[o] = "absent"
  /\ surface' = [surface EXCEPT ![o] = "created"]
  /\ \/ /\ ~perOutput
        /\ submission' = submission \cup {o}
        /\ UNCHANGED <<run, display, clientVars, hasBuffer>>
     \/ /\ perOutput /\ display
        /\ Spawn(o, {})
        /\ submission' = submission \cup {o}
        /\ UNCHANGED <<run, display, hasBuffer>>
     \/ /\ perOutput /\ CanFail
        /\ Clientless({}, submission \cup {o})
        /\ UNCHANGED <<run, clients, slot, owner, registered, connecting>>
     \/ /\ perOutput /\ ~display       \* wl_client_create(NULL, ...)
        /\ run' = "usedNullServer"
        /\ UNCHANGED <<display, clientVars, hasBuffer, submission>>
  /\ UNCHANGED <<perOutput, hiddenTimer, startClientless, dispatching, frame, asked, lit>>

\* Mutant of DestroySurface: the client of the output is left alone.
DestroySurfaceOnly(o) ==
  /\ Looping
  /\ o \in Surfaces
  /\ surface' = [surface EXCEPT ![o] = "absent"]
  /\ frame' = [frame EXCEPT ![o] = "idle"]
  /\ hasBuffer' = hasBuffer \ {o}
  /\ submission' = submission \ {o} /\ asked' = asked \ {o}
  /\ UNCHANGED <<controlVars, serverVars, clientVars, lit>>

\* handle_global_remove, destroy_surface
DestroySurface(o) ==
  /\ Looping
  /\ o \in Surfaces
  /\ surface' = [surface EXCEPT ![o] = "absent"]
  /\ frame' = [frame EXCEPT ![o] = "idle"]
  /\ hasBuffer' = hasBuffer \ {o}
  /\ submission' = submission \ {o} /\ asked' = asked \ {o}
  /\ \/ /\ owner[o] = None
        /\ UNCHANGED clientVars
     \/ /\ owner[o] # None
        /\ Cleanup(owner[o])
        /\ paused' = paused \ {owner[o]}
        /\ procs' = Continued({owner[o]})
  \* wl_client_destroy, wl_global_remove
  /\ run' = IF ~display /\ (owner[o] # None \/ surface[o] = "advertised")
            THEN "usedFreedServer" ELSE run
  /\ UNCHANGED <<perOutput, hiddenTimer, serverVars, lit>>

\* The phase after a configure: the first one advertises the output to the
\* programs, if there is a nested server (forward_configure).
Sized(o) == IF surface[o] # "created" THEN surface[o]
            ELSE IF display THEN "advertised" ELSE "configured"

\* Mutant of Configure: no fallback surface for a configure in client-less mode.
ConfigureWithoutFallback(o) ==
  /\ Looping
  /\ o \in Surfaces
  /\ surface' = [surface EXCEPT ![o] = Sized(o)]
  /\ submission' = IF o \in Configured THEN submission \cup {o} ELSE submission
  /\ UNCHANGED <<controlVars, serverVars, clientVars, hasBuffer, frame, asked, lit>>

\* ext_session_lock_surface_v1_handle_configure with a new size
Configure(o) ==
  /\ Looping
  /\ o \in Surfaces
  /\ surface' = [surface EXCEPT ![o] = Sized(o)]
  /\ hasBuffer' = IF display THEN hasBuffer ELSE hasBuffer \cup {o}
  /\ submission' = IF o \in Configured THEN submission \cup {o} ELSE submission
  /\ UNCHANGED <<controlVars, serverVars, clientVars, frame, asked, lit>>

\* The session is locked, the first loop ends: arm_hidden_check
ArmHiddenCheck ==
  /\ Looping /\ PauseWhenHidden /\ ~hiddenTimer
  /\ hiddenTimer' = TRUE
  /\ UNCHANGED <<perOutput, run, serverVars, clientVars, outputVars, lit>>

\* swaylock's process ends: its memory and connections are gone, the process
\* groups it started are not.
ProcessEnds ==
  /\ clients' = {} /\ registered' = {} /\ connecting' = {} /\ paused' = {}
  /\ slot' = [p \in Pids |-> Main] /\ owner' = [s \in Slots |-> None]
  /\ surface' = [o \in Outputs |-> "absent"] /\ frame' = [o \in Outputs |-> "idle"]
  /\ hasBuffer' = {} /\ submission' = {} /\ asked' = {}
  /\ display' = FALSE /\ startClientless' = FALSE /\ hiddenTimer' = FALSE
  /\ UNCHANGED <<perOutput, dispatching, lit>>

\* Mutant of Exit: resume_all_clients is forgotten.
ExitWithoutResume ==
  /\ Looping
  /\ run' = "exited"
  /\ UNCHANGED procs
  /\ ProcessEnds

\* main after its second loop: resume_all_clients, unlock
Exit ==
  /\ Looping
  /\ run' = "exited"
  /\ procs' = Continued(clients)
  /\ ProcessEnds

\* comm_in when the password checker has died: exit(EXIT_FAILURE)
Abort ==
  /\ Looping
  /\ run' = "aborted"
  /\ UNCHANGED procs
  /\ ProcessEnds

-----------------------------------------------------------------------------
(* The programs, the compositor and time (external) *)

ProcessDies(p) ==
  /\ run = "up" /\ procs[p] # "dead"
  /\ procs' = [procs EXCEPT ![p] = "dead"]
  /\ UNCHANGED <<controlVars, serverVars, clients, slot, owner, registered, connecting,
                 paused, outputVars, lit>>

Present(o) ==
  /\ run = "up"
  /\ lit' = IF o \in lit THEN lit \ {o} ELSE lit \cup {o}
  /\ UNCHANGED <<controlVars, serverVars, clientVars, outputVars>>

\* hidden_timeout_ms has passed since the callback was requested, or since the
\* last one was done
Elapse(o) ==
  /\ run = "up" /\ frame[o] \in {"waiting", "shown"}
  /\ frame' = [frame EXCEPT ![o] = IF frame[o] = "waiting" THEN "stale" ELSE "idle"]
  /\ UNCHANGED <<controlVars, serverVars, clientVars, surface, hasBuffer, submission, asked, lit>>

Environment ==
  \/ \E p \in Pids : ProcessDies(p)
  \/ \E o \in Outputs : Present(o) \/ Elapse(o)

MainLoop ==
  \/ \E c \in Pids : FlushFails(c) \/ ConnectTimeout(c)
  \/ \E o \in Outputs : \/ RedrawTimeout(o) \/ FrameDone(o)
                        \/ CreateSurface(o) \/ DestroySurface(o) \/ Configure(o)
  \/ HiddenCheck \/ ArmHiddenCheck \/ Exit \/ Abort

\* main before the first loop: with --command the program is started, or
\* client-less mode entered when it cannot be.
Init ==
  /\ perOutput \in BOOLEAN
  /\ run = "up" /\ hiddenTimer = FALSE
  /\ startClientless = FALSE /\ dispatching = FALSE
  /\ display \in (IF CanFail /\ ~perOutput THEN BOOLEAN ELSE {TRUE})
  /\ clients = IF perOutput \/ ~display THEN {} ELSE {1}
  /\ slot = [p \in Pids |-> Main]
  /\ owner = [s \in Slots |-> IF s = Main /\ clients # {} THEN 1 ELSE None]
  /\ registered = {} /\ connecting = clients /\ paused = {}
  /\ procs = [p \in Pids |-> IF p \in clients THEN "running" ELSE "dead"]
  /\ surface = [o \in Outputs |-> "absent"]
  /\ hasBuffer = {} /\ submission = {} /\ asked = {} /\ lit = Outputs
  /\ frame = [o \in Outputs |-> "idle"]

Next == NestedDispatch \/ MainLoop \/ Environment

Spec == Init /\ [][Next]_vars

-----------------------------------------------------------------------------
(* Fairness.  wl_event_loop_dispatch handles a bounded number of events, and *)
(* every later loop_poll looks at every expired timer and every readable    *)
(* descriptor, however busy the nested server is.  The compositor completes *)
(* the frame callbacks of an output it presents.                            *)

Fairness ==
  /\ WF_vars(EndDispatch)
  /\ SF_vars(HiddenCheck) /\ WF_vars(ArmHiddenCheck)
  /\ \A o \in Outputs : SF_vars(RedrawTimeout(o)) /\ SF_vars(FrameDone(o))

FairSpec == Spec /\ Fairness

-----------------------------------------------------------------------------
(* Safety *)

\* surface->client / main_client and unique_output point at each other, no
\* record or redraw timer outlives the surface it points to, and a connect
\* timer belongs to a client without a registry: what the assertions of
\* cleanup_client and run_plugin_command rely on.
OwnersAgree ==
  /\ \A c \in clients : owner[slot[c]] = c
  /\ \A s \in Slots : owner[s] # None => owner[s] \in clients /\ slot[owner[s]] = s
  /\ \A c \in clients : slot[c] \in Surfaces \cup {Main}
  /\ submission \subseteq Surfaces
  /\ connecting \cap registered = {}

\* Records, owners and timers of programs agree, with the types.
OwnersInv == TypeOK /\ OwnersAgree

\* A process group that --pause-when-hidden stopped always has a record marked
\* paused, through restart, timeout, unplugging and the fall back, so that
\* somebody can continue it; and main's regular end leaves none stopped.
StoppedIsKnown ==
  LET stopped == {p \in Pids : procs[p] = "stopped"}
  IN  /\ run \notin {"exited", "aborted"} => stopped \subseteq paused
      /\ run = "exited" => stopped = {}

\* As long as programs are relied on, every output has one, every output
\* without content has its redraw timer armed and every program that has not
\* connected its connect timer: no path through restarts and hot-plugging
\* leaves an output blank with nobody watching the clock.
BlankIsWatched ==
  run = "up" /\ display /\ ~startClientless =>
    /\ \A o \in Surfaces : ClientForSurface(o) # None
    /\ Surfaces \ hasBuffer \subseteq submission
    /\ clients \ registered \subseteq connecting

\* In client-less mode every output that has a size has content, also the ones
\* that appear or change later (render_fallback_surface).
ClientlessDraws == run = "up" /\ ~display => Configured \subseteq hasBuffer

\* The fall back frees the nested server without destroying its clients first,
\* and what is left of one would meet the freed server: its connect timer, its
\* frame requests when the compositor presents, its record.  With one program for
\* all outputs nothing of it is left: whoever decides on the fall back, a timeout,
\* a hang-up or a failed restart, has destroyed the client before.  With
\* --plugin-per-output the programs of other outputs are left.
LoneProgramGone ==
  ~perOutput /\ run = "up" /\ (~display \/ startClientless) => clients = {} /\ asked = {}

-----------------------------------------------------------------------------
(* Liveness *)

\* Every output that has been given a size is drawn, by its program or by the
\* fall back, whatever the programs do: hang, crash, or restart for ever.
EveryOutputDrawn ==
  \A o \in Outputs : (o \in Configured) ~> (o \in hasBuffer \/ o \notin Configured \/ run # "up")

\* A program is not left stopped while the compositor presents all its
\* outputs: the frame callback or the next hidden check continues it.
VisibleProgramRuns ==
  \A c \in Pids :
    (c \in paused) ~> \/ c \notin paused \/ procs[c] = "dead" \/ run # "up"
                     \/ \E o \in Surfaces \ lit : ClientForSurface(o) = c

=============================================================================
