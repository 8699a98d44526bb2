# swaylock-plugin in TLA+

swaylock-plugin is a Wayland screen locker. It locks the session through
ext-session-lock, draws a password indicator, and lets an ordinary wallpaper
program draw the background: the program talks to a Wayland server inside the
locker, and the locker forwards what it draws to the compositor. This directory
holds TLA+ models of the locker, the TLC configurations that check them on
small instances, and proofs checked by TLAPS. `PROJECT.json` maps every
definition to the source lines it stands for and lists runs, mutants, findings,
hazards and theorems.

    tlc -workers 2 -config MCAuth.cfg MCAuth      # a run
    tlapm AuthProofs.tla                          # the proofs of a part

## The system

| part (source) | state | operations | interacts with |
|---|---|---|---|
| password entry (`password.c`) | buffer, length, input and auth state, three timers, highlight | `swaylock_handle_key`, timer callbacks | writes requests to the checker; asks for redraws |
| checker (`comm.c`, `pam.c`, `shadow.c`) | two pipes, a forked process | read request, check, write reply, exit | `comm_in` in the main loop |
| indicator (`render.c`, `pool-buffer.c`) | `dirty`, frame callback, two buffers | `damage_state`, `render`, frame done | commits the lock surface |
| session (`main.c`) | `run_display`, `locked`, signal pipes, grace timer | two loops, `term_in`, `lock_in`, `sleep_in`, `grace_timeout` | compositor, watcher, seat |
| sleep watcher (`sleep-watcher.c`) | delay lock, two pipes | PrepareForSleep, hang-up | logind, session |
| wallpaper programs (`main.c`) | client records, process groups, connect and redraw timers, pause marks | spawn, restart, time out, pause, client-less mode | nested server, outputs |
| lock and layer surface (`main.c`, `forward.c`) | serial table, pending acknowledgement, sizes | configure, ack, commit, fallback | compositor and program |
| buffers, pools, subsurfaces, image descriptions (`forward.c`, `forward-client.c`) | intrusive lists, reference counts, caches | protocol requests and destructors | program and compositor |
| seat (`seat.c`) | keyboard, keymap, repeat timer, pointer record | keyboard and pointer events | password entry, session |
| outputs (`main.c`) | `swaylock_surface` objects and the resources and callbacks that point to them | `handle_global`, create, destroy, bind, frame done | compositor, programs |
| event loop (`loop.c`) | poll set, timers, removed marks | `loop_poll`, add, remove | everything |

The locker is single threaded: each callback of `loop_poll` runs to its end. The
hard behaviour comes from the order of callbacks, from the processes beside the
locker (checker, watcher, wallpaper programs, which may be stopped or killed at
any time), from the two protocols it stands between, and from plain C pointers
between objects whose life the program decides. What makes each part correct:

* password entry: characters never stay unattended; every transient state ends;
  requests are framed; only an accepted password unlocks;
* session: the grace period ends once, completely, whatever ends it, and the
  machine does not sleep with it open;
* programs: whatever a program does, every output shows something in bounded
  time, and no program stays stopped for no reason;
* lock surface: the compositor never gets a buffer of a size that was not
  configured and acknowledged, as that error would leave a locked session
  without a locker;
* outputs: nothing reaches an output that is gone, and a program knows the scale
  of its output whatever came first;
* event loop: what is registered is called, what is removed is not, and nothing
  starves;
* forwarded objects: nothing is used after it is freed, and nothing leaks;
* seat: no key is typed that nobody holds, and no jitter ends the lock.

## The modules

In each module a callback or request handler is one action, named after the C
function; its guard is the conditions and early returns of the handler. The
environment (compositor, program, user, clock, logind) is written as separate
actions. Data is reduced to what the properties tell apart. Definitions whose
comment calls them a mutant are deliberately wrong variants of a handler; the
properties have to fail when such a variant is put in its place.

**Loop** and **EventLoop** - `Loop` is the abstract specification of `loop.h`: a set
of registered descriptors, a set of armed timers, and calls that only ever go to
a registered descriptor that has data or to an armed timer that has expired.
`EventLoop` is `loop.c`: the growing `pollfd` array beside the list of descriptor
records, the timer list with its removed marks, the computed timeout, `poll`
(which a signal may interrupt), the walk that skips what callbacks have removed,
the closing up of the array, and the walk over the timers, with callbacks that
add, remove and close in mid-walk. `KeepsPromise` is the refinement
`EventLoop => Loop`, with `handlers` and `armed` read off the records that are not
marked. The other modules use the loop the way `Loop` describes it.

**Auth** - password entry, checker and indicator. The buffer is a sequence of
characters with the offset at which each ends, so that `backspace` and the
bounds check act on bytes (`ChSize` is the UTF-8 length). A timer table has for
each of the three timers the fields that are set and the timers alive in the
loop. `request` and `reply` are the pipes, `backend` and `checking` the process.
What the indicator last drew is kept in `shown`. `sigpipe` is the inherited
disposition of SIGPIPE. `RenderFrame` is
`render_frame()` with `get_next_buffer`: when the compositor still has both buffers
the redraw is lost (`Outdated`).

**Session** - `main()` from the lock request to `unlock_and_destroy`, the two
signals, the grace period with its timer, pipes and poll entry, the watcher with
its delay lock, and a machine that announces sleep, suspends and resumes.
`loop_remove_fd` is modelled with what it matches, and the removal is completed
by a later `loop_poll`.

**Plugin** - client records, the process groups they name, timers and outputs.
A group is dead, running or stopped. `dispatching` separates what runs inside
`dispatch_nested`, where the fall back must be deferred, from timers and flushes
of the main loop. After the fall back, records and outputs that still refer to
the destroyed server are followed on: what uses it ends the run in
`usedFreedServer` or `usedNullServer`; `asked` has the outputs with frame requests of
programs to be answered, which is such a use. `frame` is the clock of an output's frame callbacks as
`--pause-when-hidden` reads it.

**LockSurface** - one output: the compositor's configures, the serial table, the
program's acknowledgements and commits, the indicator's own commits, the
successor of a program that died and the fallback buffer. The compositor side
(`configs`, `lastAck`, `attached`, `content`) raises the protocol's errors in
`wrong`.

The viewport is the destination and source size last passed on, beside the
committed ones of the program, so that the compositor judges a commit by the
size that results and the locker by the size it remembers.

**Outputs** - outputs against the objects that point to them. A
`swaylock_surface` is announced, described, created, configured and freed;
meanwhile programs bind and release `wl_output`, xdg and color outputs, make layer
surfaces, surfaces and fractional scale objects, and the compositor completes
frame callbacks. `listed` and `stale` are the resource lists, `plugin` and `role`
the two pointers between an output and a surface. `late` says whether requests
and events may still come for an output that is gone; one that does ends the
run in `crash`, as does an assertion or a corrupted list.

**Buffers**, **ShmPools**, **DmabufFeedback**, **Subsurfaces**, **ColorDescs** - objects of the nested
protocol. Memory is explicit: the set of allocated objects, the pointers to
them and the lists that find them are separate variables, and an invalid access
ends the behaviour in `crash` (`fault` in ColorDescs). Buffers come from pools or from dmabuf
parameters, whose answer may come after the parameters are gone; DmabufFeedback
keeps the open table descriptors and what each feedback object was last sent.

Buffers and Subsurfaces tell what a plugin asks for from what libwayland does when the
client is destroyed (`leaving`): the first may be well-behaved, the second runs all
destructors that are left, in any order (by the ids of the resources, which are
used again). Commits that an inert or role-less surface ignores are an action of
their own (`CommitIgnored`), and histories (`unsent`, `missed`, `left`) remember what
led to an invalid access.

Some handlers are only ready for part of what the other side may do. The variables
`rude` (Buffers), `odd` (Subsurfaces, Seat), `late` (Outputs) and `conduct`
(LockSurface) choose in
`Init` whether the environment keeps to that part or not, and never change. What
must hold against every environment is stated without them; what holds only
against the well-behaved one is an implication from them, so that each limit of
the code is written down. `kind` (ColorDescs) chooses which of the two owners of
a description cache is modelled.

**Seat** - one seat: keys held, focus, keymap, the repeat timer and its interval,
and pointer positions on a line over a few seconds.

**AuthProofs**, **EventLoopProofs**, **SessionProofs**, **PluginProofs**,
**LockSurfaceProofs** (with Subsurfaces), **OutputsProofs** (with ColorDescs),
**MemoryProofs** (Buffers, ShmPools, DmabufFeedback) and **SeatProofs** - the
theorems, by component. Where one of them is about several components, these
keep their names apart (`SubsSpec`, `DescsSpec`, `PoolsSpec`, `FeedbackSpec`). **MCAuth**, **MCPlugin** and
**MCOutputs** give sets and symmetries for TLC; **MCMemory** puts Buffers, ShmPools and
DmabufFeedback side by side: they share no state, so each step belongs to one of
the three, and a behaviour follows one of them to its end.

The modules meet in few places: `AuthSucceeds` in Session stands for the
successful reply in Auth, `GraceInput` in Session for the events Seat decides
on, and Plugin's fall back for `Clientless` in LockSurface.

## The runs

| run | shows |
|---|---|
| `event_loop` | the array and the lists stay aligned, no timer is freed in use, `loop.c` implements `Loop`, every ready descriptor and every timer is served |
| `auth` | the buffer and its requests are framed; timers tracked, typed passwords expire, transient states decay; validation is always backed by work and ends; unlocking only after acceptance, and always after it; no reply after a success (PAM); indicator current |
| `session` | the grace period is taken down consistently and for good; SIGUSR2 and a failed watcher end it; its end frees the delay lock; SIGUSR1 exits |
| `plugin` | records, owners, timers and stopped groups agree; a blank output is watched by a timer or a fall back; client-less mode leaves no configured output blank; with one program for all outputs nothing of it outlives the nested server |
| `plugin_live` | every configured output is eventually drawn; a program whose outputs are presented does not stay stopped |
| `outputs` | pointers between outputs, surfaces and resources agree; a program's surface knows its output's scale; handlers find their output, but for a request or event that crosses its removal, and other named cases |
| `lock_surface` | serials stay ordered on both sides and a program that answered everything knows the current size, whatever it draws; in an orderly run, by buffers or by viewports, no protocol error |
| `memory` | the lists that find a buffer's users stay exact and nothing leaks, whatever the program does; for a plugin that destroys no buffer between attach and commit the assertions fail only over a surface whose commit was ignored, or that had not committed when the plugin disconnected; every pool is backed by an upstream pool of its own file, large enough, never shrunk, counted exactly; every feedback object has the compositor's last description and no table is closed in use or leaked |
| `subsurfaces` | lists exact, ancestry acyclic, stacking upstream follows the committed order under the indicator; a plugin that does not nest and destroys children before their parents causes no invalid access while it is served, and on disconnection only by the order in which libwayland destroys what it left; a parent destroyed first always ends in one |
| `color` | reference counts exact, no change of the compositor's description lost, descriptions neither freed in use nor leaked |
| `seat` | one repeat timer at most, also when devices and settings change; otherwise only held keys repeat, at positive intervals, and only deliberate motion unlocks |
| `session_sleep_claim` | (violated) the grace period is over when the machine sleeps |

Where a module's structural invariant has several parts (`BufferInv`, `TimerInv`,
`LoopInv`, `GraceInv`, `OwnersInv`, `OutputsInv`, `SerialsInv`, `BuffersInv`, `PoolsInv`,
`FeedbackInv`, `ListsInv`, `DescsInv`, `RepeatInv`), the
run checks their conjunction, type invariant included; the parts keep their own
names and comments. Most are not inductive as they stand; see Proofs.

### Deviations

`session_sleep_claim` checks what the README of the repository says of sleep, and
TLC shows that the code does not keep it: `prepare_for_sleep` gets a null state
(`sleep-watcher.c:93`, `:173`), the helper dies, the kernel releases its delay lock,
and the machine can be asleep with `grace_timer` set.

Modelling met other places where the code differs from a comment, an assertion
or the manual. They are behaviours of the models, and the properties above are
stated around them:

* `password.c:110`: submitting does not cancel the 3 s timer of an earlier
  failure, so the state becomes idle ("nothing happening") during a validation.
* `main.c:2377`: `sleep_comm_r` is set to -1 before it is removed from the loop, so
  the closed descriptor stays in the poll set and `poll` returns at once.
* `main.c:2816`: readiness is written also when the first loop ended without a lock.
* `main.c:396`: redraw timers, and the connection timer of a restarted program, run
  against programs the locker has stopped; the comment at 2102 says they do not.
* `main.c:2177`: an output that is presented but draws nothing new does not keep
  the program of all outputs running (`swaylock.1.scd:46`).
* `main.c:2252`: a fall back requested from `wl_display_flush_clients` is served only
  if some client makes `dispatch_nested` run again.
* `main.c:157`, `:163`, `:312`: client records and nested outputs outlive client-less
  mode. Unplugging an output afterwards destroys its client or its global on the
  server that is gone, and with `--command-each` one plugged in calls
  `wl_client_create` with a null display (Plugin). The frame callback of such an
  output sends `done` to, and destroys, resources of a surviving program on the same
  server (`forward.c:188-195`); so does any other event that is passed on to it.
  With `--command-each` only, as `LoneProgramGone` says.
* `main.c:1722`, `forward.c:183` and others: a bind of a removed global,
  `get_xdg_output`, `get_layer_surface`, `ack_configure`, a color output's request, a
  frame callback or a description's answer that crosses the removal of its
  output uses the freed `swaylock_surface` (Outputs, `late`); with
  `--command-each` only events can.
* `main.c:2607`: `stale_color_output_resources` is never initialised, so unplugging an
  output whose color output a program holds (`main.c:176`) writes through a null
  list head.
* `main.c:2788`: the first outputs are created without the wait of `main.c:437` for
  their color description, and a program that asks for it then fails an assertion.
* A surface that lost its output is marked inert for good: used for a new layer
  surface, it never draws again. Destroying a layer surface is a no-op.
* `forward.c:234`, `main.c:1823`: the upstream viewport keeps the destination of an
  earlier program. One that draws without a viewport after one that used it, and
  the fallback buffer, then have another size than acknowledged.
* `forward.c:260`: the source rectangle sent is the one of the previous commit.
* `render.c:69`: a redraw that found no free buffer still clears `dirty`; the
  indicator stays old until the next change.
* `loop.c:84`: after an interrupted `poll` the walk still reads `revents`. Linux has
  written them then, which is what EventLoop assumes; a system that leaves them
  alone would repeat the calls of the last round.
* `loop.c:199`: removal is by descriptor number. Closing a descriptor whose removal
  missed (`main.c:2377`) and opening another of the same number leaves two entries;
  EventLoop excludes that second registration.
* `main.c:1486`: `exit` in `comm_in` passes by `resume_all_clients`.
* `forward.c:505`: a second configure before the program's first commit pairs the
  first serial with the second size; `forward.c:552`: a buffer is attached upstream
  before its size is checked, and the indicator's next commit applies it.
* `forward.c:717`, `forward.c:342`: a buffer destroyed between attach and commit fails an
  assertion. A commit that is ignored, on a surface that is inert
  (`forward.c:468`, its output went or its `wl_subsurface` was destroyed) or has no role
  yet (`:481`), leaves its buffer pending, so a plugin that committed before it destroyed
  the buffer stops the locker too; and so may one that disconnects, or is killed,
  between attach and commit, when libwayland destroys the buffer before the surface.
  `forward.c:106`: attaching NULL uses the list of a NULL buffer.
* `forward.c:756`: a destroyed parent leaves dangling pointers in its subsurfaces. A
  plugin that disconnects or is killed with subsurfaces has all its resources
  destroyed, by ascending id, so its layer surface usually first: the subsurfaces
  are then unlinked from the freed lists (`forward.c:686-694`), and the next destructors use
  what is left. A request on such a subsurface (`:899`, `:928`) writes there too.
  `forward.c:884`, `:913`: placing a subsurface next to itself fails an assertion;
  `forward.c:697`, `:752`: a surface whose `wl_subsurface` was destroyed stays inert and
  keeps a pointer to it; `forward.c:211`: a subsurface of a subsurface is accepted
  and its parent's commit uses a NULL `sway_surface`.
* `main.c:418`: a change of an output's image description reaches a handler that
  expects another type; `forward-client.c:276`: `info_request` is never cleared, so the
  first change after an answer fails an assertion.
* `seat.c:274`: capabilities lost under a held key leave its repeat timer running;
  `seat.c:75`: a rate of 0 makes it re-arm with -1 ms; `seat.c:163`: a pointer that
  entered before the grace timer was set is measured from the origin.

### Bounds

Every bound is a constant or a set in a configuration.

* EventLoop: two descriptors and two timers, so that a callback removes or adds
  its neighbour before and behind the walk; the array grows by one entry instead
  of ten, so that it does so in mid-walk; delays of 0 and 1.
* Auth: one character of two bytes and a buffer of 6, in which it fits twice and
  a third would take the place of the NUL; one of the two passwords is right. Two
  requests in the pipe, so that one waits behind another. `MaxShown` is where the
  drawn attempt count saturates.
* Session: two sleeps, so that a second one meets what the first left behind.
* Plugin: two outputs (one dark, one presented) and three process groups (one
  per output, and a successor while a dead one is still recorded). One group
  in `plugin_live`, where restarts reuse it.
* LockSurface: two sizes, five configures and seven serials per program, more than the serial table needs
  for an acknowledgement that skips entries before and after a restart.
* Outputs: two outputs, so that one goes while the other stays, one surface that
  moves between them, two scales.
* Buffers: three buffers and two surfaces: one committed, one pending, one new,
  and a shared one; no symmetry, as the layer surface is one of the two. ShmPools: three pools over two inodes, each used for a
  second file. DmabufFeedback: two feedback objects, two tables, tranches up to
  the bound. Subsurfaces: three children, so that a list has a middle.
* ColorDescs: two descriptions and three changes (of what is current, of what was
  asked for, and of an answer on its way); Seat: two keys, positions 0 to 3 against a
  threshold of 2, three seconds.

Runs say `CHECK_DEADLOCK FALSE` where the modelled system really stops: the
locker exits, a crash ends the behaviour, or a bounded compositor has sent all
its events.

### Fairness

* EventLoop: `main` calls `loop_poll` again and again, callbacks return, `poll`
  returns when a descriptor is ready or the time has come, and time passes.
  Nothing is assumed of what callbacks do, nor of interruptions.
* Auth: the checker reads and answers, and `comm_in` runs when its pipe is
  ready: `poll` is level triggered and the checker is a loop of blocking reads.
  No fairness is assumed of the user, of timers or of a checker's exit.
* Session: callbacks whose descriptor is readable run (`poll` again), the
  straight code after a loop is reached, the watcher starts and sees a closed
  pipe, and a suspended machine resumes. The grace timer is not assumed fair, so
  the ends of the grace period are shown without its help.
* Plugin: `dispatch_nested` ends; armed redraw and hidden-check timers expire
  although other callbacks intervene (strong fairness, as a timer that is
  re-armed keeps being served by the loop), and the compositor presents a lit
  output. Nothing is assumed of programs.

## Proofs

Every invariant and every action property the passing runs check is proved for all
values of the constants, and so is the refinement of `Loop`. A proof assumes the assumption of its module and nothing else: finite
sets of outputs, pools, descriptions and surfaces, bounds that are natural
numbers, and marks like `None` that are none of the objects. Each theorem rests
on an inductive invariant, kept by one lemma or one step for each action; below is
what it adds to the properties and why they need it.

**AuthProofs**, for any alphabet and buffer length, any set of accepted passwords,
both backends and all options:

* `FramedInvariant`: `TypeOK`, `BufferOK` and `RequestsFramed` together are
  inductive. Framing alone is not: that a request's size matches its string
  rests on `len` being the string's length, which `backspace` keeps only if the
  characters follow each other without a gap. From it follow `TypeCorrect`,
  `AlwaysFramed` and `AlwaysNulFits`, and their conjunction `AlwaysBufferInv`. There is one lemma for each operation on
  the buffer and one step for each action.
* `TimerInvariant`: `TimersTracked`, `PasswordExpires` and `StatesDecay` are
  inductive together with the types; the lemmas `ScheduleTimer`, `CancelTimer`
  and `ExpireTimer` say what each operation does to the table, and
  `AlwaysTracked`, `AlwaysExpires` and `AlwaysDecays` follow.
* `PipeInvariant`: `ValidatingHasWork`, `SuccessIsLast`, `UnlockOnlyIfAccepted`
  and `RepliesEarned` (every success in the pipe was earned); the last is what
  makes unlocking inductive. `UnlockNeedsAcceptance`, `AlwaysWork` and
  `SuccessStaysLast` follow.
* `IndicatorInvariant`: `IndicatorCurrent` is inductive, whichever redraws find a
  buffer.

**EventLoopProofs**, for any descriptors, timers, delays and growth of the array.
`LoopIInv` adds to `LoopInv` where the walks may stand (`CallInWalk`) and
`DataIsThere`: what `poll` reported for an entry still to come is still true, as
only the running callback reads or closes a descriptor and its entry has been
passed. From it follow `LoopInvariant` and `KeepsPromiseHolds`, the refinement of
`Loop`: the initial state maps to an initial one, registrations and removals map
to those of `Loop`, the start of a callback to a call that `Loop` allows (this is
where `DataIsThere` is needed), and growing, polling and closing up to stuttering.

**SessionProofs**. `GraceInvariant`: `GraceInv` is inductive by itself, the proof splits
it into counters, switches and the whole of a period. `GraceOverHolds` follows
step by step.

**PluginProofs**, for any outputs and any number of process groups. `PluginIInv` adds
to the properties that every stopped group is marked on its record, also while
the run ends (`ProcsOK`), and to `BlankIsWatched` that while programs are relied on
each slot has an owner and each client without a connection its timer
(`WatchedOK`); without the owners a blank output could pass its timer to nobody.
`LoneProgramGone` adds what one program for all outputs means (`LoneOK`): there is at
most one client, it owns every slot, and frame requests are its own. Each way to the fall
back (a timeout, a hang-up, a failed restart, each at once or deferred) then goes
through the end of that client (`LoneDestroyed`, `LoneTimeout`).

**LockSurfaceProofs**, for any sizes, configures and serials. `SurfaceIInv` relates five
views of a size: of the compositor, of the serial table (`TableOK`), of the program
(`RoleOK`), of the next commit (`AckedOK`) and of what is shown (`DrawnOK`). The
chain is what `NoProtocolError` needs: a commit is right because what was acked
is a configure of the compositor, which is an entry of the table, which is what
the program was told. Its second part is about **Subsurfaces**, for any number of
surfaces:

* `SubsurfaceListsInvariant`: `ListsInv`, whatever the plugin does until the locker makes
  an invalid access. `ListsInv` says nothing after one, and its `Acyclic` is about the
  walk `Root` and not about the tree, so neither is inductive. `ListsIInv` holds after
  an invalid access too; it says that every set of surfaces has one whose parent is
  outside (`Grounded`), that what has a parent or a `wl_subsurface` is allocated
  (`TreeInv`), and for each surface what its four lists hold (`Listed`).
  - The tree: along a walk the set of surfaces that reach a root in n steps grows
    until it is all of them, which is a pigeonhole over their number (`RootEnds`); so a
    walk that stops at a surface has met a root, and what `subcompositor_get_subsurface`
    tests keeps a new link from closing a cycle (`AdoptionGrounded`).
  - The stack: after k of the requests that a commit sends upstream, the background
    and k subsurfaces lie in their final order, and what is still to be placed lies
    under and over them, with the indicator on top (`Settled`). `MovedAbove` and
    `MovedBelow` are one request, `StackedAbove` and `StackedUnder` the two loops of
    `apply_pending_surface_updates`, and `Restacked` a commit: the result is the pending order,
    whatever order was there before. The loops are recursive functions over the
    positions of a list; that such a function exists is proved first (`StepsExist`), by
    well-foundedness of the numbers, as induction over an operator is not available.
  - The requests and destructors: `AdoptionKeeps`, `PlaceAboveKeeps`,
    `PlaceBelowKeeps`, `CommitKeeps` and `PartsKeep`, from lemmas on a list with an
    element taken out (`LeftWithout`) or put in (`Inserted`). That unlinking a
    subsurface leaves the stack in the order of the lists is `WithoutJoined`.
* `SubsurfaceHandlersSafe`, on top of `ListsIInv`: the trace an unusual order of
  destruction leaves (`TraceOK`). While a well-behaved plugin is served, only the layer
  surface is a parent and nothing a subsurface points to is freed; each invalid access its
  disconnection makes has such a freed parent or handle behind it (`Explained`).
  For every plugin, a freed parent still has children: one that is
  unlinked without touching the freed head lies between two others (`NotTheLast`).
  So a client of which a parent was freed first cannot be gone without one.

**OutputsProofs**, for any outputs, programs, surfaces and scales. `OutputsIInv` adds to the
three properties which resources can exist: none of a program that is gone or
of an output not yet announced, and with a program per output none of another
(`ResourcesOK`, `PhasesOK`). Its second part is about **ColorDescs**, for any
properties, versions and descriptions. `DescsIInv` adds that current and pending
are never the same properties, and that an answer on its way or being filled in is of the
present version unless a change is announced or marked (`CacheOK`). That a new
request finds properties nobody holds (`Unallocated`) is a pigeonhole over the
exact counts; `CollectKeeps` covers the five requests that may free a description.

**MemoryProofs**. `FeedbackInvariant`: what is being built is what the compositor has
said so far. `PoolsInvariant`, `UpstreamGrowth`: an entry found under an inode is over
the file that has the inode now, as its upstream pool keeps the file open
(`EntriesCurrent`). `BuffersInvariant` and `BufferHandlersSafe` are inductive together,
with two parts about destroyed buffers (`BuffersIInv`): where a well-behaved plugin leaves one
(`Behaved`), and that each failed assertion names a surface that has one (`CrashPointed`).

**SeatProofs**. `RepeatInvariant` adds that a key is only being repeated under a keymap
and with a positive period. `MotionDeliberate` adds that the pointer is at one of the
recent positions, and that its starting point is one too if recorded in this
second.

Only model-checked:

* liveness (`AcceptedUnlocks`, `ValidatingEnds`, `EverythingServed`, `GraceEnds`,
  `GraceEndFreesInhibitor`, `Usr1Exits`, `EveryOutputDrawn`, `VisibleProgramRuns`), because fairness and ENABLED are
  outside this prover;
* `AsleepMeansLocked`, which is false.

## Not modelled

Drawing (`cairo.c`, `background-image.c`, the contents of `render_frame`), options
and configuration files, logging, and `daemonize` have no protocol state;
`password-buffer.c` is one allocation. xkb translation, D-Bus, PAM, libwayland and the
compositor are external and appear as what the code relies on. Allocation
failure is not modelled except where the code recovers from it. What is passed
on unread (damage, regions, color representation parameters, format lists,
`wl_drm`) is left out, as are positions and the synchronised mode of subsurfaces,
buffer scale and transform, and the parameter checks of the description
creators. `utf8_encode` and `utf8_decode` are pure functions over code points too
many to enumerate, and induction over data is beyond the prover. That
`posix_spawnp` reports failure by its result, which `main.c:2042` compares with -1,
shows in Plugin only as a client that hangs up at once.

## Plan

Done, in this order: Auth with its proofs, Session, Plugin, LockSurface, Buffers,
Seat, ShmPools, ColorDescs, Subsurfaces; then Loop and EventLoop with the
refinement, Outputs, DmabufFeedback and dmabuf buffers, viewports, the destroyed
server in Plugin, the indicator's buffers; then the proofs of EventLoop and the
refinement, ShmPools, DmabufFeedback, Buffers, Seat, Session, Plugin, LockSurface,
Outputs, ColorDescs and the handlers of Subsurfaces; last the trees, lists and
stacking of Subsurfaces. No safety property of a passing run is left without a
theorem. What could still be modelled is under Not modelled, first of all
`utf8_encode` and `utf8_decode`, for TLC only, and the positions and the mode of
subsurfaces, which a commit copies and sends like the order.
