------------------------------ MODULE Outputs ------------------------------
(***************************************************************************)
(* Outputs that come and go against the objects programs hold of them      *)
(* (main.c, forward.c, forward-client.c): a swaylock_surface lives from    *)
(* handle_global to handle_global_remove, while the wl_output, xdg_output, *)
(* color output and layer surface resources, the frame callbacks and the   *)
(* description requests that point to it end when a program or the         *)
(* compositor says so.                                                     *)
(*                                                                         *)
(* The nested server stays up (Plugin has the fall back), and a program    *)
(* that disconnects is started again at once.  What is configured, drawn   *)
(* and described is left to LockSurface and ColorDescs.                    *)
(***************************************************************************)
EXTENDS Naturals, FiniteSets

CONSTANTS
  Outputs,   \* the compositor's outputs; a name is not used twice
  Surfs,     \* wl_surfaces the programs have at the same time
  Scales,    \* preferred fractional scales
  Main,      \* the client of all outputs
  None

Kinds   == {"wl", "xdg", "color"}   \* wl_output, xdg_output, color output
Clients == Outputs \cup {Main}

ASSUME OutputsAssumption ==
  /\ IsFiniteSet(Outputs) /\ Main \notin Outputs
  /\ None \notin Clients \cup Surfs
  /\ Scales \subseteq Nat \ {0}

VARIABLES
  perOutput,  \* args.plugin_per_output
  late,       \* requests and events about an output may still come when it is gone
  started,    \* main has created the first outputs; run_display
  color,      \* forward.color_management # NULL
  unready,    \* outputs main created at the start, not described by now
  phase,      \* per output, see Phases
  done,       \* outputs with has_output_done
  described,  \* outputs with output_desc.current # NULL
  global,     \* outputs whose nested_server_output was created; also when removed
  scale,      \* last_fractional_scale, 0 before the first
  plugin,     \* plugin_surface
  frames,     \* outputs a frame callback of the compositor points to
  listed,     \* <<kind, client, output>>: resources in the lists of a swaylock_surface
  stale,      \* resources in the stale lists of the state
  layer,      \* <<client, output>>: layer surface resources, by their user data
  home,       \* the client of a wl_surface, None if there is no such surface
  role,       \* its sway_surface
  inert,      \* surfaces marked inert
  told,       \* the scale last sent to its fractional_scale; None without one
  crash       \* "none"; a request or an event reached a freed swaylock_surface; or
              \* what else ended swaylock

\* Unannounced; handle_global; create_surface; first configure; freed.
Phases == {"absent", "bound", "created", "shown", "gone"}

modeVars    == <<perOutput, late>>
startVars   == <<started, color, unready>>
outputVars  == <<phase, done, described, global, scale>>
resVars     == <<listed, stale, layer>>
surfVars    == <<home, role, inert, told>>
vars == <<modeVars, startVars, outputVars, plugin, frames, resVars, surfVars, crash>>

TypeOK ==
  /\ \A b \in {perOutput, late, started, color} : b \in BOOLEAN
  /\ phase \in [Outputs -> Phases]
  /\ \A S \in {unready, done, described, global, frames} : S \subseteq Outputs
  /\ scale \in [Outputs -> Scales \cup {0}]
  /\ plugin \in [Outputs -> Surfs \cup {None}]
  /\ \A L \in {listed, stale} : L \subseteq Kinds \X Clients \X Outputs
  /\ layer \subseteq Clients \X Outputs
  /\ home \in [Surfs -> Clients \cup {None}]
  /\ role \in [Surfs -> Outputs \cup {None}]
  /\ inert \subseteq Surfs
  /\ told \in [Surfs -> Scales \cup {0, None}]
  /\ crash \in {"none", "request", "event", "list", "assert_description", "assert_client"}

Up == crash = "none"
Alive(o) == phase[o] \in {"bound", "created", "shown"}

\* surface->client, else server.main_client: the client that serves o
ClientOf(o) == IF perOutput THEN o ELSE Main

\* The programs that run: one for all outputs once main has started it, or
\* one for every output that has been created.
Running == IF perOutput THEN {o \in Outputs : phase[o] \in {"created", "shown"}}
           ELSE IF started THEN {Main} ELSE {}

\* swaylock crashes, and everything it had is gone.
Ends(how) ==
  /\ crash' = how
  /\ started' = FALSE
  /\ phase' = [o \in Outputs |-> "absent"]
  /\ done' = {} /\ described' = {} /\ global' = {} /\ frames' = {}
  /\ scale' = [o \in Outputs |-> 0] /\ plugin' = [o \in Outputs |-> None]
  /\ listed' = {} /\ stale' = {} /\ layer' = {}
  /\ home' = [s \in Surfs |-> None] /\ role' = [s \in Surfs |-> None]
  /\ inert' = {} /\ told' = [s \in Surfs |-> None]
  /\ UNCHANGED <<modeVars, color, unready>>

\* A handler has a pointer to the swaylock_surface of o, which is gone.
Late(o) == Up /\ late /\ phase[o] = "gone"

-----------------------------------------------------------------------------
(* Outputs of the compositor: its registry, wl_output and color management *)

\* handle_global for a wl_output
HandleGlobal(o) ==
  /\ Up /\ phase[o] = "absent"
  /\ phase' = [phase EXCEPT ![o] = "bound"]
  /\ UNCHANGED <<modeVars, startVars, done, described, global, scale, plugin, frames, resVars,
                  surfVars, crash>>

\* handle_global for the color manager, among the first globals
HandleColorManager ==
  /\ Up /\ ~started /\ ~color
  /\ color' = TRUE
  /\ UNCHANGED <<modeVars, started, unready, outputVars, plugin, frames, resVars, surfVars, crash>>

\* init_surface_if_ready, create_surface
InitIfReady(o) ==
  phase' = IF /\ phase[o] = "bound" /\ started
              /\ o \in done'
              /\ color => o \in described'
           THEN [phase EXCEPT ![o] = "created"] ELSE phase

\* handle_wl_output_done
HandleDone(o) ==
  /\ Up /\ Alive(o)
  /\ done' = done \cup {o} /\ UNCHANGED described
  /\ InitIfReady(o)
  /\ UNCHANGED <<modeVars, startVars, global, scale, plugin, frames, resVars, surfVars, crash>>

\* image_desc_info_handle_done or image_desc_handle_failed for output_desc.
\* destroy_surface does not destroy the request, whose listener has a pointer
\* into the swaylock_surface.
HandleDescribed(o) ==
  /\ color /\ o \notin described
  /\ \/ /\ Up /\ Alive(o)
        /\ described' = described \cup {o} /\ UNCHANGED done
        /\ unready' = unready \ {o}
        /\ InitIfReady(o)
        /\ UNCHANGED <<modeVars, started, color, global, scale, plugin, frames, resVars,
                       surfVars, crash>>
     \/ Late(o) /\ Ends("event")

\* main: the outputs there are are created, ready or not, and the program for
\* all of them is run.
Start ==
  /\ Up /\ ~started
  /\ started' = TRUE
  /\ phase' = [o \in Outputs |-> IF phase[o] = "bound" THEN "created" ELSE phase[o]]
  /\ unready' = {o \in Outputs : color /\ phase[o] = "bound"} \ described
  /\ UNCHANGED <<modeVars, color, done, described, global, scale, plugin, frames, resVars,
                 surfVars, crash>>

\* forward_configure, the first time: the programs can see the output.  The
\* compositor has sent wl_output.done when it was bound.
FirstConfigure(o) ==
  /\ Up /\ phase[o] = "created"
  /\ o \in done
  /\ phase' = [phase EXCEPT ![o] = "shown"]
  /\ global' = global \cup {o}
  /\ UNCHANGED <<modeVars, startVars, done, described, scale, plugin, frames, resVars,
                 surfVars, crash>>

\* fract_scale_preferred_scale with a new scale
PreferredScale(o, n) ==
  /\ Up /\ phase[o] \in {"created", "shown"} /\ n # scale[o]
  /\ scale' = [scale EXCEPT ![o] = n]
  /\ told' = IF plugin[o] # None /\ told[plugin[o]] # None
             THEN [told EXCEPT ![plugin[o]] = n] ELSE told
  /\ UNCHANGED <<modeVars, startVars, phase, done, described, global, plugin, frames, resVars,
                  home, role, inert, crash>>

\* bg_frame_handle_done; the callback was not destroyed with its wl_surface
FrameDone(o) ==
  /\ o \in frames
  /\ \/ /\ Up /\ Alive(o)
        /\ frames' = frames \ {o}
        /\ UNCHANGED <<modeVars, startVars, outputVars, plugin, resVars, surfVars, crash>>
     \/ Late(o) /\ Ends("event")

\* What is left of the objects when the clients C are destroyed
\* (surface_handle_resource_destroy and the destroy functions of the others),
\* the resources M of the other clients being moved to the stale lists.
Dropped(C, M) ==
  /\ listed' = {r \in listed \ M : r[2] \notin C}
  /\ stale' = {r \in stale \cup M : r[2] \notin C}
  /\ layer' = {l \in layer : l[1] \notin C}
  /\ home' = [s \in Surfs |-> IF home[s] \in C THEN None ELSE home[s]]
  /\ told' = [s \in Surfs |-> IF home[s] \in C THEN None ELSE told[s]]

\* The clients destroy_surface destroys
Taken(o) == IF perOutput THEN {o} ELSE {}

\* Mutant of Moved: the xdg_output resources are left in the freed list.
MovedWithoutXdg(o) == {r \in listed : r[3] = o /\ r[1] # "xdg"}

\* The resources that move to the stale lists
Moved(o) == {r \in listed : r[3] = o}

\* handle_global_remove, destroy_surface: the layer surface is closed, the
\* program of this output alone destroyed, and the resources left move to the
\* stale lists.  The one of the color outputs has never been initialized, so
\* that the first insertion dereferences NULL.
DestroySurface(o) ==
  /\ Up /\ Alive(o)
  /\ \/ /\ \E c \in Clients \ Taken(o) : <<"color", c, o>> \in listed
        /\ Ends("list")
     \/ /\ \A c \in Clients \ Taken(o) : <<"color", c, o>> \notin listed
        /\ phase' = [phase EXCEPT ![o] = "gone"]
        /\ done' = done \ {o} /\ unready' = unready \ {o}
        /\ scale' = [scale EXCEPT ![o] = 0]
        /\ plugin' = [plugin EXCEPT ![o] = None]
        /\ role' = [s \in Surfs |-> IF role[s] = o THEN None ELSE role[s]]
        /\ inert' = {s \in Surfs : (s \in inert \/ s = plugin[o]) /\ home[s] \notin Taken(o)}
        /\ Dropped(Taken(o), Moved(o))
        /\ UNCHANGED <<modeVars, started, color, described, global, frames, crash>>

Compositor ==
  \/ HandleColorManager \/ Start
  \/ \E o \in Outputs : \/ HandleGlobal(o) \/ HandleDone(o) \/ HandleDescribed(o)
                        \/ FirstConfigure(o) \/ FrameDone(o) \/ DestroySurface(o)
  \/ \E o \in Outputs, n \in Scales : PreferredScale(o, n)

-----------------------------------------------------------------------------
(* Requests of the programs *)

\* Mutant of Sees: the filter lets every output through.
SeesAll(c, o) == o \in global

\* global_filter: the program of one output sees that one alone.
Sees(c, o) == o \in global /\ c \in {o, Main}

Program(c) == Up /\ c \in Running
Has(k, c, o) == <<k, c, o>> \in listed \cup stale

\* A new resource in the list of o's
Link(k, c, o) ==
  /\ listed' = listed \cup {<<k, c, o>>}
  /\ UNCHANGED <<modeVars, startVars, outputVars, plugin, frames, stale, layer, surfVars, crash>>

\* bind_wl_output.  A removed global can be bound until it is destroyed.
BindOutput(c, o) ==
  /\ Program(c) /\ Sees(c, o) /\ ~Has("wl", c, o)
  /\ \/ Alive(o) /\ Link("wl", c, o)
     \/ Late(o) /\ Ends("request")

\* xdg_output_manager_get_xdg_output
GetXdgOutput(c, o) ==
  /\ Program(c) /\ Has("wl", c, o) /\ ~Has("xdg", c, o)
  /\ \/ Alive(o) /\ Link("xdg", c, o)
     \/ Late(o) /\ Ends("request")

\* nested_color_get_output
GetColorOutput(c, o) ==
  /\ Program(c) /\ color /\ Has("wl", c, o) /\ ~Has("color", c, o)
  /\ \/ Alive(o) /\ Link("color", c, o)
     \/ Late(o) /\ Ends("request")

\* wl_output_handle_destroy, xdg_output_destroy_func and
\* color_output_handle_resource_destroy unlink the resource, which must not be
\* in a list of a freed swaylock_surface.
DestroyOutputObject(k, c, o) ==
  /\ Program(c) /\ Has(k, c, o)
  /\ IF <<k, c, o>> \in listed /\ ~Alive(o)
     THEN Ends("list")
     ELSE /\ listed' = listed \ {<<k, c, o>>} /\ stale' = stale \ {<<k, c, o>>}
          /\ UNCHANGED <<modeVars, startVars, outputVars, plugin, frames, layer, surfVars, crash>>

\* nested_color_output_get_image_description, which ColorDescs continues
GetOutputDescription(c, o) ==
  /\ Program(c) /\ Has("color", c, o)
  /\ \/ Alive(o) /\ o \notin described /\ Ends("assert_description")
     \/ Late(o) /\ Ends("request")

\* compositor_create_surface
CreateSurf(c, s) ==
  /\ Program(c) /\ home[s] = None
  /\ home' = [home EXCEPT ![s] = c]
  /\ UNCHANGED <<modeVars, startVars, outputVars, plugin, frames, resVars, role, inert,
                 told, crash>>

\* surface_handle_resource_destroy
DestroySurf(s) ==
  /\ Program(home[s])
  /\ plugin' = [o \in Outputs |-> IF role[s] = o THEN None ELSE plugin[o]]
  /\ home' = [home EXCEPT ![s] = None]
  /\ role' = [role EXCEPT ![s] = None]
  /\ inert' = inert \ {s}
  /\ told' = [told EXCEPT ![s] = None]
  /\ UNCHANGED <<modeVars, startVars, outputVars, frames, resVars, crash>>

\* The client c is destroyed, and run again by client_destroyed.
Disconnect(c) ==
  /\ Dropped({c}, {})
  /\ plugin' = [o \in Outputs |-> IF plugin[o] # None /\ home[plugin[o]] = c
                                  THEN None ELSE plugin[o]]
  /\ role' = [s \in Surfs |-> IF home[s] = c THEN None ELSE role[s]]
  /\ inert' = {s \in inert : home[s] # c}
  /\ UNCHANGED <<modeVars, startVars, outputVars, frames, crash>>

ProgramDies(c) == Program(c) /\ Disconnect(c)

\* Mutant of TellScale: a new layer surface does not learn the scale.
NotTold(s, o) == told

\* The scale of o goes to the fractional scale object of s, if both are there.
TellScale(s, o) ==
  IF scale[o] # 0 /\ told[s] # None THEN [told EXCEPT ![s] = scale[o]] ELSE told

\* wlr_layer_shell_get_layer_surface; without an output argument only the
\* program of one output can name it.  A second role is an error.
GetLayerSurface(s, o) ==
  LET c == home[s]
  IN  /\ Program(c)
      /\ Has("wl", c, o) \/ c = o
      /\ \/ Late(o) /\ Ends("request")
         \/ /\ Alive(o)
            /\ plugin[o] # None \/ role[s] # None
            /\ Disconnect(c)
         \/ /\ Alive(o) /\ plugin[o] = None /\ role[s] = None
            /\ c # ClientOf(o)
            /\ Ends("assert_client")
         \/ /\ Alive(o) /\ plugin[o] = None /\ role[s] = None
            /\ c = ClientOf(o)
            /\ plugin' = [plugin EXCEPT ![o] = s]
            /\ role' = [role EXCEPT ![s] = o]
            /\ layer' = layer \cup {<<c, o>>}
            /\ told' = TellScale(s, o)
            /\ UNCHANGED <<modeVars, startVars, outputVars, frames, listed, stale, home, inert, crash>>

\* zwlr_layer_surface_ack_configure, which LockSurface continues.  Neither the
\* destroy request nor the closed event ends the resource.
AckConfigure(c, o) ==
  /\ Program(c) /\ <<c, o>> \in layer
  /\ Late(o) /\ Ends("request")

\* nested_surface_commit with a frame request
Commit(s) ==
  /\ Program(home[s]) /\ s \notin inert /\ role[s] # None
  /\ frames' = frames \cup {role[s]}
  /\ UNCHANGED <<modeVars, startVars, outputVars, plugin, resVars, surfVars, crash>>

\* nested_fractional_scale_manager_get_fractional_scale
GetFractionalScale(s) ==
  /\ Program(home[s]) /\ told[s] = None
  /\ told' = [told EXCEPT ![s] = IF role[s] = None THEN 0 ELSE scale[role[s]]]
  /\ UNCHANGED <<modeVars, startVars, outputVars, plugin, frames, resVars, home, role,
                 inert, crash>>

\* fractional_scale_handle_resource_destroy
DestroyFractionalScale(s) ==
  /\ Program(home[s]) /\ told[s] # None
  /\ told' = [told EXCEPT ![s] = None]
  /\ UNCHANGED <<modeVars, startVars, outputVars, plugin, frames, resVars, home, role,
                 inert, crash>>

Programs ==
  \/ \E c \in Clients, o \in Outputs :
       \/ BindOutput(c, o) \/ GetXdgOutput(c, o) \/ GetColorOutput(c, o)
       \/ GetOutputDescription(c, o) \/ AckConfigure(c, o)
       \/ \E k \in Kinds : DestroyOutputObject(k, c, o)
  \/ \E c \in Clients, s \in Surfs : CreateSurf(c, s)
  \/ \E s \in Surfs : \/ DestroySurf(s) \/ Commit(s)
                      \/ GetFractionalScale(s) \/ DestroyFractionalScale(s)
  \/ \E s \in Surfs, o \in Outputs : GetLayerSurface(s, o)
  \/ \E c \in Clients : ProgramDies(c)

-----------------------------------------------------------------------------

Init ==
  /\ perOutput \in BOOLEAN /\ late \in BOOLEAN
  /\ color = FALSE /\ unready = {}
  /\ started = FALSE
  /\ phase = [o \in Outputs |-> "absent"]
  /\ done = {} /\ described = {} /\ global = {} /\ frames = {}
  /\ scale = [o \in Outputs |-> 0] /\ plugin = [o \in Outputs |-> None]
  /\ listed = {} /\ stale = {} /\ layer = {}
  /\ home = [s \in Surfs |-> None] /\ role = [s \in Surfs |-> None]
  /\ inert = {} /\ told = [s \in Surfs |-> None]
  /\ crash = "none"

Next == Compositor \/ Programs

Spec == Init /\ [][Next]_vars

-----------------------------------------------------------------------------
(* Safety *)

\* plugin_surface and sway_surface point at each other, from a living output
\* to a living surface of the client that serves it; every surface with a role
\* has its layer surface resource, which destroy_surface closes and
\* forward_configure configures; no object outlives its program.
PointersAgree ==
  /\ \A o \in Outputs : plugin[o] # None =>
       /\ role[plugin[o]] = o /\ phase[o] \in {"created", "shown"}
       /\ home[plugin[o]] = ClientOf(o)
       /\ <<ClientOf(o), o>> \in layer
  /\ \A s \in Surfs : role[s] # None => plugin[role[s]] = s
  /\ \A s \in Surfs : home[s] # None => home[s] \in Running
  /\ \A r \in listed \cup stale : r[2] \in Running
  /\ \A r \in listed : Alive(r[3])
  /\ \A r \in stale : phase[r[3]] = "gone"

\* The pointers between outputs, surfaces and resources agree, with the types.
OutputsInv == TypeOK /\ PointersAgree

\* Whatever came first, the scale, the layer surface or the fractional scale
\* object: a program's surface on an output knows the scale of that output.
ScaleTold ==
  \A o \in Outputs : Up /\ plugin[o] # None /\ scale[o] # 0 =>
    told[plugin[o]] \in {None, scale[o]}

\* A handler finds what it needs.  The swaylock_surface is there unless a
\* request or an event crossed the removal of the output, and when every output
\* has a program of its own, which goes with it, no request can.  No list is
\* corrupted but by the color outputs a program holds of an unplugged output;
\* the description of an output is there when a program asks for it, unless main
\* created the output without waiting for it; and only the client that serves
\* an output draws on it, as get_layer_surface asserts.
SurfaceThere ==
  /\ crash = "event" => late
  /\ crash = "request" => late /\ ~perOutput
  /\ crash = "list" => color /\ ~perOutput
  /\ crash = "assert_description" => unready # {}
  /\ crash # "assert_client"

=============================================================================
