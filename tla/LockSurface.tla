---------------------------- MODULE LockSurface ----------------------------
(***************************************************************************)
(* One output's lock surface: how the compositor's ext_session_lock        *)
(* configures are passed on to the wallpaper program's layer surface, and  *)
(* its acknowledgements and buffers back (main.c, forward.c, render.c).    *)
(*                                                                         *)
(* Configure serials of the compositor are 1, 2, ...; the plugin's serials *)
(* count from its client's start.  The compositor checks what it is sent:  *)
(* an error of ext-session-lock-v1 disconnects swaylock while the session  *)
(* stays locked.                                                           *)
(***************************************************************************)
EXTENDS Naturals, Sequences

CONSTANTS
  Sizes,         \* output sizes
  MaxConfigures, \* bound: configure events of the compositor
  MaxSerial,     \* bound: serials one client uses up
  None

ASSUME LockSurfaceAssumption ==
  /\ MaxConfigures \in Nat /\ MaxSerial \in Nat
  /\ None \notin Sizes \cup {"destroyed"} /\ "destroyed" \notin Sizes

VARIABLES
  conduct,     \* "any"; or orderly: every program draws at the size it acknowledged,
               \* with "buffers" of that size or through a "viewport" of that size,
               \* and the compositor does not resize before the first commit
  \* the compositor
  configs,     \* the sizes configured so far; a serial is an index
  lastAck,     \* the last acknowledged serial, 0 before the first
  attached,    \* the buffer attached and not yet committed: its size, None, "destroyed"
  content,     \* the size of the committed buffer
  upDest, upSource,  \* the sizes last set for its viewport, None if unset
  wrong,       \* the protocol error raised, or None
  \* struct swaylock_surface
  display,     \* server.display # NULL
  hasNewer,    \* has_newer_serial
  usedFirst,   \* used_first_configure
  hasBuffer,   \* has_buffer
  pendingAck,  \* pending_upstream_serial, 0 unless has_pending_ack_conf
  dirty,       \* dirty
  overlay,     \* frame: the indicator's frame callback is outstanding
  \* struct forward_surface and its client
  role,        \* "none", "layer" (layer surface, not configured), "configured"
  serial,      \* bg_client->serial
  lastUsed,    \* last_used_plugin_serial
  table,       \* serial_table
  ackedSize,   \* last_acked_width, last_acked_height; None stands for 0 x 0
  dest, source \* committed.viewport_dest and viewport_source (their sizes)

compVars   == <<configs, lastAck, attached, content, wrong>>
viewVars   == <<upDest, upSource>>
ackVars    == <<display, hasNewer, usedFirst, pendingAck>>
drawVars   == <<hasBuffer, dirty, overlay>>
pluginVars == <<role, serial, lastUsed, table, ackedSize, dest, source>>
vars == <<conduct, compVars, viewVars, ackVars, drawVars, pluginVars>>

Serials == 1..MaxConfigures
Pairs == [up : 0..MaxConfigures, plug : 0..MaxSerial, size : Sizes, local : BOOLEAN]

TypeOK ==
  /\ conduct \in {"buffers", "viewport", "any"}
  /\ configs \in Seq(Sizes) /\ Len(configs) <= MaxConfigures
  /\ lastAck \in 0..Len(configs)
  /\ attached \in Sizes \cup {None, "destroyed"}
  /\ content \in Sizes \cup {None}
  /\ wrong \in {None, "invalid_serial", "dimensions_mismatch", "null_buffer"}
  /\ display \in BOOLEAN /\ hasNewer \in BOOLEAN /\ usedFirst \in BOOLEAN
  /\ hasBuffer \in BOOLEAN /\ dirty \in BOOLEAN /\ overlay \in BOOLEAN
  /\ pendingAck \in 0..Len(configs)
  /\ role \in {"none", "layer", "configured"}
  /\ serial \in 0..MaxSerial
  /\ lastUsed \in 0..MaxSerial
  /\ table \in Seq(Pairs)
  /\ \A z \in {ackedSize, dest, source, upDest, upSource} : z \in Sizes \cup {None}

Newest == Len(configs)       \* newest_serial
Size == configs[Newest]      \* width, height

-----------------------------------------------------------------------------
(* The compositor's side of ext_session_lock_surface_v1 (external) *)

\* After ack_configure(s), which consumes s and all older configures; 0 stands
\* for no request.
AckedBy(s) == IF s = 0 THEN lastAck ELSE s

\* The size of a surface with a buffer of size b, the destination d and the
\* source r of its viewport
SurfaceSize(b, d, r) == IF d # None THEN d ELSE IF r # None THEN r ELSE b

\* ack_configure(s), wl_surface.commit with the buffer b attached, sizes being
\* the configures sent: the surface must have content and be exactly of the last
\* acknowledged size.  What a compositor makes of an attached buffer that has
\* been destroyed is not specified; many drop the content.
Upstream(s, b, sizes) ==
  /\ lastAck' = AckedBy(s)
  /\ attached' = None
  /\ content' \in IF b = "destroyed" THEN {None, content}
                 ELSE IF b = None THEN {content} ELSE {b}
  /\ wrong' = IF s # 0 /\ s \notin (lastAck + 1)..Len(sizes) THEN "invalid_serial"
              ELSE IF content' = None THEN "null_buffer"
              ELSE IF lastAck' = 0 \/ SurfaceSize(content', upDest', upSource') # sizes[lastAck']
                   THEN "dimensions_mismatch"
              ELSE None

-----------------------------------------------------------------------------
(* render() *)

\* render(surface) with the dirty flag set: whether it commits.
Renders(buffered) == buffered /\ ~overlay

\* What the handlers do last: mark the surface dirty and render it.
RenderNow(buffered) ==
  /\ dirty' = ~Renders(buffered)
  /\ overlay' = (overlay \/ Renders(buffered))

\* damage_state: the indicator changes
Damage ==
  /\ wrong = None /\ configs # << >>
  /\ UNCHANGED viewVars
  /\ RenderNow(hasBuffer)
  /\ IF Renders(hasBuffer) THEN Upstream(0, attached, configs)
     ELSE UNCHANGED <<lastAck, attached, content, wrong>>
  /\ UNCHANGED <<configs, ackVars, hasBuffer, pluginVars>>

\* surface_frame_handle_done: render again if dirty
OverlayFrameDone ==
  /\ wrong = None /\ overlay
  /\ UNCHANGED viewVars
  /\ IF dirty
     THEN dirty' = FALSE /\ UNCHANGED overlay /\ Upstream(0, attached, configs)
     ELSE overlay' = FALSE /\ UNCHANGED <<dirty, lastAck, attached, content, wrong>>
  /\ UNCHANGED <<configs, ackVars, hasBuffer, pluginVars>>

-----------------------------------------------------------------------------
(* Configure events *)

Pair(up, size, local) == [up |-> up, plug |-> serial, size |-> size, local |-> local]

\* Mutant of ForwardConfigure: one open configure at a time.
ForwardConfigureOneByOne(z) ==
  IF role = "configured" /\ table = << >>
  THEN /\ serial < MaxSerial
       /\ serial' = serial + 1
       /\ table' = Append(table, Pair(Newest + 1, z, FALSE))
       /\ UNCHANGED <<role, lastUsed, ackedSize, dest, source>>
  ELSE UNCHANGED pluginVars

\* forward_configure: the first creates the nested output, a later one is
\* passed on if the plugin's first configure cycle is over.
ForwardConfigure(z) ==
  IF role = "configured"
  THEN /\ serial < MaxSerial
       /\ serial' = serial + 1
       /\ table' = Append(table, Pair(Newest + 1, z, FALSE))
       /\ UNCHANGED <<role, lastUsed, ackedSize, dest, source>>
  ELSE UNCHANGED pluginVars

\* ext_session_lock_surface_v1_handle_configure of size z
HandleConfigure(z) ==
  /\ wrong = None /\ Newest < MaxConfigures
  /\ conduct # "any" /\ display /\ ~usedFirst /\ configs # << >> => z = Size
  /\ UNCHANGED viewVars
  /\ configs' = Append(configs, z)
  /\ IF display
     THEN /\ ForwardConfigure(z)
          /\ hasNewer' = TRUE
          /\ RenderNow(hasBuffer)
          /\ IF Renders(hasBuffer) THEN Upstream(0, attached, configs')
             ELSE UNCHANGED <<lastAck, attached, content, wrong>>
          /\ UNCHANGED hasBuffer
     ELSE /\ hasNewer' = FALSE
          /\ Upstream(Newest + 1, z, configs')      \* render_fallback_surface
          /\ hasBuffer' = TRUE
          /\ RenderNow(TRUE)
          /\ UNCHANGED pluginVars
  /\ UNCHANGED <<display, usedFirst, pendingAck>>

-----------------------------------------------------------------------------
(* The plugin's requests *)

PluginRuns == wrong = None /\ display /\ configs # << >>

\* The client's objects are destroyed; client_destroyed starts another client,
\* whose serials start again.  What the surface remembers stays.
ClientReplaced ==
  /\ role' = "none" /\ serial' = 0 /\ lastUsed' = 0 /\ table' = << >> /\ ackedSize' = None
  /\ dest' = None /\ source' = None

\* wlr_layer_shell_get_layer_surface, which uses up a serial
GetLayerSurface ==
  /\ PluginRuns /\ role = "none" /\ serial < MaxSerial
  /\ role' = "layer"
  /\ lastUsed' = serial /\ serial' = serial + 1
  /\ UNCHANGED <<compVars, viewVars, ackVars, drawVars, table, ackedSize, dest, source>>

\* Mutant of FirstPair: what the predecessor left open is taken for answered.
FirstPairLocal ==
  IF ~usedFirst THEN Pair(1, Size, FALSE) ELSE Pair(0, Size, TRUE)

\* The upstream serial and the local flag of a plugin's first configure: the
\* output's own first, the newest if unacknowledged, or none to pass on.
FirstPair ==
  IF ~usedFirst THEN Pair(1, Size, FALSE)
  ELSE IF hasNewer THEN Pair(Newest, Size, FALSE)
  ELSE Pair(0, Size, TRUE)

\* nested_surface_commit before the first configure
FirstCommit ==
  /\ PluginRuns /\ role = "layer" /\ serial < MaxSerial
  /\ role' = "configured"
  /\ table' = Append(table, FirstPair)
  /\ serial' = serial + 1
  /\ usedFirst' = TRUE
  /\ UNCHANGED <<compVars, viewVars, display, hasNewer, pendingAck, drawVars, lastUsed,
                 ackedSize, dest, source>>

\* Mutant of AckConfigure: the older configures stay open.
AckConfigureKeepingOlder(i) ==
  /\ PluginRuns /\ role = "configured" /\ i \in 1..Len(table)
  /\ lastUsed' = table[i].plug
  /\ ackedSize' = table[i].size
  /\ table' = SubSeq(table, 1, i - 1) \o SubSeq(table, i + 1, Len(table))
  /\ pendingAck' = IF table[i].local THEN pendingAck ELSE table[i].up
  /\ UNCHANGED <<compVars, viewVars, display, hasNewer, usedFirst, drawVars, role, serial,
                 dest, source>>

\* zwlr_layer_surface_ack_configure of the i-th open configure.  Using it
\* discards it and the older ones; the upstream ack waits for the commit.
AckConfigure(i) ==
  /\ PluginRuns /\ role = "configured" /\ i \in 1..Len(table)
  /\ lastUsed' = table[i].plug
  /\ ackedSize' = table[i].size
  /\ table' = SubSeq(table, i + 1, Len(table))
  /\ pendingAck' = IF table[i].local THEN pendingAck ELSE table[i].up
  /\ UNCHANGED <<compVars, viewVars, display, hasNewer, usedFirst, drawVars, role, serial,
                 dest, source>>

\* apply_pending_surface_updates: a viewport that the program has changed since
\* its last commit is passed on.  The source is the one of that last commit.
ApplyViewport(d, r) ==
  /\ upDest' = IF d # dest THEN d ELSE upDest
  /\ upSource' = IF r # source THEN source ELSE upSource

\* nested_surface_commit of a buffer of size z with the viewport's destination d
\* and source r: the state is applied to the upstream surface first, then the
\* size is checked, and only a match acks and commits upstream.
Commit(z, d, r) ==
  /\ PluginRuns /\ role = "configured"
  /\ conduct = "buffers" => z = ackedSize /\ d = None /\ r = None
  /\ conduct = "viewport" => d = ackedSize /\ d # None /\ r = None
  /\ ApplyViewport(d, r)
  /\ IF SurfaceSize(z, d, r) = ackedSize
     THEN /\ dest' = d /\ source' = r
          /\ Upstream(pendingAck, z, configs)
          /\ pendingAck' = 0
          /\ hasNewer' = (hasNewer /\ pendingAck # Newest)
          /\ hasBuffer' = TRUE
          /\ UNCHANGED <<role, serial, lastUsed, table, ackedSize>>
     ELSE /\ attached' = "destroyed"
          /\ ClientReplaced
          /\ UNCHANGED <<lastAck, content, wrong, pendingAck, hasNewer, hasBuffer>>
  /\ UNCHANGED <<configs, display, usedFirst, dirty, overlay>>

\* The program exits, crashes, or is disconnected because it acknowledged a
\* serial that is not open and not the last one used.
ClientDies ==
  /\ PluginRuns
  /\ ClientReplaced
  /\ UNCHANGED <<compVars, viewVars, ackVars, drawVars>>

\* setup_clientless_mode for this surface: acknowledge and draw if nothing was
\* drawn yet, then render.  The viewport stays as the last program set it.
Clientless ==
  /\ wrong = None /\ display
  /\ UNCHANGED viewVars
  /\ display' = FALSE
  /\ ClientReplaced
  /\ IF configs = << >>
     THEN UNCHANGED <<compVars, hasNewer, drawVars>>
     ELSE /\ hasBuffer' = TRUE
          /\ hasNewer' = (hasNewer /\ hasBuffer)
          /\ RenderNow(TRUE)
          /\ IF hasBuffer
             THEN IF Renders(TRUE) THEN Upstream(0, attached, configs)
                  ELSE UNCHANGED <<lastAck, attached, content, wrong>>
             ELSE Upstream(IF hasNewer THEN Newest ELSE 0, Size, configs)
          /\ UNCHANGED configs
  /\ UNCHANGED <<usedFirst, pendingAck>>

-----------------------------------------------------------------------------
Init ==
  /\ conduct \in {"buffers", "viewport", "any"}
  /\ configs = << >> /\ lastAck = 0 /\ attached = None /\ content = None /\ wrong = None
  /\ display \in BOOLEAN
  /\ hasNewer = FALSE /\ usedFirst = FALSE /\ hasBuffer = FALSE /\ pendingAck = 0
  /\ dirty = FALSE /\ overlay = FALSE
  /\ role = "none" /\ serial = 0 /\ lastUsed = 0 /\ table = << >> /\ ackedSize = None
  /\ dest = None /\ source = None /\ upDest = None /\ upSource = None

Next ==
  /\ \/ Damage \/ OverlayFrameDone
     \/ \E z \in Sizes : HandleConfigure(z)
     \/ \E z \in Sizes, d, r \in Sizes \cup {None} : Commit(z, d, r)
     \/ GetLayerSurface \/ FirstCommit \/ ClientDies \/ Clientless
     \/ \E i \in 1..MaxSerial : AckConfigure(i)
  /\ UNCHANGED conduct

Spec == Init /\ [][Next]_vars

-----------------------------------------------------------------------------
(* Properties *)

\* swaylock never breaks the lock protocol: it acknowledges each configure at
\* most once and in order, and everything it commits, the plugin's buffers and
\* the commits render() injects for the indicator, has the acknowledged size --
\* through restarts of the program, and through the fall back too unless the
\* programs draw through viewports, if the run is orderly.
NoProtocolError ==
  conduct = "buffers" \/ (conduct = "viewport" /\ display) => wrong = None

\* The open configures are in order and newer than everything used so far, on
\* both sides; an ack waiting for its commit has not been sent; and
\* has_newer_serial says exactly whether the newest configure is unacknowledged.
SerialsOrdered ==
  /\ \A i \in 1..Len(table) :
       /\ table[i].plug > lastUsed /\ table[i].plug < serial
       /\ ~table[i].local => table[i].up > lastAck /\ table[i].up >= pendingAck
       /\ \A j \in 1..(i - 1) : table[j].plug < table[i].plug /\ table[j].up < table[i].up
  /\ display /\ pendingAck # 0 => pendingAck > lastAck
  /\ hasNewer <=> lastAck < Newest

\* The serial table is ordered against both sides, with the types.
SerialsInv == TypeOK /\ SerialsOrdered

\* A plugin that has answered every configure it was sent draws at the size the
\* output has now, through resizes at any moment and changes of the program.
AnsweredIsCurrent ==
  role = "configured" /\ table = << >> => ackedSize = Size

=============================================================================
