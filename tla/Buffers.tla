------------------------------ MODULE Buffers ------------------------------
(***************************************************************************)
(* The wl_buffers of a plugin client and the surfaces they are attached to *)
(* (forward.c).  A forward_buffer is freed when the plugin has destroyed   *)
(* its resource and no surface has it pending; surfaces hold plain         *)
(* pointers to it and are found through two intrusive lists, which the     *)
(* handlers keep by hand.                                                  *)
(***************************************************************************)
EXTENDS Naturals

CONSTANTS
  Buffers,      \* forward_buffer objects
  Surfaces,     \* forward_surface objects
  Layer,        \* the one that may become a layer surface, the others subsurfaces
  None, Committed, Unreachable    \* NULL, BUFFER_COMMITTED, BUFFER_UNREACHABLE

ASSUME BuffersAssumption ==
  /\ Layer \in Surfaces
  /\ {None, Committed, Unreachable} \cap Buffers = {}
  /\ None # Committed /\ None # Unreachable /\ Committed # Unreachable

\* What a plugin may do that a well-behaved one does not: destroy a buffer
\* between its attach and the next commit of that surface; attach NULL; attach
\* to the layer surface before its first configure.
Rudeness == {"early_destroy", "null_attach", "early_attach"}

VARIABLES
  params,    \* a zwp_linux_buffer_params_v1 of the plugin: "none", "open", "asked" or "used"
  rude,      \* {} for a well-behaved plugin, else Rudeness
  resource,  \* the buffers the plugin still has: buffer->resource # NULL
  memory,    \* the buffers that are allocated
  alive,     \* the surfaces that exist
  role,      \* of a surface: "none", "set", or "lost": inert, for good
  configured, \* has_been_configured: the layer surface has had its first commit
  pending,   \* surface->pending.attachment
  committed, \* surface->committed.attachment
  pendLinks, \* buffer->pending_surfaces
  commLinks, \* buffer->committed_surfaces
  unsent,    \* history: surfaces with a buffer attached since their last commit
  missed,    \* history: surfaces that had a buffer pending in a commit without
             \* effect, and none in one with effect since
  leaving,   \* the client is being destroyed: only destructors run
  crash      \* None, a failed assertion, or a NULL dereference

bufferVars  == <<resource, memory, pendLinks, commLinks>>
surfaceVars == <<alive, role, configured, pending, committed, unsent, missed>>
vars == <<rude, params, bufferVars, surfaceVars, leaving, crash>>

Crashes == {"assert_attach", "assert_commit", "assert_first", "assert_surface", "null"}

TypeOK ==
  /\ rude \in {{}, Rudeness}
  /\ params \in {"none", "open", "asked", "used"}
  /\ resource \subseteq memory /\ memory \subseteq Buffers
  /\ alive \subseteq Surfaces /\ configured \in BOOLEAN
  /\ role \in [Surfaces -> {"none", "set", "lost"}]
  /\ unsent \subseteq alive /\ missed \subseteq alive
  /\ pending \in [Surfaces -> Buffers \cup {None, Committed}]
  /\ committed \in [Surfaces -> Buffers \cup {None, Unreachable}]
  /\ pendLinks \in [Buffers -> SUBSET Surfaces]
  /\ commLinks \in [Buffers -> SUBSET Surfaces]
  /\ leaving \in BOOLEAN
  /\ crash \in Crashes \cup {None}

-----------------------------------------------------------------------------
Served == crash = None /\ ~leaving

\* make_buffer: neither pending nor committed anywhere
MakeBuffer(b) ==
  /\ b \notin memory
  /\ memory' = memory \cup {b} /\ resource' = resource \cup {b}
  /\ UNCHANGED <<pendLinks, commLinks, surfaceVars, leaving, crash>>

\* nested_shm_pool_create_buffer
CreateShmBuffer(b) == Served /\ MakeBuffer(b) /\ UNCHANGED params

\* nested_linux_dmabuf_create_params
CreateParams ==
  /\ Served /\ params = "none" /\ params' = "open"
  /\ UNCHANGED <<bufferVars, surfaceVars, leaving, crash>>

\* nested_dmabuf_params_create_immed; the parameters can be used once
CreateImmed(b) ==
  /\ Served /\ params = "open" /\ params' = "used"
  /\ MakeBuffer(b)

\* nested_dmabuf_params_create: the compositor is asked
AskBuffer ==
  /\ Served /\ params = "open" /\ params' = "asked"
  /\ UNCHANGED <<bufferVars, surfaceVars, leaving, crash>>

\* handle_dmabuf_params_created: the answer makes a buffer the program did not
\* name.  There is none once the parameters are destroyed.
ParamsCreated(b) ==
  /\ Served /\ params = "asked" /\ params' = "used"
  /\ MakeBuffer(b)

\* handle_dmabuf_params_failed
ParamsFailed ==
  /\ Served /\ params = "asked" /\ params' = "used"
  /\ UNCHANGED <<bufferVars, surfaceVars, leaving, crash>>

\* linux_dmabuf_params_handle_resource_destroy, also while the client goes
DestroyParams ==
  /\ crash = None /\ params # "none" /\ params' = "none"
  /\ UNCHANGED <<bufferVars, surfaceVars, leaving, crash>>

\* compositor_create_surface
CreateSurface(s) ==
  /\ Served /\ s \notin alive
  /\ alive' = alive \cup {s}
  /\ UNCHANGED <<bufferVars, role, configured, pending, committed, unsent, missed, leaving, crash>>

\* wlr_layer_shell_get_layer_surface, subcompositor_get_subsurface
GetRole(s) ==
  /\ Served /\ s \in alive /\ role[s] = "none"
  /\ role' = [role EXCEPT ![s] = "set"]
  /\ UNCHANGED <<bufferVars, alive, configured, pending, committed, unsent, missed, leaving, crash>>

\* The output of a layer surface goes (destroy_surface), or the plugin destroys
\* the wl_subsurface (destroy_subsurface_parts): the surface is inert.
LoseRole(s) ==
  /\ Served /\ s \in alive /\ role[s] = "set"
  /\ role' = [role EXCEPT ![s] = "lost"]
  /\ UNCHANGED <<bufferVars, alive, configured, pending, committed, unsent, missed, leaving, crash>>

Unlink(links, b, s) == [links EXCEPT ![b] = @ \ {s}]
Link(links, b, s)   == [links EXCEPT ![b] = @ \cup {s}]

\* The lists once surface s has lost its pending buffer.
Unpended(s) == IF pending[s] \in Buffers THEN Unlink(pendLinks, pending[s], s) ELSE pendLinks

\* The buffer that nested_surface_attach drops for good: destroyed by the
\* plugin, and pending nowhere else.
Dropped(s) == {b \in Buffers : b = pending[s] /\ b \notin resource /\ Unpended(s)[b] = {}}

\* nested_surface_attach of b
Attach(s, b) ==
  /\ Served /\ s \in alive /\ b \in resource /\ pending[s] # b
  /\ s = Layer /\ ~configured => "early_attach" \in rude
  /\ IF \E d \in Dropped(s) : commLinks[d] # {}
     THEN crash' = "assert_attach" /\ UNCHANGED <<bufferVars, surfaceVars>>
     ELSE /\ memory' = memory \ Dropped(s)
          /\ pendLinks' = Link(Unpended(s), b, s)
          /\ pending' = [pending EXCEPT ![s] = b]
          /\ unsent' = unsent \cup {s}
          /\ UNCHANGED <<resource, commLinks, alive, role, configured, committed, missed, crash>>
  /\ UNCHANGED leaving

\* nested_surface_attach of NULL over another pending buffer: the list of the
\* NULL buffer is used.
AttachNull(s) ==
  /\ Served /\ "null_attach" \in rude /\ s \in alive /\ pending[s] # None
  /\ crash' = "null"
  /\ UNCHANGED <<bufferVars, surfaceVars, leaving>>

\* The first nested_surface_commit of the layer surface, which is answered
\* with a configure and not forwarded.
FirstCommit ==
  /\ Served /\ Layer \in alive /\ role[Layer] = "set" /\ ~configured
  /\ configured' = TRUE
  /\ crash' = IF pending[Layer] = None THEN None ELSE "assert_first"
  /\ UNCHANGED <<bufferVars, alive, role, pending, committed, unsent, missed, leaving>>

\* nested_surface_commit of a surface that is inert or has no role yet: the
\* buffer stays pending.
CommitIgnored(s) ==
  /\ Served /\ s \in alive /\ role[s] # "set" /\ pending[s] \in Buffers
  /\ unsent' = unsent \ {s} /\ missed' = missed \cup {s}
  /\ UNCHANGED <<bufferVars, alive, role, configured, pending, committed, leaving, crash>>

\* nested_surface_commit and apply_pending_surface_updates of a layer surface,
\* once it is configured, or of a subsurface.  With nothing attached yet, or the
\* committed buffer destroyed and none attached since, nothing changes.
Commit(s) ==
  /\ Served /\ s \in alive /\ role[s] = "set" /\ pending[s] \in Buffers
  /\ s = Layer => configured
  /\ IF committed[s] \in Buffers \ resource
     THEN crash' = "assert_commit" /\ UNCHANGED <<commLinks, committed, unsent, missed>>
     ELSE /\ committed' = [committed EXCEPT ![s] = pending[s]]
          /\ commLinks' = [b \in Buffers |->
               IF b = pending[s] THEN commLinks[b] \cup {s} ELSE commLinks[b] \ {s}]
          /\ unsent' = unsent \ {s}
          /\ missed' = IF pending[s] \in resource THEN missed \ {s} ELSE missed
          /\ UNCHANGED crash
  /\ UNCHANGED <<resource, memory, pendLinks, alive, role, configured, pending, leaving>>

-----------------------------------------------------------------------------
(* Destructors: at the plugin's request, or when its client is destroyed *)

\* A well-behaved plugin destroys a buffer only after committing it wherever it
\* is attached.  wl_client_destroy, which goes by the ids of the resources,
\* does not know what is attached where.
MayDestroy(b) ==
  \/ "early_destroy" \in rude \/ leaving
  \/ \A s \in pendLinks[b] \cap unsent : committed[s] = b

\* A mutant: the surfaces that have the buffer pending are forgotten.
DestroyBufferFreeing(b) ==
  /\ crash = None /\ b \in resource /\ MayDestroy(b)
  /\ committed' = [s \in Surfaces |-> IF s \in commLinks[b] THEN Unreachable ELSE committed[s]]
  /\ commLinks' = [commLinks EXCEPT ![b] = {}]
  /\ memory' = memory \ {b} /\ resource' = resource \ {b}
  /\ UNCHANGED <<pendLinks, pending, alive, role, configured, unsent, missed, leaving, crash>>

\* A mutant: a buffer that is pending somewhere is only marked, and stays the
\* committed one of its surfaces.
DestroyBufferKept(b) ==
  /\ crash = None /\ b \in resource /\ MayDestroy(b)
  /\ committed' = [s \in Surfaces |->
       IF s \in commLinks[b] /\ pendLinks[b] = {} THEN Unreachable ELSE committed[s]]
  /\ commLinks' = [commLinks EXCEPT ![b] = IF pendLinks[b] = {} THEN {} ELSE @]
  /\ memory' = IF pendLinks[b] = {} THEN memory \ {b} ELSE memory
  /\ resource' = resource \ {b}
  /\ UNCHANGED <<pendLinks, pending, alive, role, configured, unsent, missed, leaving, crash>>

\* buffer_handle_resource_destroy
DestroyBuffer(b) ==
  /\ crash = None /\ b \in resource /\ MayDestroy(b)
  /\ LET both == {s \in commLinks[b] : pending[s] = committed[s]}
     IN  /\ pending' = [s \in Surfaces |-> IF s \in both THEN Committed ELSE pending[s]]
         /\ committed' = [s \in Surfaces |->
              IF s \in commLinks[b] THEN Unreachable ELSE committed[s]]
         /\ pendLinks' = [pendLinks EXCEPT ![b] = @ \ both]
         /\ commLinks' = [commLinks EXCEPT ![b] = {}]
         /\ memory' = IF pendLinks[b] \subseteq both THEN memory \ {b} ELSE memory
         /\ unsent' = unsent \ both
  /\ resource' = resource \ {b}
  /\ UNCHANGED <<alive, role, configured, missed, leaving, crash>>

\* surface_handle_resource_destroy
DestroySurface(s) ==
  /\ crash = None /\ s \in alive
  /\ IF pending[s] \in Buffers \ resource \/ committed[s] \in Buffers \ resource
     THEN crash' = "assert_surface" /\ UNCHANGED <<pendLinks, commLinks, surfaceVars>>
     ELSE /\ alive' = alive \ {s}
          /\ pendLinks' = Unpended(s)
          /\ commLinks' = [b \in Buffers |-> commLinks[b] \ {s}]
          /\ pending' = [pending EXCEPT ![s] = None]
          /\ committed' = [committed EXCEPT ![s] = None]
          /\ role' = [role EXCEPT ![s] = "none"]
          /\ configured' = (configured /\ s # Layer)
          /\ unsent' = unsent \ {s} /\ missed' = missed \ {s}
          /\ UNCHANGED crash
  /\ UNCHANGED <<resource, memory, leaving>>

\* wl_client_destroy: every resource is destroyed, in the order of their ids,
\* which is any order, as ids are used again; then a new client starts.
ClientGoes ==
  /\ Served
  /\ leaving' = TRUE
  /\ UNCHANGED <<bufferVars, surfaceVars, crash>>

ClientGone ==
  /\ crash = None /\ leaving /\ alive = {} /\ resource = {} /\ params = "none"
  /\ leaving' = FALSE
  /\ UNCHANGED <<bufferVars, surfaceVars, crash>>

-----------------------------------------------------------------------------
Init ==
  /\ rude \in {{}, Rudeness} /\ params = "none"
  /\ resource = {} /\ memory = {} /\ alive = {}
  /\ pending = [s \in Surfaces |-> None] /\ committed = [s \in Surfaces |-> None]
  /\ pendLinks = [b \in Buffers |-> {}] /\ commLinks = [b \in Buffers |-> {}]
  /\ role = [s \in Surfaces |-> "none"] /\ unsent = {} /\ missed = {}
  /\ configured = FALSE /\ leaving = FALSE /\ crash = None

Next ==
  /\ \/ /\ \/ \E b \in Buffers : DestroyBuffer(b)
           \/ \E s \in Surfaces : \/ CreateSurface(s) \/ GetRole(s) \/ LoseRole(s)
                                 \/ AttachNull(s) \/ CommitIgnored(s) \/ Commit(s)
                                 \/ DestroySurface(s)
           \/ \E s \in Surfaces, b \in Buffers : Attach(s, b)
           \/ FirstCommit \/ ClientGoes \/ ClientGone
        /\ UNCHANGED params
     \/ \E b \in Buffers : CreateShmBuffer(b) \/ CreateImmed(b) \/ ParamsCreated(b)
     \/ CreateParams \/ AskBuffer \/ ParamsFailed \/ DestroyParams
  /\ UNCHANGED rude

Spec == Init /\ [][Next]_vars

-----------------------------------------------------------------------------
\* The two lists of every buffer are exactly the surfaces that point to it, and
\* no surface, pending or committed, points to a freed buffer.
LinksAgree ==
  crash = None =>
    \A s \in Surfaces, b \in Buffers :
      /\ s \in pendLinks[b] <=> pending[s] = b
      /\ s \in commLinks[b] <=> committed[s] = b
      /\ pending[s] = b \/ committed[s] = b => b \in memory /\ s \in alive

\* A buffer the plugin has destroyed and no surface has pending is freed.
NoLeak == crash = None => \A b \in memory : b \in resource \/ pendLinks[b] # {}

\* What the two lists find is what is referenced, and exactly the buffers in use
\* are allocated, whatever the plugin does until the locker is stopped.
BuffersInv == TypeOK /\ LinksAgree /\ NoLeak

\* The surfaces that point to a buffer the plugin has destroyed.
Dangling == {s \in Surfaces : {pending[s], committed[s]} \cap (Buffers \ resource) # {}}

\* The assertions of attach, commit and the surface's destructor fail only over
\* a surface that points to a destroyed buffer.  However a well-behaved plugin
\* shares, attaches again and destroys buffers, only a surface of which a commit
\* was ignored gets into that state, or, once the plugin is disconnected, one
\* whose last attach was not committed yet.
HandlersSafe ==
  rude = {} =>
    /\ Dangling \subseteq missed \cup (IF leaving THEN unsent ELSE {})
    /\ crash # None => Dangling # {}

=============================================================================
