----------------------------- MODULE ColorDescs -----------------------------
(***************************************************************************)
(* Image descriptions (forward-client.c, forward.c).  swaylock keeps the   *)
(* compositor's description of an output, or the one it prefers for        *)
(* surfaces, fetches it anew when it changes (one request at a time, a     *)
(* dirty flag for changes meanwhile), and answers plugins from that cache. *)
(* The cached properties are reference counted; the descriptions plugins   *)
(* get, or make themselves, live until the plugin has destroyed them and   *)
(* no surface has them pending or committed.                               *)
(*                                                                         *)
(* One image_description_state is modelled.  The compositor is external.   *)
(***************************************************************************)
EXTENDS Integers, FiniteSets

CONSTANTS
  Props,       \* image_description_properties objects
  Descs,       \* forward_image_desc objects
  Surfaces,    \* the plugin's surfaces that have a color management surface
  MaxVersion,  \* bound: how often the compositor changes its description
  NULL

\* struct forward_image_desc: whether the plugin has its resource still, and the
\* cached properties, of which one that the plugin has described has none
Descriptions == [resource : BOOLEAN, props : Props \cup {NULL}]

ASSUME ColorDescsAssumption ==
  /\ MaxVersion \in Nat
  /\ IsFiniteSet(Descs) /\ NULL \notin Props \cup Descs \cup Descriptions
  \* more than can be in use: current, pending, and one for every description
  /\ IsFiniteSet(Props) /\ Cardinality(Props) >= Cardinality(Descs) + 2

VARIABLES
  kind,      \* "output": swaylock_surface.output_desc; "preferred": forward.desc_surface
  version,   \* the compositor's description
  changes,   \* its change events that have not been delivered yet
  current, pending,  \* state->current, state->pending
  dirty,     \* state->dirty
  info,      \* state->info_request # NULL
  stage,     \* of the pending request: "asked", "answered" (on its way to swaylock),
             \* "ready" (information asked for), "none"
  refs,      \* reference_count of the properties, 0 when not allocated
  of,        \* the version the properties describe, from when it is answered
  desc,      \* a description: whether the plugin has it still, its properties
  pend, comm,  \* pending.image_desc and committed.image_desc of a surface
  fault      \* "none", a failed assertion, a NULL dereference or a corrupted output

cacheVars == <<current, pending, dirty, info, stage, of>>
descVars  == <<desc, pend, comm>>
colorVars == <<kind, version, changes, cacheVars, refs, descVars, fault>>

Faults == {"assert_info", "null", "corrupted"}

DescsTypeOK ==
  /\ kind \in {"output", "preferred"}
  /\ version \in 0 .. MaxVersion /\ changes \in 0 .. MaxVersion
  /\ current \in Props \cup {NULL} /\ pending \in Props \cup {NULL}
  /\ dirty \in BOOLEAN /\ info \in BOOLEAN
  /\ stage \in {"asked", "answered", "ready", "none"} /\ (stage = "none" <=> pending = NULL)
  /\ refs \in [Props -> 0 .. Cardinality(Descs) + 1]
  /\ of \in [Props -> 0 .. MaxVersion]
  /\ desc \in [Descs -> Descriptions \cup {NULL}]
  /\ pend \in [Surfaces -> Descs \cup {NULL}] /\ comm \in [Surfaces -> Descs \cup {NULL}]
  /\ fault \in Faults \cup {"none"}

Sound == fault = "none"

-----------------------------------------------------------------------------
(* The cache *)

\* The compositor changes its description and says so.
CompositorChanges ==
  /\ Sound /\ version < MaxVersion
  /\ version' = version + 1 /\ changes' = changes + 1
  /\ UNCHANGED <<cacheVars, refs, descVars, fault>>

\* It answers the request with what its description is now: swaylock hears of it
\* later, when the description may have changed again.
CompositorAnswers ==
  /\ Sound /\ stage = "asked"
  /\ stage' = "answered"
  /\ of' = [of EXCEPT ![pending] = version]
  /\ UNCHANGED <<version, changes, current, pending, dirty, info, refs, descVars, fault>>

\* request_new_image_desc, with the properties counted in r
RequestNew(r) ==
  /\ dirty' = FALSE
  /\ IF info
     THEN fault' = "assert_info" /\ pending' = NULL /\ stage' = "none" /\ refs' = r
     ELSE /\ pending' = CHOOSE p \in Props : r[p] = 0
          /\ stage' = "asked"
          /\ refs' = [r EXCEPT ![pending'] = 1]
          /\ UNCHANGED fault

\* A mutant: a change during a request is taken to be covered by it.
PreferredChangedIgnored ==
  /\ Sound /\ kind = "preferred" /\ changes > 0
  /\ changes' = changes - 1
  /\ IF pending # NULL
     THEN UNCHANGED <<dirty, pending, stage, refs, fault>>
     ELSE RequestNew(refs)
  /\ UNCHANGED <<version, current, info, of, descVars>>

\* color_feedback_handle_preferred_changed
PreferredChanged ==
  /\ Sound /\ kind = "preferred" /\ changes > 0
  /\ changes' = changes - 1
  /\ IF pending # NULL
     THEN dirty' = TRUE /\ UNCHANGED <<pending, stage, refs, fault>>
     ELSE RequestNew(refs)
  /\ UNCHANGED <<version, current, info, of, descVars>>

\* color_output_handle_image_desc_changed: its listener was added with the
\* swaylock_surface, which the handler takes for the image_description_state.
\* The output's wl_output is read as the pending request, and its state
\* pointer is written to.
OutputChanged ==
  /\ Sound /\ kind = "output" /\ changes > 0
  /\ changes' = changes - 1
  /\ fault' = "corrupted"
  /\ UNCHANGED <<version, cacheVars, refs, descVars>>

\* unref_image_description_props
Unref(p, r) == IF p = NULL THEN r ELSE [r EXCEPT ![p] = @ - 1]

\* The pending properties become current, and are asked for again if they
\* have changed meanwhile.
Publish ==
  /\ current' = pending
  /\ IF dirty
     THEN RequestNew(Unref(current, refs))
     ELSE /\ pending' = NULL /\ stage' = "none"
          /\ refs' = Unref(current, refs)
          /\ UNCHANGED <<dirty, fault>>

\* image_desc_handle_ready, ready2.  Its assertion that no information has been
\* asked for is the one request_new_image_desc made before.
HandleReady ==
  /\ Sound /\ stage = "answered"
  /\ info' = TRUE /\ stage' = "ready"
  /\ UNCHANGED <<version, changes, current, pending, dirty, of, refs, descVars, fault>>

\* image_desc_info_handle_done, after the information events, which fill the
\* pending properties.  info_request is left set.
InfoHandleDone ==
  /\ Sound /\ stage = "ready"
  /\ Publish
  /\ UNCHANGED <<version, changes, info, of, descVars>>

\* image_desc_handle_failed
HandleFailed ==
  /\ Sound /\ stage = "answered"
  /\ Publish
  /\ UNCHANGED <<version, changes, info, of, descVars>>

-----------------------------------------------------------------------------
(* The plugin's descriptions *)

\* create_output_image_desc, from get_image_description or get_preferred.  An
\* output is announced to plugins only once it has a description.
GetDescription(d) ==
  /\ Sound /\ desc[d] = NULL
  /\ kind = "output" => current # NULL
  /\ IF current = NULL
     THEN fault' = "null" /\ UNCHANGED <<desc, refs>>
     ELSE /\ desc' = [desc EXCEPT ![d] = [resource |-> TRUE, props |-> current]]
          /\ refs' = [refs EXCEPT ![current] = @ + 1]
          /\ UNCHANGED fault
  /\ UNCHANGED <<version, changes, cacheVars, pend, comm>>

\* create_forward_image_desc: one the plugin has described itself
CreateDescription(d) ==
  /\ Sound /\ desc[d] = NULL
  /\ desc' = [desc EXCEPT ![d] = [resource |-> TRUE, props |-> NULL]]
  /\ UNCHANGED <<version, changes, cacheVars, refs, pend, comm, fault>>

\* A mutant: a pending description does not count.
UnreferencedIfNotCommitted(d, de, pe, co) ==
  /\ d # NULL /\ ~de[d].resource
  /\ \A s \in Surfaces : co[s] # d

\* The test of delete_image_desc_if_unreferenced.
Unreferenced(d, de, pe, co) ==
  /\ d # NULL /\ ~de[d].resource
  /\ \A s \in Surfaces : pe[s] # d /\ co[s] # d

\* delete_image_desc_if_unreferenced, for the descriptions in D
Collect(D, de, pe, co) ==
  LET gone == {d \in D : Unreferenced(d, de, pe, co)}
  IN  /\ desc' = [d \in Descs |-> IF d \in gone THEN NULL ELSE de[d]]
      /\ refs' = [p \in Props |-> refs[p] - Cardinality({d \in gone : de[d].props = p})]
      /\ pend' = pe /\ comm' = co

\* image_desc_handle_resource_destroy
DestroyDescription(d) ==
  /\ Sound /\ desc[d] # NULL /\ desc[d].resource
  /\ Collect({d}, [desc EXCEPT ![d].resource = FALSE], pend, comm)
  /\ UNCHANGED <<version, changes, cacheVars, fault>>

\* nested_color_surface_set_image_desc
SetImageDesc(s, d) ==
  /\ Sound /\ desc[d] # NULL /\ desc[d].resource
  /\ Collect({pend[s]}, desc, [pend EXCEPT ![s] = d], comm)
  /\ UNCHANGED <<version, changes, cacheVars, fault>>

\* nested_color_surface_unset_image_desc, also when the color surface goes
UnsetImageDesc(s) ==
  /\ Sound /\ pend[s] # NULL
  /\ Collect({pend[s]}, desc, [pend EXCEPT ![s] = NULL], comm)
  /\ UNCHANGED <<version, changes, cacheVars, fault>>

\* apply_pending_surface_updates
CommitImageDesc(s) ==
  /\ Sound /\ comm[s] # pend[s]
  /\ Collect({comm[s]}, desc, pend, [comm EXCEPT ![s] = pend[s]])
  /\ UNCHANGED <<version, changes, cacheVars, fault>>

\* surface_handle_resource_destroy
DropSurface(s) ==
  /\ Sound /\ (pend[s] # NULL \/ comm[s] # NULL)
  /\ Collect({pend[s], comm[s]}, desc, [pend EXCEPT ![s] = NULL], [comm EXCEPT ![s] = NULL])
  /\ UNCHANGED <<version, changes, cacheVars, fault>>

-----------------------------------------------------------------------------
\* The first request is made when the output is bound, or by main.
DescsInit ==
  /\ kind \in {"output", "preferred"}
  /\ version = 0 /\ changes = 0
  /\ current = NULL /\ dirty = FALSE /\ info = FALSE
  /\ pending = (CHOOSE p \in Props : TRUE) /\ stage = "asked"
  /\ refs = [p \in Props |-> IF p = pending THEN 1 ELSE 0]
  /\ of = [p \in Props |-> 0]
  /\ desc = [d \in Descs |-> NULL]
  /\ pend = [s \in Surfaces |-> NULL] /\ comm = [s \in Surfaces |-> NULL]
  /\ fault = "none"

DescsNext ==
  /\ \/ CompositorChanges \/ CompositorAnswers \/ PreferredChanged \/ OutputChanged
     \/ HandleReady \/ InfoHandleDone \/ HandleFailed
     \/ \E d \in Descs : GetDescription(d) \/ CreateDescription(d) \/ DestroyDescription(d)
     \/ \E s \in Surfaces, d \in Descs : SetImageDesc(s, d)
     \/ \E s \in Surfaces : UnsetImageDesc(s) \/ CommitImageDesc(s) \/ DropSurface(s)
  /\ UNCHANGED kind

DescsSpec == DescsInit /\ [][DescsNext]_colorVars

-----------------------------------------------------------------------------
One(b) == IF b THEN 1 ELSE 0

\* The reference count of the properties is the number of their holders: the
\* cache's two pointers and the plugins' descriptions.
RefsExact ==
  Sound => \A p \in Props :
    refs[p] = One(current = p) + One(pending = p)
                + Cardinality({d \in Descs : desc[d] # NULL /\ desc[d].props = p})

\* No description a surface has pending or committed has been freed, so what a
\* commit sends upstream exists.
DescsLive ==
  Sound => \A s \in Surfaces :
    /\ pend[s] # NULL => desc[pend[s]] # NULL
    /\ comm[s] # NULL => desc[comm[s]] # NULL

\* A description is freed when the plugin has destroyed it and no surface uses
\* it any more.
NoDescLeak ==
  Sound => \A d \in Descs : desc[d] # NULL =>
    desc[d].resource \/ \E s \in Surfaces : pend[s] = d \/ comm[s] = d

\* Cached properties live exactly as long as they are counted, and descriptions
\* exactly as long as their resource or a surface uses them.
DescsInv == DescsTypeOK /\ RefsExact /\ DescsLive /\ NoDescLeak

\* No change of the compositor's description is lost between the requests: an
\* outdated cache has the change announced, asked for, or marked dirty.
NoChangeLost ==
  Sound /\ current # NULL /\ of[current] # version =>
    \/ changes > 0
    \/ stage = "asked"
    \/ pending # NULL /\ (dirty \/ of[pending] = version)

=============================================================================
