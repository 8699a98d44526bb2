---------------------------- MODULE Subsurfaces ----------------------------
(***************************************************************************)
(* The subsurfaces of a plugin's layer surface (forward.c).  The plugin    *)
(* orders its subsurfaces around their parent in pending lists; a commit   *)
(* of the parent copies the order to the committed lists and repeats it    *)
(* upstream, where the locker's own indicator is one more subsurface of    *)
(* the same background surface.  Surfaces, list heads and resources point  *)
(* to each other with plain pointers; the lists are written bottom to top. *)
(* Positions and the sync mode are left out, and the output stays.         *)
(***************************************************************************)
EXTENDS Naturals, Sequences, FiniteSets, SequencesExt

CONSTANTS
  Surfaces,     \* forward_surface objects
  Layer,        \* the one that has the layer-surface role
  Bg, Indicator, \* the locker's background surface and its indicator, upstream
  NULL

ASSUME SubsurfacesAssumption ==
  /\ Layer \in Surfaces /\ IsFiniteSet(Surfaces)
  /\ {Bg, Indicator, NULL} \cap Surfaces = {} /\ Bg # Indicator

\* What a plugin may ask for that the handlers are not ready for: destroy a
\* wl_subsurface before its wl_surface; destroy a parent before its subsurfaces;
\* give a subsurface subsurfaces; use a wl_subsurface that has lost its surface;
\* place a subsurface next to itself.
Oddities == {"sub_first", "parent_first", "nested", "orphan_use", "self_place"}

VARIABLES
  odd,      \* {} or Oddities
  alive,    \* the surfaces that are allocated
  parent,   \* surface->subsurface_parent, which may have been freed
  handle,   \* surface->subsurface: no resource, a live one, or a freed one
  orphans,  \* the wl_subsurface resources whose user data is NULL
  inert,    \* surface->inert
  above, below,   \* surface->pending.subsurfaces_above, _below
  cabove, cbelow, \* the same of surface->committed
  ext,      \* the surfaces that have an ext_subsurface
  stack,    \* the children of the background surface as upstream stacks them
  left,     \* history: the surfaces freed while they had subsurfaces
  leaving,  \* the client is being destroyed: only destructors run
  crash     \* NULL, or the invalid access the locker has made

links == <<above, below, cabove, cbelow>>
subsVars  == <<odd, alive, parent, handle, orphans, inert, links, ext, stack, left, leaving, crash>>

Crashes == {"freed_parent", "freed_list", "freed_handle", "null_nested", "null_orphan", "assert_self"}

ASSUME CrashesAssumption == NULL \notin Crashes

NoRepeat(s) == IsInjective(s)

SubsTypeOK ==
  /\ odd \in {{}, Oddities}
  /\ alive \subseteq Surfaces /\ orphans \subseteq Surfaces
  /\ inert \subseteq alive /\ ext \subseteq alive
  /\ parent \in [Surfaces -> Surfaces \cup {NULL}]
  /\ handle \in [Surfaces -> {"none", "live", "freed"}]
  /\ \A l \in {above, below, cabove, cbelow} :
       l \in [Surfaces -> Seq(Surfaces)] /\ \A s \in Surfaces : NoRepeat(l[s])
  /\ stack \in Seq(ext \cup {Bg, Indicator}) /\ NoRepeat(stack)
  /\ ToSet(stack) = ext \cup {Bg, Indicator}
  /\ left \subseteq Surfaces /\ leaving \in BOOLEAN
  /\ crash \in Crashes \cup {NULL}

-----------------------------------------------------------------------------
Served == crash = NULL /\ ~leaving

Children(p) == {c \in Surfaces : parent[c] = p}

IndexOf(s, e) == CHOOSE i \in 1 .. Len(s) : s[i] = e

\* An element, if it is there, has one link in a list, which is taken out.
Without(s, e) == IF Contains(s, e) THEN RemoveAt(s, IndexOf(s, e)) ELSE s

\* wl_subsurface_place_above and _place_below, as the compositor does them
PlacedAbove(s, e, ref) == LET r == Without(s, e) IN InsertAt(r, IndexOf(r, ref) + 1, e)
PlacedBelow(s, e, ref) == LET r == Without(s, e) IN InsertAt(r, IndexOf(r, ref), e)

\* The surface at the end of the chain of parents, or NULL when the chain
\* leads through a freed surface; n bounds the walk, which Acyclic shows to end.
RootAt[n \in 0 .. Cardinality(Surfaces)] ==
  [s \in Surfaces |->
    IF parent[s] = NULL \/ n = 0 THEN s
    ELSE IF parent[s] \notin alive THEN NULL
    ELSE RootAt[n - 1][parent[s]]]

Root(s) == RootAt[Cardinality(Surfaces)][s]

-----------------------------------------------------------------------------
(* Requests *)

\* compositor_create_surface; the layer surface then gets its role
CreateSurface(s) ==
  /\ Served /\ s \notin alive \cup orphans /\ Children(s) = {}
  /\ alive' = alive \cup {s}
  /\ UNCHANGED <<parent, handle, orphans, inert, links, ext, stack, left, leaving, crash>>

\* subcompositor_get_subsurface that is not refused
GetSubsurface(c, p) ==
  /\ Served /\ {c, p} \subseteq alive /\ c # Layer /\ parent[c] = NULL
  /\ p = Layer \/ "nested" \in odd
  /\ Root(p) # c
  /\ IF Root(p) = NULL
     THEN crash' = "freed_parent" /\ UNCHANGED <<handle, parent, above>>
     ELSE /\ handle' = [handle EXCEPT ![c] = "live"]
          /\ parent' = [parent EXCEPT ![c] = p]
          /\ above' = [above EXCEPT ![p] = Append(@, c)]
          /\ UNCHANGED crash
  /\ UNCHANGED <<alive, orphans, inert, below, cabove, cbelow, ext, stack, left, leaving>>

\* Unlinking s from a list whose head went with its parent: only an element in
\* the middle has no link to the head.
TouchesHead(l, s) == l # <<>> /\ s \in {Head(l), Last(l)}
FreedList(s) ==
  /\ parent[s] \notin alive \cup {NULL}
  /\ \E l \in {above, below, cabove, cbelow} : TouchesHead(l[parent[s]], s)
FreedPending(s) ==
  /\ parent[s] \notin alive
  /\ \E l \in {above, below} : TouchesHead(l[parent[s]], s)

\* nested_subsurface_place_above of s over its parent or a sibling.  Beside the
\* last sibling s is linked to the head of the list.
PlaceAbove(s, sib) ==
  /\ Served /\ handle[s] = "live" /\ sib \in alive \ {s}
  /\ parent[s] # NULL /\ s \notin inert
  /\ sib = parent[s] \/ parent[sib] = parent[s]
  /\ LET p == parent[s]
         a == Without(above[p], s)
         b == Without(below[p], s)
     IN  IF FreedPending(s) \/ (p \notin alive /\ \E l \in {a, b} : l # <<>> /\ sib = Last(l))
         THEN crash' = "freed_list" /\ UNCHANGED <<above, below>>
         ELSE /\ above' = [above EXCEPT ![p] =
                   IF sib = p THEN <<s>> \o a
                   ELSE IF Contains(a, sib) THEN InsertAt(a, IndexOf(a, sib) + 1, s) ELSE a]
              /\ below' = [below EXCEPT ![p] =
                   IF Contains(b, sib) THEN InsertAt(b, IndexOf(b, sib) + 1, s) ELSE b]
              /\ UNCHANGED crash
  /\ UNCHANGED <<alive, parent, handle, orphans, inert, cabove, cbelow, ext, stack, left, leaving>>

\* nested_subsurface_place_below of s under its parent or a sibling, of which the
\* first is linked to the head of the list
PlaceBelow(s, sib) ==
  /\ Served /\ handle[s] = "live" /\ sib \in alive \ {s}
  /\ parent[s] # NULL /\ s \notin inert
  /\ sib = parent[s] \/ parent[sib] = parent[s]
  /\ LET p == parent[s]
         a == Without(above[p], s)
         b == Without(below[p], s)
     IN  IF FreedPending(s) \/ (p \notin alive /\ \E l \in {a, b} : l # <<>> /\ sib = Head(l))
         THEN crash' = "freed_list" /\ UNCHANGED <<above, below>>
         ELSE /\ above' = [above EXCEPT ![p] =
                   IF Contains(a, sib) THEN InsertAt(a, IndexOf(a, sib), s) ELSE a]
              /\ below' = [below EXCEPT ![p] =
                   IF sib = p THEN Append(b, s)
                   ELSE IF Contains(b, sib) THEN InsertAt(b, IndexOf(b, sib), s) ELSE b]
              /\ UNCHANGED crash
  /\ UNCHANGED <<alive, parent, handle, orphans, inert, cabove, cbelow, ext, stack, left, leaving>>

\* Either of the two with s itself as the sibling: an assertion, not an error.
PlaceBySelf(s) ==
  /\ Served /\ "self_place" \in odd /\ handle[s] = "live"
  /\ crash' = "assert_self"
  /\ UNCHANGED <<alive, parent, handle, orphans, inert, links, ext, stack, left, leaving>>

\* Any request on a wl_subsurface that has lost its surface.
UseOrphan(s) ==
  /\ Served /\ "orphan_use" \in odd /\ s \in orphans
  /\ crash' = "null_orphan"
  /\ UNCHANGED <<alive, parent, handle, orphans, inert, links, ext, stack, left, leaving>>

\* What a commit sends upstream: each subsurface is created on top if it is
\* not there yet, and placed next to the one before it, the first to the
\* background.
Placed(st, s) == IF Contains(st, s) THEN st ELSE Append(st, s)
Before(l, k) == IF k = 1 THEN Bg ELSE l[k - 1]

StackAbove(st, l) ==
  LET after[k \in 0 .. Len(l)] ==
        IF k = 0 THEN st ELSE PlacedAbove(Placed(after[k - 1], l[k]), l[k], Before(l, k))
  IN  after[Len(l)]

StackedBelow(st, l) ==
  LET after[k \in 0 .. Len(l)] ==
        IF k = 0 THEN st ELSE PlacedBelow(Placed(after[k - 1], l[k]), l[k], Before(l, k))
  IN  after[Len(l)]

\* A mutant: the lower subsurfaces are walked in the order of the upper ones.
StackBelowForward(st, l) == StackedBelow(st, l)

StackBelow(st, l) == StackedBelow(st, Reverse(l))

\* nested_surface_commit of the layer surface, once it has a buffer
CommitLayer ==
  /\ Served /\ Layer \in alive
  /\ cabove' = [cabove EXCEPT ![Layer] = above[Layer]]
  /\ cbelow' = [cbelow EXCEPT ![Layer] = below[Layer]]
  /\ ext' = ext \cup Children(Layer)
  /\ stack' = StackBelow(StackAbove(stack, above[Layer]), below[Layer])
  /\ UNCHANGED <<alive, parent, handle, orphans, inert, above, below, left, leaving, crash>>

\* nested_surface_commit of a subsurface that has subsurfaces: they are to be
\* created under its sway_surface, which only the layer surface has.
CommitNested(s) ==
  /\ Served /\ s \in alive \ inert /\ parent[s] # NULL
  /\ above[s] \o below[s] # <<>>
  /\ crash' = "null_nested"
  /\ UNCHANGED <<alive, parent, handle, orphans, inert, links, ext, stack, left, leaving>>

-----------------------------------------------------------------------------
(* Destructors: at the plugin's request, or when its client is destroyed:    *)
(* wl_client_destroy goes by the ids of the resources, and as ids are used   *)
(* again that may be any order.  The layer surface usually comes first.      *)

\* destroy_subsurface_parts, but for the flag.  A surface is linked into lists of
\* its parent only.
Unlinked(l, s) == [p \in Surfaces |-> IF p = parent[s] THEN Without(l[p], s) ELSE l[p]]

Parts(s) ==
  /\ above' = Unlinked(above, s) /\ below' = Unlinked(below, s)
  /\ cabove' = Unlinked(cabove, s) /\ cbelow' = Unlinked(cbelow, s)
  /\ parent' = [parent EXCEPT ![s] = NULL]
  /\ ext' = ext \ {s} /\ stack' = Without(stack, s)

\* subsurface_handle_resource_destroy of a resource that has its surface
DestroySubsurface(s) ==
  /\ crash = NULL /\ handle[s] = "live"
  /\ leaving \/ "sub_first" \in odd
  /\ IF FreedList(s)
     THEN crash' = "freed_list" /\ UNCHANGED <<links, parent, ext, stack, handle, inert>>
     ELSE /\ Parts(s)
          /\ handle' = [handle EXCEPT ![s] = "freed"]
          /\ inert' = inert \cup {s}
          /\ UNCHANGED crash
  /\ UNCHANGED <<alive, orphans, left, leaving>>

\* A mutant: the user data is used without the test for NULL.
DestroyOrphanUntested(s) ==
  /\ crash = NULL /\ s \in orphans
  /\ crash' = "null_orphan"
  /\ UNCHANGED <<alive, parent, handle, orphans, inert, links, ext, stack, left, leaving>>

\* subsurface_handle_resource_destroy of one that has lost its surface
DestroyOrphan(s) ==
  /\ crash = NULL /\ s \in orphans
  /\ orphans' = orphans \ {s}
  /\ UNCHANGED <<alive, parent, handle, inert, links, ext, stack, left, leaving, crash>>

\* surface_handle_resource_destroy.  The children of s keep their pointer to it.
DestroySurface(s) ==
  /\ crash = NULL /\ s \in alive
  /\ Children(s) = {} \/ leaving \/ "parent_first" \in odd
  /\ IF handle[s] = "freed" \/ FreedList(s)
     THEN /\ crash' = IF handle[s] = "freed" THEN "freed_handle" ELSE "freed_list"
          /\ UNCHANGED <<alive, links, parent, ext, stack, handle, inert, orphans, left>>
     ELSE /\ Parts(s)
          /\ orphans' = IF handle[s] = "live" THEN orphans \cup {s} ELSE orphans
          /\ handle' = [handle EXCEPT ![s] = "none"]
          /\ alive' = alive \ {s} /\ inert' = inert \ {s}
          /\ left' = IF Children(s) = {} THEN left ELSE left \cup {s}
          /\ UNCHANGED crash
  /\ UNCHANGED leaving

\* The client disconnects, or is disconnected because a request was refused:
\* every resource is destroyed, and a new client starts.
ClientGoes ==
  /\ Served
  /\ leaving' = TRUE
  /\ UNCHANGED <<alive, parent, handle, orphans, inert, links, ext, stack, left, crash>>

ClientGone ==
  /\ crash = NULL /\ leaving /\ alive = {} /\ orphans = {}
  /\ leaving' = FALSE
  /\ UNCHANGED <<alive, parent, handle, orphans, inert, links, ext, stack, left, crash>>

-----------------------------------------------------------------------------
SubsInit ==
  /\ odd \in {{}, Oddities}
  /\ alive = {} /\ orphans = {} /\ inert = {} /\ ext = {}
  /\ parent = [s \in Surfaces |-> NULL] /\ handle = [s \in Surfaces |-> "none"]
  /\ above = [s \in Surfaces |-> <<>>] /\ below = above
  /\ cabove = above /\ cbelow = above
  /\ stack = <<Bg, Indicator>>
  /\ left = {} /\ leaving = FALSE /\ crash = NULL

SubsNext ==
  /\ \/ \E s \in Surfaces : \/ CreateSurface(s) \/ UseOrphan(s) \/ CommitNested(s) \/ PlaceBySelf(s)
                            \/ DestroySubsurface(s) \/ DestroyOrphan(s) \/ DestroySurface(s)
     \/ \E s, t \in Surfaces : GetSubsurface(s, t) \/ PlaceAbove(s, t) \/ PlaceBelow(s, t)
     \/ CommitLayer \/ ClientGoes \/ ClientGone
  /\ UNCHANGED odd

SubsSpec == SubsInit /\ [][SubsNext]_subsVars

-----------------------------------------------------------------------------
\* The lists of a surface hold its subsurfaces and nothing else: each is pending
\* exactly once, and what is committed is a part of what is pending and has its
\* upstream subsurface.
ListsAgree ==
  crash = NULL =>
    \A p \in Surfaces :
      /\ ToSet(above[p]) \cup ToSet(below[p]) = Children(p)
      /\ ToSet(above[p]) \cap ToSet(below[p]) = {}
      /\ ToSet(cabove[p]) \cup ToSet(cbelow[p]) \subseteq Children(p) \cap ext
      /\ ToSet(cabove[p]) \cap ToSet(cbelow[p]) = {}

\* No surface descends from itself, so the walk up the parents of
\* subcompositor_get_subsurface ends.
Acyclic ==
  crash = NULL =>
    \A s \in alive : LET r == Root(s) IN r # NULL => parent[r] = NULL

\* Upstream, the committed subsurfaces lie in the plugin's order around the
\* background and the indicator lies on top of all of them.
StackFollows ==
  crash = NULL => stack = cbelow[Layer] \o <<Bg>> \o cabove[Layer] \o <<Indicator>>

\* The subsurfaces form trees, the lists of each surface hold its children and
\* upstream follows them, whatever the plugin does until the locker makes an
\* invalid access.
ListsInv == SubsTypeOK /\ ListsAgree /\ Acyclic /\ StackFollows

\* While it is served, a plugin that destroys each surface before its
\* wl_subsurface and before its parent makes no handler use freed memory or a NULL
\* pointer.  Its disconnection makes one do so only if a parent was freed before
\* its subsurfaces or a wl_subsurface before its surface; and where a parent was
\* freed first, by this plugin or any other, its client never goes without.
HandlersSafe ==
  /\ odd = {} /\ crash # NULL => leaving /\ (left # {} \/ \E s \in Surfaces : handle[s] = "freed")
  /\ crash = NULL /\ alive = {} => left = {}

=============================================================================
