--------------------------- MODULE OutputsProofs ----------------------------
(***************************************************************************)
(* Theorems about the outputs and their image descriptions, for every set  *)
(* of outputs, surfaces, scales and descriptions: the objects of programs  *)
(* and the outputs they belong to point at each other as long as they      *)
(* should, whenever an output is unplugged; the cached properties are      *)
(* counted exactly and follow the compositor.                              *)
(***************************************************************************)
EXTENDS Outputs, ColorDescs, FiniteSetTheorems, TLAPS

-----------------------------------------------------------------------------
(* The inductive invariant *)

Switches ==
  /\ perOutput \in BOOLEAN /\ late \in BOOLEAN /\ started \in BOOLEAN /\ color \in BOOLEAN
  /\ crash \in {"none", "request", "event", "list", "assert_description", "assert_client"}

Types ==
  /\ phase \in [Outputs -> Phases]
  /\ unready \subseteq Outputs /\ done \subseteq Outputs /\ described \subseteq Outputs
  /\ global \subseteq Outputs /\ frames \subseteq Outputs
  /\ scale \in [Outputs -> Scales \cup {0}]
  /\ plugin \in [Outputs -> Surfs \cup {None}]
  /\ listed \subseteq Kinds \X Clients \X Outputs /\ stale \subseteq Kinds \X Clients \X Outputs
  /\ layer \subseteq Clients \X Outputs
  /\ home \in [Surfs -> Clients \cup {None}]
  /\ role \in [Surfs -> Outputs \cup {None}]
  /\ inert \subseteq Surfs
  /\ told \in [Surfs -> Scales \cup {0, None}]

\* The pairs of output and surface, PointersAgree's first half.
PairsAgree ==
  /\ \A o \in Outputs : plugin[o] # None =>
       /\ role[plugin[o]] = o /\ phase[o] \in {"created", "shown"}
       /\ home[plugin[o]] = ClientOf(o)
       /\ <<ClientOf(o), o>> \in layer
  /\ \A s \in Surfs : role[s] # None => plugin[role[s]] = s

\* The resources of programs, its second half; and a program of one output has
\* resources of no other, nor of an output that has not been announced.
ResourcesOK ==
  /\ \A s \in Surfs : home[s] # None => home[s] \in Running
  /\ \A r \in listed \cup stale :
       /\ r[2] \in Running /\ r[3] \in global
       /\ perOutput => r[2] = r[3]
       /\ r[1] = "color" => color
  /\ \A r \in listed : Alive(r[3])
  /\ \A r \in stale : phase[r[3]] = "gone"
  /\ \A l \in layer : l[1] = ClientOf(l[2])

\* Programs see an output once it is configured; main waits for a description,
\* but for the outputs it creates at the start.
PhasesOK ==
  /\ ~started => \A o \in Outputs : phase[o] \notin {"created", "shown"}
  /\ \A o \in global : phase[o] \in {"shown", "gone"}
  /\ color => \A o \in Outputs : phase[o] \in {"created", "shown"} => o \in described \cup unready

OutputsIInv ==
  /\ Switches /\ Types /\ PairsAgree /\ ResourcesOK /\ PhasesOK /\ ScaleTold /\ SurfaceThere

LEMMA OutputsIInvImplies ==
  OutputsIInv => OutputsInv /\ ScaleTold /\ SurfaceThere
<1> SUFFICES ASSUME OutputsIInv PROVE OutputsInv /\ ScaleTold /\ SurfaceThere
  OBVIOUS
<1> USE DEF OutputsIInv
<1>1. TypeOK
  <2>1. \A b \in {perOutput, late, started, color} : b \in BOOLEAN
    BY Zenon DEF Switches
  <2> QED
    BY <2>1 DEF TypeOK, Switches, Types
<1>2. PointersAgree
  BY DEF PointersAgree, PairsAgree, ResourcesOK
<1> QED
  BY <1>1, <1>2 DEF OutputsInv

-----------------------------------------------------------------------------
(* Steps of several actions *)

\* What SurfaceThere allows to end swaylock.
Allowed(how) ==
  /\ how = "event" => late
  /\ how = "request" => late /\ ~perOutput
  /\ how = "list" => color /\ ~perOutput
  /\ how = "assert_description" => unready # {}

\* swaylock crashes: nothing is left that could disagree.
LEMMA EndsKeeps ==
  ASSUME OutputsAssumption, OutputsIInv,
         NEW how \in {"request", "event", "list", "assert_description"}, Allowed(how), Ends(how)
  PROVE  OutputsIInv'
<1> USE DEF OutputsIInv, Ends
<1>1. Switches'
  BY Zenon DEF Switches, modeVars
<1>2. Types'
  BY DEF Types, Phases
<1>3. PairsAgree' /\ ScaleTold'
  BY DEF PairsAgree, ScaleTold
<1>4. ResourcesOK'
  BY DEF ResourcesOK
<1>5. PhasesOK'
  BY DEF PhasesOK
<1>6. SurfaceThere'
  BY DEF SurfaceThere, Allowed, modeVars
<1> QED
  BY <1>1, <1>2, <1>3, <1>4, <1>5, <1>6

\* A program gets an object of an output that it can name.
LEMMA LinkKeeps ==
  ASSUME OutputsIInv, NEW k \in Kinds, NEW c \in Clients, NEW o \in Outputs, Link(k, c, o),
         c \in Running, o \in global, Alive(o), perOutput => c = o, k = "color" => color
  PROVE  OutputsIInv'
<1> USE DEF OutputsIInv
<1>1. /\ listed' = listed \cup {<<k, c, o>>}
      /\ UNCHANGED <<perOutput, late, started, color, unready, phase, done, described, global, scale,
                     plugin, frames, stale, layer, home, role, inert, told, crash>>
  BY DEF Link, modeVars, startVars, outputVars, surfVars
<1>2. Switches'
  BY <1>1, Zenon DEF Switches
<1>3. Types'
  BY <1>1 DEF Types
<1>4. PairsAgree' /\ ScaleTold'
  BY <1>1 DEF PairsAgree, ScaleTold, ClientOf, Up
<1>5. ResourcesOK'
  <2>1. Running' = Running
    BY <1>1 DEF Running
  <2>2. \A r \in listed' : r \in listed \/ r = <<k, c, o>>
    BY <1>1
  <2>3. \A q : Alive(q)' <=> Alive(q)
    BY <1>1 DEF Alive
  <2> QED
    BY <1>1, <2>1, <2>2, <2>3 DEF ResourcesOK, ClientOf
<1>6. PhasesOK' /\ SurfaceThere'
  BY <1>1 DEF PhasesOK, SurfaceThere
<1> QED
  BY <1>2, <1>3, <1>4, <1>5, <1>6

\* A client is destroyed with everything it has, and starts again.
LEMMA DisconnectKeeps ==
  ASSUME OutputsAssumption, OutputsIInv, NEW c \in Clients, Disconnect(c)
  PROVE  OutputsIInv'
<1> USE DEF OutputsIInv
<1>1. /\ listed' = {r \in listed \ {} : r[2] \notin {c}}
      /\ stale' = {r \in stale \cup {} : r[2] \notin {c}}
      /\ layer' = {l \in layer : l[1] \notin {c}}
      /\ home' = [s \in Surfs |-> IF home[s] \in {c} THEN None ELSE home[s]]
      /\ told' = [s \in Surfs |-> IF home[s] \in {c} THEN None ELSE told[s]]
      /\ plugin' = [o \in Outputs |-> IF plugin[o] # None /\ home[plugin[o]] = c
                                      THEN None ELSE plugin[o]]
      /\ role' = [s \in Surfs |-> IF home[s] = c THEN None ELSE role[s]]
      /\ inert' = {s \in inert : home[s] # c}
      /\ UNCHANGED <<perOutput, late, started, color, unready, phase, done, described, global, scale,
                     frames, crash>>
  BY DEF Disconnect, Dropped, modeVars, startVars, outputVars
<1>2. Switches'
  BY <1>1, Zenon DEF Switches
<1>3. Types'
  BY <1>1 DEF Types
<1>4. PairsAgree'
  <2>1. ASSUME NEW o \in Outputs, plugin'[o] # None
        PROVE  /\ role'[plugin'[o]] = o /\ phase'[o] \in {"created", "shown"}
               /\ home'[plugin'[o]] = ClientOf(o)' /\ <<ClientOf(o)', o>> \in layer'
    <3>1. plugin'[o] = plugin[o] /\ plugin[o] \in Surfs /\ home[plugin[o]] # c
      BY <1>1, <2>1 DEF Types
    <3>2. /\ role[plugin[o]] = o /\ phase[o] \in {"created", "shown"}
          /\ home[plugin[o]] = ClientOf(o) /\ <<ClientOf(o), o>> \in layer
      BY <3>1, <2>1 DEF PairsAgree
    <3>3. ClientOf(o)' = ClientOf(o)
      BY <1>1 DEF ClientOf
    <3> QED
      BY <1>1, <3>1, <3>2, <3>3
  <2>2. ASSUME NEW s \in Surfs, role'[s] # None PROVE plugin'[role'[s]] = s
    <3>1. home[s] # c /\ role'[s] = role[s]
      BY <1>1, <2>2
    <3>2. role[s] \in Outputs /\ plugin[role[s]] = s
      BY <2>2, <3>1 DEF PairsAgree, Types
    <3> QED
      BY <1>1, <3>1, <3>2
  <2> QED
    BY <2>1, <2>2 DEF PairsAgree
<1>5. ResourcesOK'
  <2>1. Running' = Running
    BY <1>1 DEF Running
  <2> QED
    BY <1>1, <2>1 DEF ResourcesOK, ClientOf, Alive
<1>6. ScaleTold'
  <2> SUFFICES ASSUME NEW o \in Outputs, Up, plugin'[o] # None, scale[o] # 0
               PROVE  told'[plugin'[o]] \in {None, scale[o]}
    BY <1>1 DEF ScaleTold, Up
  <2>1. plugin'[o] = plugin[o] /\ plugin[o] \in Surfs
    BY <1>1 DEF Types
  <2>2. told[plugin[o]] \in {None, scale[o]}
    BY <2>1 DEF ScaleTold
  <2> QED
    BY <1>1, <2>1, <2>2
<1>7. PhasesOK' /\ SurfaceThere'
  BY <1>1 DEF PhasesOK, SurfaceThere
<1> QED
  BY <1>2, <1>3, <1>4, <1>5, <1>6, <1>7

\* An output gets as far as create_surface or the first configure.
LEMMA AdvanceKeeps ==
  ASSUME OutputsIInv, Up,
         UNCHANGED <<modeVars, color, scale, plugin, frames, resVars, surfVars, crash>>,
         started' \in BOOLEAN, started => started',
         unready' \subseteq Outputs, done' \subseteq Outputs, described' \subseteq Outputs,
         global \subseteq global', phase' \in [Outputs -> Phases],
         \A o \in Outputs :
           \/ phase'[o] = phase[o]
           \/ phase[o] = "absent" /\ phase'[o] = "bound"
           \/ /\ phase[o] = "bound" /\ phase'[o] = "created" /\ started'
              /\ color => o \in described' \cup unready'
           \/ phase[o] = "created" /\ phase'[o] = "shown",
         \A o \in Outputs :
           phase[o] \in {"created", "shown"} /\ o \in described \cup unready =>
             o \in described' \cup unready',
         \A o \in global' : o \in global \/ (o \in Outputs /\ phase'[o] = "shown")
  PROVE  OutputsIInv'
<1> USE DEF OutputsIInv
<1>1. UNCHANGED <<perOutput, late, color, scale, plugin, frames, listed, stale, layer, home, role,
                  inert, told, crash>>
  BY DEF modeVars, resVars, surfVars
<1>2. \A o \in Outputs : /\ phase[o] \in {"created", "shown"} => phase'[o] \in {"created", "shown"}
                         /\ Alive(o) => Alive(o)'
                         /\ phase[o] \in {"shown", "gone"} => phase'[o] = phase[o]
  BY DEF Alive
<1>3. Switches'
  BY <1>1, Zenon DEF Switches
<1>4. Types'
  BY <1>1 DEF Types
<1>5. PairsAgree' /\ ScaleTold'
  BY <1>1, <1>2 DEF PairsAgree, ScaleTold, ClientOf, Up
<1>6. ResourcesOK'
  <2>1. \A c \in Running : c \in Running'
    BY <1>1, <1>2 DEF Running
  <2>2. \A r \in listed \cup stale : r[3] \in Outputs
    BY DEF Types
  <2> QED
    BY <1>1, <1>2, <2>1, <2>2 DEF ResourcesOK, ClientOf
<1>7. PhasesOK'
  <2>1. ~started' => \A o \in Outputs : phase'[o] \notin {"created", "shown"}
    BY DEF PhasesOK, Switches
  <2>2. \A o \in global' : phase'[o] \in {"shown", "gone"}
    BY <1>2 DEF PhasesOK, Types
  <2>3. color => \A o \in Outputs : phase'[o] \in {"created", "shown"} => o \in described' \cup unready'
    BY DEF PhasesOK
  <2> QED
    BY <1>1, <2>1, <2>2, <2>3 DEF PhasesOK
<1>8. SurfaceThere'
  BY <1>1 DEF SurfaceThere, Up
<1> QED
  BY <1>3, <1>4, <1>5, <1>6, <1>7, <1>8

\* The scale a fractional scale object knows changes, or there is another such
\* object.
LEMMA ToldKeeps ==
  ASSUME OutputsIInv,
         UNCHANGED <<modeVars, startVars, phase, done, described, global, plugin, frames, resVars,
                     home, role, inert, crash>>,
         scale' \in [Outputs -> Scales \cup {0}], told' \in [Surfs -> Scales \cup {0, None}],
         ScaleTold'
  PROVE  OutputsIInv'
<1> USE DEF OutputsIInv
<1>1. UNCHANGED <<perOutput, late, started, color, unready, phase, done, described, global, plugin,
                  frames, listed, stale, layer, home, role, inert, crash>>
  BY DEF modeVars, startVars, resVars
<1>2. Switches'
  BY <1>1, Zenon DEF Switches
<1>3. Types'
  BY <1>1 DEF Types
<1>4. PairsAgree'
  BY <1>1 DEF PairsAgree, ClientOf
<1>5. ResourcesOK'
  <2>1. Running' = Running
    BY <1>1 DEF Running
  <2> QED
    BY <1>1, <2>1 DEF ResourcesOK, ClientOf, Alive
<1>6. PhasesOK' /\ SurfaceThere'
  BY <1>1 DEF PhasesOK, SurfaceThere
<1> QED
  BY <1>2, <1>3, <1>4, <1>5, <1>6

\* A frame callback is made or fires.
LEMMA FramesKeeps ==
  ASSUME OutputsIInv, frames' \subseteq Outputs,
         UNCHANGED <<modeVars, startVars, outputVars, plugin, resVars, surfVars, crash>>
  PROVE  OutputsIInv'
<1> USE DEF OutputsIInv
<1>1. UNCHANGED <<perOutput, late, started, color, unready, phase, done, described, global, scale,
                  plugin, listed, stale, layer, home, role, inert, told, crash>>
  BY DEF modeVars, startVars, outputVars, resVars, surfVars
<1>2. Switches'
  BY <1>1, Zenon DEF Switches
<1>3. Types'
  BY <1>1 DEF Types
<1>4. PairsAgree' /\ ScaleTold'
  BY <1>1 DEF PairsAgree, ScaleTold, ClientOf, Up
<1>5. ResourcesOK'
  <2>1. Running' = Running
    BY <1>1 DEF Running
  <2> QED
    BY <1>1, <2>1 DEF ResourcesOK, ClientOf, Alive
<1>6. PhasesOK' /\ SurfaceThere'
  BY <1>1 DEF PhasesOK, SurfaceThere
<1> QED
  BY <1>2, <1>3, <1>4, <1>5, <1>6

-----------------------------------------------------------------------------
(* The compositor *)

LEMMA HandleGlobalKeeps ==
  ASSUME OutputsIInv, NEW o \in Outputs, HandleGlobal(o)
  PROVE  OutputsIInv'
<1>1. /\ Up /\ phase[o] = "absent" /\ phase' = [phase EXCEPT ![o] = "bound"]
      /\ UNCHANGED <<modeVars, started, color, unready, done, described, global, scale, plugin, frames,
                     resVars, surfVars, crash>>
  BY DEF HandleGlobal, startVars
<1>2. Types /\ started \in BOOLEAN
  BY Zenon DEF OutputsIInv, Switches
<1>3. phase' \in [Outputs -> Phases]
  BY <1>1, <1>2 DEF Types, Phases
<1> QED
  BY <1>1, <1>2, <1>3, AdvanceKeeps DEF Types

\* create_surface, if nothing is missing.
LEMMA InitIfReadyKeeps ==
  ASSUME OutputsIInv, NEW o \in Outputs, Up, InitIfReady(o),
         UNCHANGED <<modeVars, started, color, global, scale, plugin, frames, resVars, surfVars, crash>>,
         done' \subseteq Outputs, described' \subseteq Outputs, unready' \subseteq Outputs,
         described \cup unready \subseteq described' \cup unready'
  PROVE  OutputsIInv'
<1>1. Types /\ started \in BOOLEAN
  BY Zenon DEF OutputsIInv, Switches
<1>2. \/ phase' = phase
      \/ /\ phase[o] = "bound" /\ phase' = [phase EXCEPT ![o] = "created"] /\ started
         /\ color => o \in described'
  BY DEF InitIfReady
<1>3. /\ phase' \in [Outputs -> Phases]
      /\ \A q \in Outputs : \/ phase'[q] = phase[q]
                            \/ /\ phase[q] = "bound" /\ phase'[q] = "created" /\ started
                               /\ color => q \in described'
  BY <1>1, <1>2 DEF Types, Phases
<1> QED
  BY <1>1, <1>3, AdvanceKeeps

LEMMA HandleDoneKeeps ==
  ASSUME OutputsIInv, NEW o \in Outputs, HandleDone(o)
  PROVE  OutputsIInv'
<1>1. /\ Up /\ done' = done \cup {o} /\ UNCHANGED <<described, unready>> /\ InitIfReady(o)
      /\ UNCHANGED <<modeVars, started, color, global, scale, plugin, frames, resVars, surfVars, crash>>
  BY DEF HandleDone, startVars
<1> QED
  BY <1>1, InitIfReadyKeeps DEF OutputsIInv, Types

LEMMA HandleDescribedKeeps ==
  ASSUME OutputsAssumption, OutputsIInv, NEW o \in Outputs, HandleDescribed(o)
  PROVE  OutputsIInv'
<1>1. CASE Late(o) /\ Ends("event")
  BY <1>1, EndsKeeps DEF Late, Allowed
<1>2. CASE ~(Late(o) /\ Ends("event"))
  <2>1. /\ Up /\ described' = described \cup {o} /\ UNCHANGED done /\ unready' = unready \ {o}
        /\ InitIfReady(o)
        /\ UNCHANGED <<modeVars, started, color, global, scale, plugin, frames, resVars, surfVars, crash>>
    BY <1>2 DEF HandleDescribed
  <2> QED
    BY <2>1, InitIfReadyKeeps DEF OutputsIInv, Types
<1> QED
  BY <1>1, <1>2

LEMMA StartKeeps ==
  ASSUME OutputsIInv, Start
  PROVE  OutputsIInv'
<1>1. /\ Up /\ ~started /\ started' = TRUE
      /\ phase' = [o \in Outputs |-> IF phase[o] = "bound" THEN "created" ELSE phase[o]]
      /\ unready' = {o \in Outputs : color /\ phase[o] = "bound"} \ described
      /\ UNCHANGED <<modeVars, color, done, described, global, scale, plugin, frames, resVars,
                     surfVars, crash>>
  BY DEF Start
<1>2. Types /\ PhasesOK
  BY DEF OutputsIInv
<1>3. phase' \in [Outputs -> Phases]
  BY <1>1, <1>2 DEF Types, Phases
<1>4. ~(\E o \in Outputs : phase[o] \in {"created", "shown"})
  BY <1>1, <1>2 DEF PhasesOK
<1> QED
  BY <1>1, <1>2, <1>3, <1>4, AdvanceKeeps DEF Types

LEMMA FirstConfigureKeeps ==
  ASSUME OutputsIInv, NEW o \in Outputs, FirstConfigure(o)
  PROVE  OutputsIInv'
<1>1. /\ Up /\ phase[o] = "created" /\ phase' = [phase EXCEPT ![o] = "shown"]
      /\ global' = global \cup {o}
      /\ UNCHANGED <<modeVars, started, color, unready, done, described, scale, plugin, frames, resVars,
                     surfVars, crash>>
  BY DEF FirstConfigure, startVars
<1>2. Types /\ started \in BOOLEAN
  BY Zenon DEF OutputsIInv, Switches
<1>3. phase' \in [Outputs -> Phases] /\ phase'[o] = "shown"
  BY <1>1, <1>2 DEF Types, Phases
<1> QED
  BY <1>1, <1>2, <1>3, AdvanceKeeps DEF Types

LEMMA HandleColorManagerKeeps ==
  ASSUME OutputsIInv, HandleColorManager
  PROVE  OutputsIInv'
<1> USE DEF OutputsIInv
<1>1. /\ Up /\ ~started /\ ~color /\ color' = TRUE
      /\ UNCHANGED <<perOutput, late, started, unready, phase, done, described, global, scale, plugin,
                     frames, listed, stale, layer, home, role, inert, told, crash>>
  BY DEF HandleColorManager, modeVars, outputVars, resVars, surfVars
<1>2. Switches'
  BY <1>1, Zenon DEF Switches
<1>3. Types'
  BY <1>1 DEF Types
<1>4. PairsAgree' /\ ScaleTold'
  BY <1>1 DEF PairsAgree, ScaleTold, ClientOf, Up
<1>5. ResourcesOK'
  <2>1. Running' = Running
    BY <1>1 DEF Running
  <2> QED
    BY <1>1, <2>1 DEF ResourcesOK, ClientOf, Alive
<1>6. PhasesOK' /\ SurfaceThere'
  BY <1>1 DEF PhasesOK, SurfaceThere, Up
<1> QED
  BY <1>2, <1>3, <1>4, <1>5, <1>6

LEMMA PreferredScaleKeeps ==
  ASSUME OutputsIInv, NEW o \in Outputs, NEW n \in Scales, PreferredScale(o, n)
  PROVE  OutputsIInv'
<1> USE DEF OutputsIInv
<1>1. /\ scale' = [scale EXCEPT ![o] = n]
      /\ told' = IF plugin[o] # None /\ told[plugin[o]] # None
                 THEN [told EXCEPT ![plugin[o]] = n] ELSE told
      /\ UNCHANGED <<modeVars, startVars, phase, done, described, global, plugin, frames, resVars,
                     home, role, inert, crash>>
  BY DEF PreferredScale
<1>2. scale' \in [Outputs -> Scales \cup {0}] /\ told' \in [Surfs -> Scales \cup {0, None}]
  BY <1>1 DEF Types
<1>3. ScaleTold'
  <2> SUFFICES ASSUME NEW q \in Outputs, Up, plugin[q] # None, scale'[q] # 0
               PROVE  told'[plugin[q]] \in {None, scale'[q]}
    BY <1>1 DEF ScaleTold, Up
  <2>1. plugin[q] \in Surfs
    BY DEF Types
  <2>2. CASE q = o
    BY <1>1, <2>1, <2>2 DEF Types
  <2>3. CASE q # o
    <3>1. plugin[o] # plugin[q]
      <4>1. role[plugin[q]] = q /\ (plugin[o] # None => role[plugin[o]] = o)
        BY DEF PairsAgree
      <4> QED
        BY <2>3, <4>1
    <3>2. scale'[q] = scale[q] /\ told'[plugin[q]] = told[plugin[q]]
      BY <1>1, <2>1, <2>3, <3>1 DEF Types
    <3> QED
      BY <3>2 DEF ScaleTold
  <2> QED
    BY <2>2, <2>3
<1> QED
  BY <1>1, <1>2, <1>3, ToldKeeps

\* The frame callback of an output fires, perhaps after it is gone.
LEMMA FrameDoneKeeps ==
  ASSUME OutputsAssumption, OutputsIInv, NEW o \in Outputs, FrameDone(o)
  PROVE  OutputsIInv'
<1>1. CASE Late(o) /\ Ends("event")
  BY <1>1, EndsKeeps DEF Late, Allowed
<1>2. CASE ~(Late(o) /\ Ends("event"))
  <2>1. /\ frames' = frames \ {o}
        /\ UNCHANGED <<modeVars, startVars, outputVars, plugin, resVars, surfVars, crash>>
    BY <1>2 DEF FrameDone
  <2> QED
    BY <2>1, FramesKeeps DEF OutputsIInv, Types
<1> QED
  BY <1>1, <1>2

\* An output is unplugged: its own program goes with it, and what other programs
\* have of it moves to the stale lists.
LEMMA UnpluggedKeeps ==
  ASSUME OutputsAssumption, OutputsIInv, NEW o \in Outputs, Up, Alive(o),
         phase' = [phase EXCEPT ![o] = "gone"],
         done' = done \ {o}, unready' = unready \ {o},
         scale' = [scale EXCEPT ![o] = 0],
         plugin' = [plugin EXCEPT ![o] = None],
         role' = [s \in Surfs |-> IF role[s] = o THEN None ELSE role[s]],
         inert' = {s \in Surfs : (s \in inert \/ s = plugin[o]) /\ home[s] \notin Taken(o)},
         Dropped(Taken(o), Moved(o)),
         UNCHANGED <<modeVars, started, color, described, global, frames, crash>>
  PROVE  OutputsIInv'
<1> USE DEF OutputsIInv
<1>1. /\ listed' = {r \in listed \ Moved(o) : r[2] \notin Taken(o)}
      /\ stale' = {r \in stale \cup Moved(o) : r[2] \notin Taken(o)}
      /\ layer' = {l \in layer : l[1] \notin Taken(o)}
      /\ home' = [s \in Surfs |-> IF home[s] \in Taken(o) THEN None ELSE home[s]]
      /\ told' = [s \in Surfs |-> IF home[s] \in Taken(o) THEN None ELSE told[s]]
      /\ perOutput' = perOutput /\ late' = late
  BY DEF Dropped, modeVars
<1>2. Switches'
  BY <1>1, Zenon DEF Switches
<1>3. Moved(o) \subseteq listed /\ \A r \in listed : r \in Moved(o) <=> r[3] = o
  BY DEF Moved
<1>4. /\ phase'[o] = "gone" /\ plugin'[o] = None /\ scale'[o] = 0
      /\ \A q \in Outputs \ {o} :
           phase'[q] = phase[q] /\ plugin'[q] = plugin[q] /\ scale'[q] = scale[q]
      /\ \A q \in Outputs : ClientOf(q)' = ClientOf(q)
  BY <1>1 DEF Types, ClientOf
<1>5. \A q \in Outputs \ {o} : ClientOf(q) \notin Taken(o)
  BY DEF ClientOf, Taken
<1>6. Types'
  BY <1>1, <1>3 DEF Types, Phases
<1>7. PairsAgree'
  <2>1. ASSUME NEW q \in Outputs, plugin'[q] # None
        PROVE  /\ role'[plugin'[q]] = q /\ phase'[q] \in {"created", "shown"}
               /\ home'[plugin'[q]] = ClientOf(q)' /\ <<ClientOf(q)', q>> \in layer'
    <3>1. q # o /\ plugin'[q] = plugin[q] /\ plugin[q] \in Surfs
      BY <1>4, <2>1 DEF Types
    <3>2. /\ role[plugin[q]] = q /\ phase[q] \in {"created", "shown"}
          /\ home[plugin[q]] = ClientOf(q) /\ <<ClientOf(q), q>> \in layer
      BY <2>1, <3>1 DEF PairsAgree
    <3> QED
      BY <1>1, <1>4, <1>5, <3>1, <3>2
  <2>2. ASSUME NEW s \in Surfs, role'[s] # None PROVE plugin'[role'[s]] = s
    BY <1>4, <2>2 DEF PairsAgree, Types
  <2> QED
    BY <2>1, <2>2 DEF PairsAgree
<1>8. ResourcesOK'
  <2>1. \A c \in Running : c \in Running' \/ c \in Taken(o)
    BY <1>1, <1>4 DEF Running, Taken
  <2>2. \A q \in Outputs \ {o} : Alive(q) => Alive(q)'
    BY <1>4 DEF Alive
  <2>3. \A s \in Surfs : home'[s] # None => home'[s] \in Running'
    BY <1>1, <2>1 DEF ResourcesOK
  <2>4. \A r \in listed' \cup stale' : /\ r \in listed \cup stale /\ r[2] \notin Taken(o)
                                       /\ r[3] \in Outputs
    BY <1>1, <1>3 DEF Types
  <2>5. \A r \in listed' \cup stale' : /\ r[2] \in Running' /\ r[3] \in global'
                                       /\ perOutput' => r[2] = r[3]
                                       /\ r[1] = "color" => color'
    BY <1>1, <2>1, <2>4 DEF ResourcesOK
  <2>6. \A r \in listed' : Alive(r[3])'
    BY <1>1, <1>3, <2>2, <2>4 DEF ResourcesOK
  <2>7. \A r \in stale' : phase'[r[3]] = "gone"
    BY <1>1, <1>3, <1>4, <2>4 DEF ResourcesOK
  <2>8. \A l \in layer' : l[1] = ClientOf(l[2])'
    BY <1>1, <1>4 DEF ResourcesOK, Types
  <2> QED
    BY <2>3, <2>5, <2>6, <2>7, <2>8 DEF ResourcesOK
<1>9. ScaleTold'
  <2> SUFFICES ASSUME NEW q \in Outputs, plugin'[q] # None, scale'[q] # 0
               PROVE  told'[plugin'[q]] \in {None, scale'[q]}
    BY DEF ScaleTold
  <2>1. q # o /\ plugin'[q] = plugin[q] /\ plugin[q] \in Surfs /\ scale'[q] = scale[q]
    BY <1>4 DEF Types
  <2>2. told[plugin[q]] \in {None, scale[q]}
    BY <2>1 DEF ScaleTold
  <2> QED
    BY <1>1, <2>1, <2>2
<1>10. PhasesOK' /\ SurfaceThere'
  BY <1>1, <1>4 DEF PhasesOK, SurfaceThere, Types, Up
<1> QED
  BY <1>2, <1>6, <1>7, <1>8, <1>9, <1>10

LEMMA DestroySurfaceKeeps ==
  ASSUME OutputsAssumption, OutputsIInv, NEW o \in Outputs, DestroySurface(o)
  PROVE  OutputsIInv'
<1>1. CASE (\E c \in Clients \ Taken(o) : <<"color", c, o>> \in listed) /\ Ends("list")
  <2>1. PICK c \in Clients \ Taken(o) : <<"color", c, o>> \in listed
    BY <1>1
  <2>2. color /\ (perOutput => c = o)
    BY <2>1 DEF OutputsIInv, ResourcesOK
  <2>3. ~perOutput
    BY <2>1, <2>2 DEF Taken
  <2> QED
    BY <1>1, <2>2, <2>3, EndsKeeps DEF Allowed
<1>2. CASE ~((\E c \in Clients \ Taken(o) : <<"color", c, o>> \in listed) /\ Ends("list"))
  BY <1>2, UnpluggedKeeps DEF DestroySurface
<1> QED
  BY <1>1, <1>2

-----------------------------------------------------------------------------
(* The programs *)

\* A program of one output names no other.
LEMMA OwnOutput ==
  ASSUME OutputsAssumption, OutputsIInv, NEW c \in Clients, NEW o \in Outputs, Program(c),
         \/ c = o
         \/ Sees(c, o)
         \/ \E k \in Kinds : Has(k, c, o)
         \/ <<c, o>> \in layer
  PROVE  /\ perOutput => c = o /\ phase[o] \in {"created", "shown"}
         /\ c = ClientOf(o)
<1>1. c \in Running
  BY DEF Program
<1>2. perOutput => c \in Outputs /\ phase[c] \in {"created", "shown"}
  BY <1>1 DEF Running
<1>3. perOutput => c = o
  BY <1>2 DEF OutputsIInv, ResourcesOK, Sees, Has, ClientOf, OutputsAssumption
<1>4. ~perOutput => c = Main
  BY <1>1 DEF Running
<1> QED
  BY <1>2, <1>3, <1>4 DEF ClientOf

LEMMA BindOutputKeeps ==
  ASSUME OutputsAssumption, OutputsIInv, NEW c \in Clients, NEW o \in Outputs, BindOutput(c, o)
  PROVE  OutputsIInv'
<1>1. Program(c) /\ Sees(c, o) /\ ((Alive(o) /\ Link("wl", c, o)) \/ (Late(o) /\ Ends("request")))
  BY DEF BindOutput
<1>2. perOutput => c = o /\ phase[o] \in {"created", "shown"}
  BY <1>1, OwnOutput
<1>3. CASE Alive(o) /\ Link("wl", c, o)
  BY <1>1, <1>2, <1>3, LinkKeeps DEF Program, Sees, Kinds
<1>4. CASE Late(o) /\ Ends("request")
  BY <1>2, <1>4, EndsKeeps DEF Late, Allowed
<1> QED
  BY <1>1, <1>3, <1>4

LEMMA GetXdgOutputKeeps ==
  ASSUME OutputsAssumption, OutputsIInv, NEW c \in Clients, NEW o \in Outputs, GetXdgOutput(c, o)
  PROVE  OutputsIInv'
<1>1. Program(c) /\ Has("wl", c, o) /\ ((Alive(o) /\ Link("xdg", c, o)) \/ (Late(o) /\ Ends("request")))
  BY DEF GetXdgOutput
<1>2. perOutput => c = o /\ phase[o] \in {"created", "shown"}
  BY <1>1, OwnOutput DEF Kinds
<1>3. CASE Alive(o) /\ Link("xdg", c, o)
  <2>1. o \in global
    BY <1>1 DEF Has, OutputsIInv, ResourcesOK
  <2> QED
    BY <1>1, <1>2, <1>3, <2>1, LinkKeeps DEF Program, Kinds
<1>4. CASE Late(o) /\ Ends("request")
  BY <1>2, <1>4, EndsKeeps DEF Late, Allowed
<1> QED
  BY <1>1, <1>3, <1>4

LEMMA GetColorOutputKeeps ==
  ASSUME OutputsAssumption, OutputsIInv, NEW c \in Clients, NEW o \in Outputs, GetColorOutput(c, o)
  PROVE  OutputsIInv'
<1>1. /\ Program(c) /\ color /\ Has("wl", c, o)
      /\ (Alive(o) /\ Link("color", c, o)) \/ (Late(o) /\ Ends("request"))
  BY DEF GetColorOutput
<1>2. perOutput => c = o /\ phase[o] \in {"created", "shown"}
  BY <1>1, OwnOutput DEF Kinds
<1>3. CASE Alive(o) /\ Link("color", c, o)
  <2>1. o \in global
    BY <1>1 DEF Has, OutputsIInv, ResourcesOK
  <2> QED
    BY <1>1, <1>2, <1>3, <2>1, LinkKeeps DEF Program, Kinds
<1>4. CASE Late(o) /\ Ends("request")
  BY <1>2, <1>4, EndsKeeps DEF Late, Allowed
<1> QED
  BY <1>1, <1>3, <1>4

\* A resource can be unlinked: the list it is in belongs to a living output, or
\* it is a stale list.
LEMMA DestroyOutputObjectKeeps ==
  ASSUME OutputsIInv, NEW k \in Kinds, NEW c \in Clients, NEW o \in Outputs,
         DestroyOutputObject(k, c, o)
  PROVE  OutputsIInv'
<1> USE DEF OutputsIInv
<1>1. ~(<<k, c, o>> \in listed /\ ~Alive(o))
  BY DEF ResourcesOK
<1>2. /\ listed' = listed \ {<<k, c, o>>} /\ stale' = stale \ {<<k, c, o>>}
      /\ UNCHANGED <<perOutput, late, started, color, unready, phase, done, described, global, scale,
                     plugin, frames, layer, home, role, inert, told, crash>>
  BY <1>1 DEF DestroyOutputObject, modeVars, startVars, outputVars, surfVars
<1>3. Switches'
  BY <1>2, Zenon DEF Switches
<1>4. Types'
  BY <1>2 DEF Types
<1>5. PairsAgree' /\ ScaleTold'
  BY <1>2 DEF PairsAgree, ScaleTold, ClientOf, Up
<1>6. ResourcesOK'
  <2>1. Running' = Running
    BY <1>2 DEF Running
  <2> QED
    BY <1>2, <2>1 DEF ResourcesOK, ClientOf, Alive
<1>7. PhasesOK' /\ SurfaceThere'
  BY <1>2 DEF PhasesOK, SurfaceThere
<1> QED
  BY <1>3, <1>4, <1>5, <1>6, <1>7

\* The description is there, unless main created the output without one.
LEMMA GetOutputDescriptionKeeps ==
  ASSUME OutputsAssumption, OutputsIInv, NEW c \in Clients, NEW o \in Outputs,
         GetOutputDescription(c, o)
  PROVE  OutputsIInv'
<1>1. /\ Program(c) /\ Has("color", c, o)
      /\ \/ Alive(o) /\ o \notin described /\ Ends("assert_description")
         \/ Late(o) /\ Ends("request")
  BY DEF GetOutputDescription
<1>2. perOutput => c = o /\ phase[o] \in {"created", "shown"}
  BY <1>1, OwnOutput DEF Kinds
<1>3. CASE Alive(o) /\ o \notin described /\ Ends("assert_description")
  <2>1. o \in global /\ color
    BY <1>1 DEF Has, OutputsIInv, ResourcesOK
  <2>2. phase[o] = "shown"
    BY <1>3, <2>1 DEF OutputsIInv, PhasesOK, Alive
  <2>3. o \in unready
    BY <1>3, <2>1, <2>2 DEF OutputsIInv, PhasesOK
  <2> QED
    BY <1>3, <2>3, EndsKeeps DEF Allowed
<1>4. CASE Late(o) /\ Ends("request")
  BY <1>2, <1>4, EndsKeeps DEF Late, Allowed
<1> QED
  BY <1>1, <1>3, <1>4

LEMMA AckConfigureKeeps ==
  ASSUME OutputsAssumption, OutputsIInv, NEW c \in Clients, NEW o \in Outputs, AckConfigure(c, o)
  PROVE  OutputsIInv'
<1>1. Program(c) /\ <<c, o>> \in layer /\ Late(o) /\ Ends("request")
  BY DEF AckConfigure
<1>2. perOutput => phase[o] \in {"created", "shown"}
  BY <1>1, OwnOutput
<1> QED
  BY <1>1, <1>2, EndsKeeps DEF Late, Allowed

LEMMA CreateSurfKeeps ==
  ASSUME OutputsAssumption, OutputsIInv, NEW c \in Clients, NEW s \in Surfs, CreateSurf(c, s)
  PROVE  OutputsIInv'
<1> USE DEF OutputsIInv
<1>1. /\ c \in Running /\ home[s] = None /\ home' = [home EXCEPT ![s] = c]
      /\ UNCHANGED <<perOutput, late, started, color, unready, phase, done, described, global, scale,
                     plugin, frames, listed, stale, layer, role, inert, told, crash>>
  BY DEF CreateSurf, Program, modeVars, startVars, outputVars, resVars
<1>2. Switches'
  BY <1>1, Zenon DEF Switches
<1>3. Types'
  BY <1>1 DEF Types
<1>4. PairsAgree' /\ ScaleTold'
  <2>1. \A o \in Outputs : plugin[o] # None => plugin[o] \in Surfs /\ plugin[o] # s
    <3> SUFFICES ASSUME NEW o \in Outputs, plugin[o] # None
                 PROVE  plugin[o] \in Surfs /\ plugin[o] # s
      OBVIOUS
    <3>1. home[plugin[o]] = ClientOf(o)
      BY DEF PairsAgree
    <3>2. ClientOf(o) # None
      BY DEF ClientOf, OutputsAssumption, Clients
    <3> QED
      BY <1>1, <3>1, <3>2 DEF Types
  <2>2. \A o \in Outputs : plugin[o] # None => home'[plugin[o]] = home[plugin[o]]
    BY <1>1, <2>1 DEF Types
  <2> QED
    BY <1>1, <2>2 DEF PairsAgree, ScaleTold, ClientOf, Up
<1>5. ResourcesOK'
  <2>1. Running' = Running
    BY <1>1 DEF Running
  <2>2. \A t \in Surfs : home'[t] = home[t] \/ home'[t] = c
    BY <1>1 DEF Types
  <2> QED
    BY <1>1, <2>1, <2>2 DEF ResourcesOK, ClientOf, Alive
<1>6. PhasesOK' /\ SurfaceThere'
  BY <1>1 DEF PhasesOK, SurfaceThere
<1> QED
  BY <1>2, <1>3, <1>4, <1>5, <1>6

LEMMA DestroySurfKeeps ==
  ASSUME OutputsAssumption, OutputsIInv, NEW s \in Surfs, DestroySurf(s)
  PROVE  OutputsIInv'
<1> USE DEF OutputsIInv
<1>1. /\ plugin' = [o \in Outputs |-> IF role[s] = o THEN None ELSE plugin[o]]
      /\ home' = [home EXCEPT ![s] = None] /\ role' = [role EXCEPT ![s] = None]
      /\ inert' = inert \ {s} /\ told' = [told EXCEPT ![s] = None]
      /\ UNCHANGED <<perOutput, late, started, color, unready, phase, done, described, global, scale,
                     frames, listed, stale, layer, crash>>
  BY DEF DestroySurf, modeVars, startVars, outputVars, resVars
<1>2. Switches'
  BY <1>1, Zenon DEF Switches
<1>3. Types'
  BY <1>1 DEF Types
<1>4. ASSUME NEW o \in Outputs, plugin'[o] # None
      PROVE  plugin'[o] = plugin[o] /\ plugin[o] \in Surfs /\ plugin[o] # s
  <2>1. plugin'[o] = plugin[o] /\ plugin[o] \in Surfs /\ role[s] # o
    BY <1>1, <1>4 DEF Types
  <2>2. role[plugin[o]] = o
    BY <1>4, <2>1 DEF PairsAgree
  <2> QED
    BY <2>1, <2>2
<1>5. PairsAgree'
  <2>1. ASSUME NEW o \in Outputs, plugin'[o] # None
        PROVE  /\ role'[plugin'[o]] = o /\ phase'[o] \in {"created", "shown"}
               /\ home'[plugin'[o]] = ClientOf(o)' /\ <<ClientOf(o)', o>> \in layer'
    <3>1. plugin'[o] = plugin[o] /\ plugin[o] \in Surfs /\ plugin[o] # s
      BY <1>4, <2>1
    <3>2. /\ role[plugin[o]] = o /\ phase[o] \in {"created", "shown"}
          /\ home[plugin[o]] = ClientOf(o) /\ <<ClientOf(o), o>> \in layer
      BY <2>1, <3>1 DEF PairsAgree
    <3>3. ClientOf(o)' = ClientOf(o)
      BY <1>1 DEF ClientOf
    <3> QED
      BY <1>1, <3>1, <3>2, <3>3 DEF Types
  <2>2. ASSUME NEW t \in Surfs, role'[t] # None PROVE plugin'[role'[t]] = t
    <3>1. t # s /\ role'[t] = role[t]
      BY <1>1, <2>2 DEF Types
    <3>2. role[t] \in Outputs /\ plugin[role[t]] = t
      BY <2>2, <3>1 DEF PairsAgree, Types
    <3>3. role[s] # role[t]
      BY <3>1, <3>2, <2>2 DEF PairsAgree, Types
    <3> QED
      BY <1>1, <3>1, <3>2, <3>3
  <2> QED
    BY <2>1, <2>2 DEF PairsAgree
<1>6. ResourcesOK'
  <2>1. Running' = Running
    BY <1>1 DEF Running
  <2>2. \A t \in Surfs : home'[t] = home[t] \/ home'[t] = None
    BY <1>1 DEF Types
  <2> QED
    BY <1>1, <2>1, <2>2 DEF ResourcesOK, ClientOf, Alive
<1>7. ScaleTold'
  <2> SUFFICES ASSUME NEW o \in Outputs, Up, plugin'[o] # None, scale[o] # 0
               PROVE  told'[plugin'[o]] \in {None, scale[o]}
    BY <1>1 DEF ScaleTold, Up
  <2>1. plugin'[o] = plugin[o] /\ plugin[o] \in Surfs /\ plugin[o] # s
    BY <1>4
  <2>2. told[plugin[o]] \in {None, scale[o]}
    BY <2>1 DEF ScaleTold
  <2> QED
    BY <1>1, <2>1, <2>2 DEF Types
<1>8. PhasesOK' /\ SurfaceThere'
  BY <1>1 DEF PhasesOK, SurfaceThere
<1> QED
  BY <1>2, <1>3, <1>5, <1>6, <1>7, <1>8

\* A surface becomes the one an output shows.
LEMMA LayerKeeps ==
  ASSUME OutputsAssumption, OutputsIInv, NEW s \in Surfs, NEW o \in Outputs,
         plugin[o] = None, role[s] = None, home[s] = ClientOf(o),
         phase[o] \in {"created", "shown"},
         plugin' = [plugin EXCEPT ![o] = s], role' = [role EXCEPT ![s] = o],
         layer' = layer \cup {<<ClientOf(o), o>>}, told' = TellScale(s, o),
         UNCHANGED <<modeVars, startVars, outputVars, frames, listed, stale, home, inert, crash>>
  PROVE  OutputsIInv'
<1> USE DEF OutputsIInv
<1>1. UNCHANGED <<perOutput, late, started, color, unready, phase, done, described, global, scale,
                  frames, listed, stale, home, inert, crash>>
  BY DEF modeVars, startVars, outputVars
<1>2. /\ ClientOf(o) \in Clients /\ s # None
      /\ \A q \in Outputs : ClientOf(q)' = ClientOf(q)
  BY <1>1 DEF ClientOf, Clients, OutputsAssumption
<1>3. Switches'
  BY <1>1, Zenon DEF Switches
<1>4. told' \in [Surfs -> Scales \cup {0, None}] /\ told' = IF scale[o] # 0 /\ told[s] # None
                                                            THEN [told EXCEPT ![s] = scale[o]] ELSE told
  BY DEF Types, TellScale
<1>5. Types'
  BY <1>1, <1>2, <1>4 DEF Types
<1>6. /\ plugin'[o] = s /\ role'[s] = o
      /\ \A q \in Outputs \ {o} : plugin'[q] = plugin[q]
      /\ \A t \in Surfs \ {s} : role'[t] = role[t]
  BY DEF Types
<1>7. \A q \in Outputs : plugin[q] # None => plugin[q] \in Surfs /\ plugin[q] # s /\ q # o
  <2> SUFFICES ASSUME NEW q \in Outputs, plugin[q] # None
               PROVE  plugin[q] \in Surfs /\ plugin[q] # s /\ q # o
    OBVIOUS
  <2>1. role[plugin[q]] = q /\ plugin[q] \in Surfs
    <3>1. plugin[q] \in Surfs
      BY DEF Types
    <3>2. role[plugin[q]] = q
      BY DEF PairsAgree
    <3> QED
      BY <3>1, <3>2
  <2>2. q # None
    BY DEF OutputsAssumption, Clients
  <2> QED
    BY <2>1, <2>2
<1>8. PairsAgree'
  <2>1. ASSUME NEW q \in Outputs, plugin'[q] # None
        PROVE  /\ role'[plugin'[q]] = q /\ phase'[q] \in {"created", "shown"}
               /\ home'[plugin'[q]] = ClientOf(q)' /\ <<ClientOf(q)', q>> \in layer'
    <3>1. CASE q = o
      BY <1>1, <1>2, <1>6, <3>1
    <3>2. CASE q # o
      <4>1. plugin'[q] = plugin[q] /\ plugin[q] \in Surfs /\ plugin[q] # s
        BY <1>6, <1>7, <2>1, <3>2
      <4>2. /\ role[plugin[q]] = q /\ phase[q] \in {"created", "shown"}
            /\ home[plugin[q]] = ClientOf(q) /\ <<ClientOf(q), q>> \in layer
        BY <2>1, <4>1 DEF PairsAgree
      <4> QED
        BY <1>1, <1>2, <1>6, <4>1, <4>2
    <3> QED
      BY <3>1, <3>2
  <2>2. ASSUME NEW t \in Surfs, role'[t] # None PROVE plugin'[role'[t]] = t
    <3>1. CASE t = s
      BY <1>6, <3>1
    <3>2. CASE t # s
      <4>1. role'[t] = role[t] /\ role[t] \in Outputs /\ plugin[role[t]] = t
        BY <1>6, <2>2, <3>2 DEF PairsAgree, Types
      <4>2. role[t] # o
        BY <4>1 DEF OutputsAssumption
      <4> QED
        BY <1>6, <4>1, <4>2
    <3> QED
      BY <3>1, <3>2
  <2> QED
    BY <2>1, <2>2 DEF PairsAgree
<1>9. ResourcesOK'
  <2>1. Running' = Running
    BY <1>1 DEF Running
  <2>2. \A l \in layer' : l[1] = ClientOf(l[2])'
    BY <1>2 DEF ResourcesOK, Types
  <2> QED
    BY <1>1, <2>1, <2>2 DEF ResourcesOK, Alive
<1>10. ScaleTold'
  <2> SUFFICES ASSUME NEW q \in Outputs, Up, plugin'[q] # None, scale[q] # 0
               PROVE  told'[plugin'[q]] \in {None, scale[q]}
    BY <1>1 DEF ScaleTold, Up
  <2>1. CASE q = o
    BY <1>4, <1>6, <2>1 DEF Types
  <2>2. CASE q # o
    <3>1. plugin'[q] = plugin[q] /\ plugin[q] \in Surfs /\ plugin[q] # s
      BY <1>6, <1>7, <2>2
    <3>2. told[plugin[q]] \in {None, scale[q]}
      BY <3>1 DEF ScaleTold
    <3> QED
      BY <1>4, <3>1, <3>2 DEF Types
  <2> QED
    BY <2>1, <2>2
<1>11. PhasesOK' /\ SurfaceThere'
  BY <1>1 DEF PhasesOK, SurfaceThere
<1> QED
  BY <1>3, <1>5, <1>8, <1>9, <1>10, <1>11

\* Whoever asks for a layer surface on an output is the client that serves it,
\* and the output is there unless the request crossed its removal.
LEMMA GetLayerSurfaceKeeps ==
  ASSUME OutputsAssumption, OutputsIInv, NEW s \in Surfs, NEW o \in Outputs, GetLayerSurface(s, o)
  PROVE  OutputsIInv'
<1> DEFINE c == home[s]
<1>1. /\ Program(c) /\ (Has("wl", c, o) \/ c = o)
      /\ \/ Late(o) /\ Ends("request")
         \/ Disconnect(c)
         \/ Alive(o) /\ plugin[o] = None /\ role[s] = None /\ c # ClientOf(o)
         \/ /\ Alive(o) /\ plugin[o] = None /\ role[s] = None
            /\ plugin' = [plugin EXCEPT ![o] = s] /\ role' = [role EXCEPT ![s] = o]
            /\ layer' = layer \cup {<<c, o>>} /\ told' = TellScale(s, o)
            /\ UNCHANGED <<modeVars, startVars, outputVars, frames, listed, stale, home, inert, crash>>
  BY DEF GetLayerSurface
<1>2. c \in Clients
  BY <1>1 DEF Program, Running, Clients
<1>3. /\ perOutput => c = o /\ phase[o] \in {"created", "shown"}
      /\ c = ClientOf(o)
  BY <1>1, <1>2, OwnOutput DEF Kinds
<1> HIDE DEF c
<1>4. CASE Late(o) /\ Ends("request")
  BY <1>3, <1>4, EndsKeeps DEF Late, Allowed
<1>5. CASE Disconnect(c)
  BY <1>2, <1>5, DisconnectKeeps
<1>6. CASE /\ Alive(o) /\ plugin[o] = None /\ role[s] = None
           /\ plugin' = [plugin EXCEPT ![o] = s] /\ role' = [role EXCEPT ![s] = o]
           /\ layer' = layer \cup {<<c, o>>} /\ told' = TellScale(s, o)
           /\ UNCHANGED <<modeVars, startVars, outputVars, frames, listed, stale, home, inert, crash>>
  <2>1. phase[o] \in {"created", "shown"}
    <3>1. CASE perOutput
      BY <1>3, <3>1
    <3>2. CASE ~perOutput
      <4>1. c # o
        BY <1>3, <3>2 DEF ClientOf, OutputsAssumption
      <4>2. o \in global
        BY <1>1, <4>1 DEF Has, OutputsIInv, ResourcesOK
      <4> QED
        BY <1>6, <4>2 DEF OutputsIInv, PhasesOK, Alive
    <3> QED
      BY <3>1, <3>2
  <2>2. home[s] = ClientOf(o)
    BY <1>3 DEF c
  <2> QED
    BY <1>3, <1>6, <2>1, <2>2, LayerKeeps
<1> QED
  BY <1>1, <1>3, <1>4, <1>5, <1>6

LEMMA GetFractionalScaleKeeps ==
  ASSUME OutputsAssumption, OutputsIInv, NEW s \in Surfs,
         GetFractionalScale(s) \/ DestroyFractionalScale(s)
  PROVE  OutputsIInv'
<1>1. UNCHANGED <<modeVars, startVars, outputVars, plugin, frames, resVars, home, role, inert, crash>>
  BY DEF GetFractionalScale, DestroyFractionalScale
<1>2. Types /\ PairsAgree /\ ScaleTold
  BY DEF OutputsIInv
<1>3. \/ told' = [told EXCEPT ![s] = IF role[s] = None THEN 0 ELSE scale[role[s]]]
      \/ told' = [told EXCEPT ![s] = None]
  BY DEF GetFractionalScale, DestroyFractionalScale
<1>4. told' \in [Surfs -> Scales \cup {0, None}]
  BY <1>2, <1>3 DEF Types
<1>5. ScaleTold'
  <2> SUFFICES ASSUME NEW o \in Outputs, Up, plugin[o] # None, scale[o] # 0
               PROVE  told'[plugin[o]] \in {None, scale[o]}
    BY <1>1 DEF ScaleTold, Up, outputVars
  <2>1. plugin[o] \in Surfs /\ role[plugin[o]] = o /\ told[plugin[o]] \in {None, scale[o]}
    <3>1. plugin[o] \in Surfs
      BY <1>2 DEF Types
    <3>2. role[plugin[o]] = o
      BY <1>2 DEF PairsAgree
    <3>3. told[plugin[o]] \in {None, scale[o]}
      BY <1>2 DEF ScaleTold
    <3> QED
      BY <3>1, <3>2, <3>3
  <2>2. CASE plugin[o] = s
    <3>1. role[s] = o /\ o # None
      BY <2>1, <2>2 DEF OutputsAssumption, Clients
    <3>2. told'[s] \in {None, scale[o]}
      BY <1>2, <1>3, <3>1 DEF Types
    <3> QED
      BY <2>2, <3>2
  <2>3. CASE plugin[o] # s
    BY <1>2, <1>3, <2>1, <2>3 DEF Types
  <2> QED
    BY <2>2, <2>3
<1>6. scale' \in [Outputs -> Scales \cup {0}]
  BY <1>1, <1>2 DEF outputVars, Types
<1> QED
  BY <1>1, <1>4, <1>5, <1>6, ToldKeeps DEF outputVars

-----------------------------------------------------------------------------
(* The theorems *)

\* The phases of the outputs, the resources and the pointers stay together.
LEMMA OutputsInductive == Spec => []OutputsIInv
<1>1. Init => OutputsIInv
  <2> SUFFICES ASSUME Init PROVE OutputsIInv
    OBVIOUS
  <2>1. Switches
    BY Zenon DEF Init, Switches
  <2>2. Types
    BY DEF Init, Types, Phases
  <2>3. PairsAgree /\ ResourcesOK /\ PhasesOK /\ ScaleTold /\ SurfaceThere
    BY DEF Init, PairsAgree, ResourcesOK, PhasesOK, ScaleTold, SurfaceThere
  <2> QED
    BY <2>1, <2>2, <2>3 DEF OutputsIInv
<1>2. OutputsIInv /\ [Next]_vars => OutputsIInv'
  <2> SUFFICES ASSUME OutputsIInv, [Next]_vars PROVE OutputsIInv'
    OBVIOUS
  <2> USE OutputsAssumption
  <2>1. CASE Compositor
    BY <2>1, HandleColorManagerKeeps, StartKeeps, HandleGlobalKeeps, HandleDoneKeeps,
       HandleDescribedKeeps, FirstConfigureKeeps, FrameDoneKeeps, DestroySurfaceKeeps,
       PreferredScaleKeeps DEF Compositor
  <2>2. ASSUME NEW c \in Clients, NEW o \in Outputs,
               \/ BindOutput(c, o) \/ GetXdgOutput(c, o) \/ GetColorOutput(c, o)
               \/ GetOutputDescription(c, o) \/ AckConfigure(c, o)
               \/ \E k \in Kinds : DestroyOutputObject(k, c, o)
        PROVE  OutputsIInv'
    BY <2>2, BindOutputKeeps, GetXdgOutputKeeps, GetColorOutputKeeps, GetOutputDescriptionKeeps,
       AckConfigureKeeps, DestroyOutputObjectKeeps
  <2>3. ASSUME NEW s \in Surfs, DestroySurf(s) PROVE OutputsIInv'
    BY <2>3, DestroySurfKeeps
  <2>4. ASSUME NEW s \in Surfs, Commit(s) PROVE OutputsIInv'
    <3>1. frames' \subseteq Outputs
      BY <2>4 DEF Commit, OutputsIInv, Types
    <3> QED
      BY <2>4, <3>1, FramesKeeps DEF Commit
  <2>5. ASSUME NEW s \in Surfs, GetFractionalScale(s) \/ DestroyFractionalScale(s) PROVE OutputsIInv'
    BY <2>5, GetFractionalScaleKeeps
  <2>6. ASSUME NEW s \in Surfs, NEW o \in Outputs, GetLayerSurface(s, o) PROVE OutputsIInv'
    BY <2>6, GetLayerSurfaceKeeps
  <2>7. ASSUME NEW c \in Clients, ProgramDies(c) PROVE OutputsIInv'
    BY <2>7, DisconnectKeeps DEF ProgramDies
  <2>8. ASSUME NEW c \in Clients, NEW s \in Surfs, CreateSurf(c, s) PROVE OutputsIInv'
    BY <2>8, CreateSurfKeeps
  <2>9. CASE Programs
    BY <2>2, <2>3, <2>4, <2>5, <2>6, <2>7, <2>8, <2>9 DEF Programs
  <2>10. CASE UNCHANGED vars
    <3>1. frames' \subseteq Outputs
      BY <2>10 DEF vars, OutputsIInv, Types
    <3> QED
      BY <2>10, <3>1, FramesKeeps DEF vars
  <2> QED
    BY <2>1, <2>9, <2>10 DEF Next
<1> QED
  BY <1>1, <1>2, OutputsAssumption, PTL DEF Spec

\* plugin_surface and sway_surface point at each other, a layer surface resource
\* goes with them, and no resource outlives its program or stays in a list of a
\* freed swaylock_surface, whenever outputs come and go and programs die.
THEOREM OutputsInvariant == Spec => []OutputsInv
<1>1. OutputsIInv => OutputsInv
  BY OutputsIInvImplies
<1> QED
  BY <1>1, OutputsInductive, PTL

\* A program's fractional scale object knows the scale of the output its surface
\* is on, in whichever order the scale, the surface and the object came.
THEOREM ScaleAlwaysTold == Spec => []ScaleTold
<1>1. OutputsIInv => ScaleTold
  BY OutputsIInvImplies
<1> QED
  BY <1>1, OutputsInductive, PTL

\* A handler finds the swaylock_surface, the list, the description and the
\* client it needs, but for the causes SurfaceThere names.
THEOREM SurfaceAlwaysThere == Spec => []SurfaceThere
<1>1. OutputsIInv => SurfaceThere
  BY OutputsIInvImplies
<1> QED
  BY <1>1, OutputsInductive, PTL

-----------------------------------------------------------------------------
(* Image descriptions: the count of the cached properties *)

Holders(de, p) == {d \in Descs : de[d] # NULL /\ de[d].props = p}

\* The counts r are those of the holders: the cache's two pointers, cu and pe, and
\* the descriptions de.
Counted(r, cu, pe, de) ==
  \A p \in Props : r[p] = One(cu = p) + One(pe = p) + Cardinality(Holders(de, p))

LEMMA HoldersProperties ==
  ASSUME ColorDescsAssumption, NEW de, NEW p
  PROVE  /\ IsFiniteSet(Holders(de, p)) /\ Cardinality(Holders(de, p)) \in Nat
         /\ Cardinality(Holders(de, p)) <= Cardinality(Descs) /\ Cardinality(Descs) \in Nat
         /\ Cardinality(Holders(de, p)) = 0 => Holders(de, p) = {}
<1>1. Holders(de, p) \in SUBSET Descs /\ IsFiniteSet(Descs)
  BY DEF Holders, ColorDescsAssumption
<1>2. IsFiniteSet(Holders(de, p)) /\ Cardinality(Holders(de, p)) <= Cardinality(Descs)
  BY <1>1, FS_Subset
<1>3. Cardinality(Holders(de, p)) \in Nat /\ Cardinality(Descs) \in Nat
  BY <1>1, <1>2, FS_CardinalityType
<1>4. Cardinality(Holders(de, p)) = 0 => Holders(de, p) = {}
  BY <1>2, FS_EmptySet
<1> QED
  BY <1>2, <1>3, <1>4

LEMMA CountedRange ==
  ASSUME ColorDescsAssumption, NEW cu \in Props \cup {NULL}, NEW pe, cu # NULL => cu # pe, NEW de,
         NEW r, r = [p \in Props |-> r[p]], Counted(r, cu, pe, de)
  PROVE  r \in [Props -> 0 .. Cardinality(Descs) + 1]
<1> SUFFICES ASSUME NEW p \in Props PROVE r[p] \in 0 .. Cardinality(Descs) + 1
  OBVIOUS
<1>1. r[p] = One(cu = p) + One(pe = p) + Cardinality(Holders(de, p))
  BY DEF Counted
<1>2. One(cu = p) + One(pe = p) \in {0, 1}
  BY DEF One, ColorDescsAssumption
<1>3. /\ Cardinality(Holders(de, p)) \in Nat /\ Cardinality(Descs) \in Nat
      /\ Cardinality(Holders(de, p)) <= Cardinality(Descs)
  BY HoldersProperties
<1> HIDE DEF Holders
<1> QED
  BY <1>1, <1>2, <1>3

\* While no request is pending some properties are not allocated.
LEMMA Unallocated ==
  ASSUME ColorDescsAssumption, NEW cu, NEW de, NEW r, Counted(r, cu, NULL, de)
  PROVE  \E p \in Props : r[p] = 0
<1> SUFFICES ASSUME \A p \in Props : r[p] # 0 PROVE FALSE
  OBVIOUS
<1> DEFINE f == [p \in Props |-> IF p = cu THEN NULL
                                 ELSE CHOOSE d \in Descs : de[d] # NULL /\ de[d].props = p]
<1>1. ASSUME NEW p \in Props, p # cu PROVE \E d \in Descs : de[d] # NULL /\ de[d].props = p
  <2>1. r[p] = One(cu = p) + One(NULL = p) + Cardinality(Holders(de, p))
    BY DEF Counted
  <2>2. One(cu = p) = 0 /\ One(NULL = p) = 0
    BY <1>1 DEF One, ColorDescsAssumption
  <2>3. Cardinality(Holders(de, p)) # 0
    BY <2>1, <2>2, HoldersProperties
  <2>4. Holders(de, p) # {}
    BY <2>3, FS_EmptySet
  <2> QED
    BY <2>4 DEF Holders
<1>2. \A p \in Props : IF p = cu THEN f[p] = NULL ELSE f[p] \in Descs /\ de[f[p]].props = p
  BY <1>1
<1>3. f \in [Props -> Descs \cup {NULL}]
  BY <1>2
<1>4. /\ IsFiniteSet(Props) /\ IsFiniteSet(Descs \cup {NULL})
      /\ Cardinality(Descs \cup {NULL}) < Cardinality(Props)
  <2>1. IsFiniteSet(Descs) /\ NULL \notin Descs /\ IsFiniteSet(Props)
        /\ Cardinality(Props) >= Cardinality(Descs) + 2
    BY DEF ColorDescsAssumption
  <2>2. IsFiniteSet(Descs \cup {NULL}) /\ Cardinality(Descs \cup {NULL}) = Cardinality(Descs) + 1
    BY <2>1, FS_AddElement
  <2>3. Cardinality(Descs) \in Nat /\ Cardinality(Props) \in Nat
    BY <2>1, FS_CardinalityType
  <2> QED
    BY <2>1, <2>2, <2>3
<1> HIDE DEF f
<1>5. PICK x, y \in Props : x # y /\ f[x] = f[y]
  BY <1>3, <1>4, FS_PigeonHole
<1> QED
  BY <1>2, <1>5 DEF ColorDescsAssumption

-----------------------------------------------------------------------------
(* Image descriptions: the inductive invariant *)

CacheSwitches ==
  /\ kind \in {"output", "preferred"} /\ dirty \in BOOLEAN /\ info \in BOOLEAN
  /\ stage \in {"asked", "answered", "ready", "none"} /\ fault \in Faults \cup {"none"}

CacheTypes ==
  /\ version \in 0 .. MaxVersion /\ changes \in 0 .. MaxVersion
  /\ current \in Props \cup {NULL} /\ pending \in Props \cup {NULL}
  /\ stage = "none" <=> pending = NULL
  /\ refs \in [Props -> 0 .. Cardinality(Descs) + 1]
  /\ of \in [Props -> 0 .. MaxVersion]

HolderTypes ==
  /\ desc \in [Descs -> Descriptions \cup {NULL}]
  /\ pend \in [Surfaces -> Descs \cup {NULL}] /\ comm \in [Surfaces -> Descs \cup {NULL}]

\* What is asked for is not what plugins are answered with, and has the version
\* the compositor has now, unless a change is on its way or marked.
CacheOK ==
  Sound => /\ changes <= version
           /\ current # NULL => current # pending
           /\ stage \in {"answered", "ready"} /\ of[pending] # version => changes > 0 \/ dirty
           /\ Counted(refs, current, pending, desc)

DescsIInv ==
  /\ CacheSwitches /\ CacheTypes /\ HolderTypes
  /\ CacheOK /\ NoChangeLost /\ DescsLive /\ NoDescLeak

LEMMA DescsIInvImplies ==
  DescsIInv => DescsInv /\ NoChangeLost
<1> SUFFICES ASSUME DescsIInv PROVE DescsInv /\ NoChangeLost
  OBVIOUS
<1> USE DEF DescsIInv
<1>1. DescsTypeOK
  BY Zenon DEF DescsTypeOK, CacheSwitches, CacheTypes, HolderTypes
<1>2. RefsExact
  BY DEF RefsExact, CacheOK, Counted, Holders
<1> QED
  BY <1>1, <1>2 DEF DescsInv

-----------------------------------------------------------------------------
(* Image descriptions: the cache *)

\* A new request, while no other is pending, is for properties nobody holds.
LEMMA Requested ==
  ASSUME ColorDescsAssumption, DescsIInv, Sound, NEW c \in Props \cup {NULL},
         NEW r, r = [p \in Props |-> r[p]], Counted(r, c, NULL, desc), RequestNew(r)
  PROVE  /\ dirty' = FALSE /\ refs' \in [Props -> 0 .. Cardinality(Descs) + 1]
         /\ \/ /\ fault' = "none" /\ pending' \in Props /\ pending' # c /\ stage' = "asked"
               /\ Counted(refs', c, pending', desc)
            \/ fault' = "assert_info" /\ pending' = NULL /\ stage' = "none"
<1>1. dirty' = FALSE
  BY DEF RequestNew
<1>2. CASE info
  <2>1. fault' = "assert_info" /\ pending' = NULL /\ stage' = "none" /\ refs' = r
    BY <1>2 DEF RequestNew
  <2>2. r \in [Props -> 0 .. Cardinality(Descs) + 1]
    BY CountedRange
  <2> QED
    BY <1>1, <2>1, <2>2
<1>3. CASE ~info
  <2>1. /\ pending' = CHOOSE p \in Props : r[p] = 0
        /\ stage' = "asked" /\ refs' = [r EXCEPT ![pending'] = 1] /\ fault' = "none"
    BY <1>3 DEF RequestNew, Sound
  <2>2. pending' \in Props /\ r[pending'] = 0
    BY <2>1, Unallocated
  <2>3. pending' # c
    <3>1. r[pending'] = One(c = pending') + One(NULL = pending') + Cardinality(Holders(desc, pending'))
      BY <2>2 DEF Counted
    <3>2. Cardinality(Holders(desc, pending')) \in Nat
      BY HoldersProperties
    <3>3. One(NULL = pending') \in {0, 1}
      BY DEF One
    <3> QED
      BY <2>2, <3>1, <3>2, <3>3 DEF One
  <2>4. Counted(refs', c, pending', desc)
    <3> SUFFICES ASSUME NEW p \in Props
                 PROVE  refs'[p] = One(c = p) + One(pending' = p) + Cardinality(Holders(desc, p))
      BY DEF Counted
    <3>1. r[p] = One(c = p) + One(NULL = p) + Cardinality(Holders(desc, p))
      BY DEF Counted
    <3>2. Cardinality(Holders(desc, p)) \in Nat /\ One(c = p) \in {0, 1} /\ One(NULL = p) = 0
      BY HoldersProperties DEF One, ColorDescsAssumption
    <3>3. CASE p = pending'
      <4>1. refs'[p] = 1
        BY <2>1, <2>2, <3>3
      <4>2. One(c = p) + Cardinality(Holders(desc, p)) = 0
        BY <2>2, <3>1, <3>2, <3>3
      <4>3. One(pending' = p) = 1
        BY <3>3 DEF One
      <4> QED
        BY <3>2, <4>1, <4>2, <4>3
    <3>4. CASE p # pending'
      <4>1. refs'[p] = r[p]
        BY <2>1, <3>4
      <4>2. One(pending' = p) = 0
        BY <3>4 DEF One
      <4> QED
        BY <3>1, <3>2, <4>1, <4>2
    <3> QED
      BY <3>3, <3>4
  <2>5. refs' = [p \in Props |-> refs'[p]]
    BY <2>1
  <2>6. refs' \in [Props -> 0 .. Cardinality(Descs) + 1]
    BY <2>3, <2>4, <2>5, CountedRange
  <2> QED
    BY <1>1, <2>1, <2>2, <2>3, <2>4, <2>6
<1> QED
  BY <1>2, <1>3

\* A step of the cache: the plugins' descriptions stay.
LEMMA CacheStepKeeps ==
  ASSUME ColorDescsAssumption, DescsIInv, Sound, UNCHANGED <<kind, descVars>>,
         dirty' \in BOOLEAN, info' \in BOOLEAN, CacheTypes',
         stage' \in {"asked", "answered", "ready", "none"}, fault' \in Faults \cup {"none"},
         Sound' => /\ changes' <= version'
                   /\ current' # NULL => current' # pending'
                   /\ stage' \in {"answered", "ready"} /\ of'[pending'] # version'
                        => changes' > 0 \/ dirty'
                   /\ Counted(refs', current', pending', desc)
                   /\ NoChangeLost'
  PROVE  DescsIInv'
<1> USE DEF DescsIInv
<1>1. CacheSwitches'
  BY Zenon DEF CacheSwitches
<1>2. UNCHANGED <<desc, pend, comm>>
  BY DEF descVars
<1>3. HolderTypes' /\ DescsLive' /\ NoDescLeak'
  BY <1>2 DEF HolderTypes, DescsLive, NoDescLeak
<1>4. CacheOK' /\ NoChangeLost'
  BY <1>2 DEF CacheOK, NoChangeLost
<1> QED
  BY <1>1, <1>3, <1>4

LEMMA CompositorChangesKeeps ==
  ASSUME ColorDescsAssumption, DescsIInv, CompositorChanges, UNCHANGED kind
  PROVE  DescsIInv'
<1> USE DEF DescsIInv
<1>1. /\ Sound /\ version < MaxVersion /\ version' = version + 1 /\ changes' = changes + 1
      /\ UNCHANGED <<kind, current, pending, dirty, info, stage, of, refs, desc, pend, comm, fault>>
  BY DEF CompositorChanges, cacheVars, descVars
<1>2. changes' <= version' /\ changes' > 0 /\ MaxVersion \in Nat /\ version' \in 0 .. MaxVersion
      /\ changes' \in 0 .. MaxVersion
  BY <1>1 DEF CacheOK, CacheTypes, ColorDescsAssumption
<1>3. CacheTypes'
  BY <1>1, <1>2 DEF CacheTypes
<1>4. NoChangeLost'
  BY <1>2 DEF NoChangeLost
<1>5. /\ dirty' \in BOOLEAN /\ info' \in BOOLEAN
      /\ stage' \in {"asked", "answered", "ready", "none"} /\ fault' \in Faults \cup {"none"}
  BY <1>1, Zenon DEF CacheSwitches
<1>6. UNCHANGED <<kind, descVars>>
  BY <1>1 DEF descVars
<1>7. (current' # NULL => current' # pending') /\ Counted(refs', current', pending', desc)
  BY <1>1 DEF CacheOK
<1> QED
  BY <1>1, <1>2, <1>3, <1>4, <1>5, <1>6, <1>7, CacheStepKeeps

LEMMA PreferredChangedKeeps ==
  ASSUME ColorDescsAssumption, DescsIInv, PreferredChanged, UNCHANGED kind
  PROVE  DescsIInv'
<1> USE DEF DescsIInv
<1>1. /\ Sound /\ changes > 0 /\ changes' = changes - 1
      /\ UNCHANGED <<kind, version, current, info, of, desc, pend, comm>>
  BY DEF PreferredChanged, descVars
<1>2. /\ changes \in 0 .. MaxVersion /\ changes' \in 0 .. MaxVersion /\ changes' <= version
      /\ version \in 0 .. MaxVersion /\ MaxVersion \in Nat
  BY <1>1 DEF CacheOK, CacheTypes, ColorDescsAssumption
<1>3. UNCHANGED <<kind, descVars>> /\ info' \in BOOLEAN
  <2>1. info \in BOOLEAN
    BY Zenon DEF CacheSwitches
  <2> QED
    BY <1>1, <2>1 DEF descVars
<1>4. CASE pending # NULL
  <2>1. dirty' = TRUE /\ UNCHANGED <<pending, stage, refs, fault>>
    BY <1>4 DEF PreferredChanged
  <2>2. CacheTypes'
    BY <1>1, <1>2, <2>1 DEF CacheTypes
  <2>3. stage' \in {"asked", "answered", "ready", "none"} /\ fault' \in Faults \cup {"none"} /\ dirty' \in BOOLEAN
    BY <2>1, Zenon DEF CacheSwitches
  <2>4. (current' # NULL => current' # pending') /\ Counted(refs', current', pending', desc)
    BY <1>1, <2>1 DEF CacheOK
  <2>5. NoChangeLost'
    BY <1>4, <2>1 DEF NoChangeLost
  <2> QED
    BY <1>1, <1>2, <1>3, <2>1, <2>2, <2>3, <2>4, <2>5, CacheStepKeeps
<1>5. CASE pending = NULL
  <2>1. RequestNew(refs)
    BY <1>5 DEF PreferredChanged
  <2>2. current \in Props \cup {NULL} /\ refs = [p \in Props |-> refs[p]]
    BY DEF CacheTypes
  <2>3. Counted(refs, current, NULL, desc)
    BY <1>1, <1>5 DEF CacheOK
  <2>4. /\ dirty' = FALSE /\ refs' \in [Props -> 0 .. Cardinality(Descs) + 1]
        /\ \/ /\ fault' = "none" /\ pending' \in Props /\ pending' # current /\ stage' = "asked"
              /\ Counted(refs', current, pending', desc)
           \/ fault' = "assert_info" /\ pending' = NULL /\ stage' = "none"
    BY <1>1, <2>1, <2>2, <2>3, Requested
  <2>5. CacheTypes'
    BY <1>1, <1>2, <2>2, <2>4 DEF CacheTypes, ColorDescsAssumption
  <2>6. NoChangeLost'
    BY <2>4 DEF NoChangeLost, Sound
  <2>7. /\ stage' \in {"asked", "answered", "ready", "none"} /\ fault' \in Faults \cup {"none"}
        /\ dirty' \in BOOLEAN
    BY <2>4 DEF Faults
  <2>8. Sound' => /\ current' # NULL => current' # pending'
                  /\ stage' \notin {"answered", "ready"}
                  /\ Counted(refs', current', pending', desc)
    BY <1>1, <2>4 DEF Sound
  <2> QED
    BY <1>1, <1>2, <1>3, <2>5, <2>6, <2>7, <2>8, CacheStepKeeps
<1> QED
  BY <1>4, <1>5

\* The handler that takes the swaylock_surface for the state corrupts it.
LEMMA OutputChangedKeeps ==
  ASSUME ColorDescsAssumption, DescsIInv, OutputChanged, UNCHANGED kind
  PROVE  DescsIInv'
<1> USE DEF DescsIInv
<1>1. /\ Sound /\ changes > 0 /\ changes' = changes - 1 /\ fault' = "corrupted"
      /\ UNCHANGED <<kind, version, current, pending, dirty, info, stage, of, refs, desc, pend, comm>>
  BY DEF OutputChanged, cacheVars, descVars
<1>2. CacheTypes' /\ ~Sound'
  BY <1>1 DEF CacheTypes, Sound, ColorDescsAssumption
<1>3. dirty' \in BOOLEAN /\ info' \in BOOLEAN /\ stage' \in {"asked", "answered", "ready", "none"}
  BY <1>1, Zenon DEF CacheSwitches
<1>4. UNCHANGED <<kind, descVars>> /\ fault' \in Faults \cup {"none"}
  BY <1>1 DEF descVars, Faults
<1> QED
  BY <1>1, <1>2, <1>3, <1>4, CacheStepKeeps

LEMMA CompositorAnswersKeeps ==
  ASSUME ColorDescsAssumption, DescsIInv, CompositorAnswers, UNCHANGED kind
  PROVE  DescsIInv'
<1> USE DEF DescsIInv
<1>1. /\ Sound /\ stage = "asked" /\ stage' = "answered"
      /\ of' = [of EXCEPT ![pending] = version]
      /\ UNCHANGED <<kind, version, changes, current, pending, dirty, info, refs, desc, pend, comm,
                    fault>>
  BY DEF CompositorAnswers, descVars
<1>2. pending \in Props /\ pending # NULL /\ of'[pending] = version
  BY <1>1 DEF CacheTypes
<1>3. CacheTypes'
  BY <1>1, <1>2 DEF CacheTypes
<1>4. NoChangeLost'
  BY <1>1, <1>2 DEF NoChangeLost
<1>5. dirty' \in BOOLEAN /\ info' \in BOOLEAN /\ fault' \in Faults \cup {"none"}
  BY <1>1, Zenon DEF CacheSwitches
<1>6. UNCHANGED <<kind, descVars>> /\ stage' \in {"asked", "answered", "ready", "none"}
  BY <1>1 DEF descVars
<1>7. /\ changes' <= version' /\ (current' # NULL => current' # pending')
      /\ of'[pending'] = version' /\ Counted(refs', current', pending', desc)
  BY <1>1, <1>2 DEF CacheOK
<1> QED
  BY <1>1, <1>3, <1>4, <1>5, <1>6, <1>7, CacheStepKeeps

LEMMA HandleReadyKeeps ==
  ASSUME ColorDescsAssumption, DescsIInv, HandleReady, UNCHANGED kind
  PROVE  DescsIInv'
<1> USE DEF DescsIInv
<1>1. /\ Sound /\ stage = "answered" /\ info' = TRUE /\ stage' = "ready"
      /\ UNCHANGED <<kind, version, changes, current, pending, dirty, of, refs, desc, pend, comm,
                    fault>>
  BY DEF HandleReady, descVars
<1>2. CacheTypes'
  BY <1>1 DEF CacheTypes
<1>3. NoChangeLost'
  BY <1>1 DEF NoChangeLost
<1>4. dirty' \in BOOLEAN /\ info' \in BOOLEAN /\ fault' \in Faults \cup {"none"}
  BY <1>1, Zenon DEF CacheSwitches
<1>5. UNCHANGED <<kind, descVars>> /\ stage' \in {"asked", "answered", "ready", "none"}
  BY <1>1 DEF descVars
<1>6. /\ changes' <= version' /\ (current' # NULL => current' # pending')
      /\ of'[pending'] # version' => changes' > 0 \/ dirty'
      /\ Counted(refs', current', pending', desc)
  BY <1>1 DEF CacheOK
<1> QED
  BY <1>1, <1>2, <1>3, <1>4, <1>5, <1>6, CacheStepKeeps

\* The answer becomes current, and is asked for again if it may be outdated.
LEMMA PublishKeeps ==
  ASSUME ColorDescsAssumption, DescsIInv, Sound, pending # NULL, Publish,
         UNCHANGED <<kind, version, changes, info, of, desc, pend, comm>>,
         of[pending] # version => changes > 0 \/ dirty
  PROVE  DescsIInv'
<1> USE DEF DescsIInv
<1>1. /\ pending \in Props /\ current \in Props \cup {NULL} /\ NULL \notin Props
      /\ refs = [p \in Props |-> refs[p]] /\ current' = pending
  BY DEF CacheTypes, Publish, ColorDescsAssumption
<1> DEFINE r == Unref(current, refs)
<1>2. r = [p \in Props |-> r[p]] /\ Counted(r, pending, NULL, desc)
  <2>1. r = [p \in Props |-> r[p]] /\ \A p \in Props : r[p] = IF p = current THEN refs[p] - 1 ELSE refs[p]
    BY <1>1 DEF Unref
  <2> HIDE DEF r
  <2>2. ASSUME NEW p \in Props
        PROVE  r[p] = One(pending = p) + One(NULL = p) + Cardinality(Holders(desc, p))
    <3>1. refs[p] = One(current = p) + One(pending = p) + Cardinality(Holders(desc, p))
      BY DEF CacheOK, Counted
    <3>2. /\ Cardinality(Holders(desc, p)) \in Nat /\ One(NULL = p) = 0 /\ One(pending = p) \in {0, 1}
          /\ One(current = p) = IF p = current THEN 1 ELSE 0
      BY <1>1, HoldersProperties DEF One
    <3> QED
      BY <2>1, <3>1, <3>2
  <2> QED
    BY <2>1, <2>2 DEF Counted
<1>3. UNCHANGED <<kind, descVars>> /\ info' \in BOOLEAN /\ (changes <= version) /\ dirty \in BOOLEAN
  <2>1. info \in BOOLEAN /\ dirty \in BOOLEAN
    BY Zenon DEF CacheSwitches
  <2> QED
    BY <2>1 DEF descVars, CacheOK
<1>4. CASE dirty
  <2>1. RequestNew(r)
    BY <1>4 DEF Publish
  <2> HIDE DEF r
  <2>2. /\ dirty' = FALSE /\ refs' \in [Props -> 0 .. Cardinality(Descs) + 1]
        /\ \/ /\ fault' = "none" /\ pending' \in Props /\ pending' # pending /\ stage' = "asked"
              /\ Counted(refs', pending, pending', desc)
           \/ fault' = "assert_info" /\ pending' = NULL /\ stage' = "none"
    BY <1>1, <1>2, <2>1, Requested
  <2>3. CacheTypes'
    BY <1>1, <2>2 DEF CacheTypes
  <2>4. NoChangeLost'
    BY <2>2 DEF NoChangeLost, Sound
  <2>5. /\ stage' \in {"asked", "answered", "ready", "none"} /\ fault' \in Faults \cup {"none"}
        /\ dirty' \in BOOLEAN
    BY <2>2 DEF Faults
  <2>6. Sound' => /\ current' # NULL => current' # pending'
                  /\ stage' \notin {"answered", "ready"}
                  /\ Counted(refs', current', pending', desc)
    BY <1>1, <2>2 DEF Sound
  <2> QED
    BY <1>3, <2>3, <2>4, <2>5, <2>6, CacheStepKeeps
<1>5. CASE ~dirty
  <2>1. /\ pending' = NULL /\ stage' = "none" /\ refs' = r /\ dirty' = dirty /\ fault' = fault
    BY <1>5 DEF Publish
  <2> HIDE DEF r
  <2>2. refs' \in [Props -> 0 .. Cardinality(Descs) + 1]
    BY <1>1, <1>2, <2>1, CountedRange
  <2>3. CacheTypes'
    BY <1>1, <2>1, <2>2 DEF CacheTypes
  <2>4. NoChangeLost'
    BY <1>1, <1>5, <2>1 DEF NoChangeLost
  <2>5. /\ stage' \in {"asked", "answered", "ready", "none"} /\ fault' \in Faults \cup {"none"}
        /\ dirty' \in BOOLEAN
    BY <1>3, <2>1 DEF Sound
  <2>6. /\ current' # NULL => current' # pending'
        /\ stage' \notin {"answered", "ready"}
        /\ Counted(refs', current', pending', desc)
    BY <1>1, <1>2, <2>1
  <2> QED
    BY <1>3, <2>3, <2>4, <2>5, <2>6, CacheStepKeeps
<1> QED
  BY <1>3, <1>4, <1>5

LEMMA InfoHandleDoneKeeps ==
  ASSUME ColorDescsAssumption, DescsIInv, InfoHandleDone, UNCHANGED kind
  PROVE  DescsIInv'
<1>1. /\ Sound /\ stage = "ready" /\ Publish
      /\ UNCHANGED <<kind, version, changes, info, of, desc, pend, comm>>
  BY DEF InfoHandleDone, descVars
<1>2. pending # NULL
  BY <1>1 DEF DescsIInv, CacheTypes
<1>3. of[pending] # version => changes > 0 \/ dirty
  BY <1>1 DEF DescsIInv, CacheOK
<1> QED
  BY <1>1, <1>2, <1>3, PublishKeeps

LEMMA HandleFailedKeeps ==
  ASSUME ColorDescsAssumption, DescsIInv, HandleFailed, UNCHANGED kind
  PROVE  DescsIInv'
<1>1. /\ Sound /\ stage = "answered" /\ Publish
      /\ UNCHANGED <<kind, version, changes, info, of, desc, pend, comm>>
  BY DEF HandleFailed, descVars
<1>2. pending # NULL
  BY <1>1 DEF DescsIInv, CacheTypes
<1>3. of[pending] # version => changes > 0 \/ dirty
  BY <1>1 DEF DescsIInv, CacheOK
<1> QED
  BY <1>1, <1>2, <1>3, PublishKeeps

-----------------------------------------------------------------------------
(* Image descriptions: the plugin's *)

\* A step of the descriptions: the cache stays but for its counts.
LEMMA HolderStepKeeps ==
  ASSUME ColorDescsAssumption, DescsIInv, Sound, UNCHANGED <<kind, version, changes, cacheVars>>,
         fault' \in Faults \cup {"none"}, refs' = [p \in Props |-> refs'[p]],
         Counted(refs', current, pending, desc'),
         HolderTypes', DescsLive', NoDescLeak'
  PROVE  DescsIInv'
<1> USE DEF DescsIInv
<1>1. UNCHANGED <<kind, version, changes, current, pending, dirty, info, stage, of>>
  BY DEF cacheVars
<1>2. CacheSwitches'
  BY <1>1, Zenon DEF CacheSwitches
<1>3. current \in Props \cup {NULL} /\ (current # NULL => current # pending)
  BY DEF CacheTypes, CacheOK
<1>4. refs' \in [Props -> 0 .. Cardinality(Descs) + 1]
  BY <1>3, CountedRange
<1>5. CacheTypes'
  BY <1>1, <1>4 DEF CacheTypes
<1>6. CacheOK'
  BY <1>1 DEF CacheOK
<1>7. NoChangeLost'
  BY <1>1 DEF NoChangeLost
<1> QED
  BY <1>2, <1>5, <1>6, <1>7

LEMMA GetDescriptionKeeps ==
  ASSUME ColorDescsAssumption, DescsIInv, NEW d \in Descs, GetDescription(d), UNCHANGED kind
  PROVE  DescsIInv'
<1> USE DEF DescsIInv
<1>1. /\ Sound /\ desc[d] = NULL
      /\ UNCHANGED <<kind, version, changes, cacheVars, pend, comm>>
  BY DEF GetDescription
<1>2. /\ current \in Props \cup {NULL} /\ NULL \notin Props /\ NULL \notin Descriptions
      /\ refs \in [Props -> 0 .. Cardinality(Descs) + 1]
      /\ desc \in [Descs -> Descriptions \cup {NULL}]
      /\ Counted(refs, current, pending, desc)
  BY <1>1 DEF CacheTypes, HolderTypes, CacheOK, ColorDescsAssumption
<1>3. CASE current = NULL
  <2>1. fault' = "null" /\ UNCHANGED <<desc, refs>>
    BY <1>3 DEF GetDescription
  <2>2. fault' \in Faults \cup {"none"} /\ HolderTypes' /\ DescsLive' /\ NoDescLeak'
    BY <1>1, <2>1 DEF HolderTypes, DescsLive, NoDescLeak, Sound, Faults
  <2>3. refs' = [p \in Props |-> refs'[p]] /\ Counted(refs', current, pending, desc')
    BY <1>2, <2>1
  <2> QED
    BY <1>1, <2>2, <2>3, HolderStepKeeps
<1>4. CASE current # NULL
  <2>1. /\ desc' = [desc EXCEPT ![d] = [resource |-> TRUE, props |-> current]]
        /\ refs' = [refs EXCEPT ![current] = @ + 1] /\ fault' = "none"
    BY <1>1, <1>4 DEF GetDescription, Sound
  <2> DEFINE new == [resource |-> TRUE, props |-> current]
  <2>2. new \in Descriptions /\ new # NULL /\ new.resource /\ new.props = current
    <3>1. new \in Descriptions
      BY <1>2, <1>4 DEF Descriptions
    <3>2. new.resource = TRUE
      BY Zenon
    <3>3. new.props = current
      BY Zenon
    <3> HIDE DEF new
    <3> QED
      BY <1>2, <1>4, <3>1, <3>2, <3>3
  <2>3. desc' = [desc EXCEPT ![d] = new]
    BY <2>1
  <2> HIDE DEF new
  <2>4. \A e \in Descs : desc'[e] = IF e = d THEN new ELSE desc[e]
    BY <1>2, <2>3
  <2>5. HolderTypes'
    <3>1. desc' \in [Descs -> Descriptions \cup {NULL}]
      BY <1>2, <2>2, <2>3
    <3> QED
      BY <1>1, <3>1 DEF HolderTypes
  <2>6. DescsLive'
    BY <1>1, <2>2, <2>4 DEF DescsLive, HolderTypes
  <2>7. NoDescLeak'
    BY <1>1, <2>2, <2>4 DEF NoDescLeak
  <2>8. Counted(refs', current, pending, desc')
    <3> SUFFICES ASSUME NEW p \in Props
                 PROVE  refs'[p] = One(current = p) + One(pending = p) + Cardinality(Holders(desc', p))
      BY DEF Counted
    <3>1. refs[p] = One(current = p) + One(pending = p) + Cardinality(Holders(desc, p))
      BY <1>2 DEF Counted
    <3>2. Cardinality(Holders(desc, p)) \in Nat /\ IsFiniteSet(Holders(desc, p))
      BY HoldersProperties
    <3>3. One(current = p) \in {0, 1} /\ One(pending = p) \in {0, 1}
      BY DEF One
    <3>4. CASE p = current
      <4>1. Holders(desc', p) = Holders(desc, p) \cup {d} /\ d \notin Holders(desc, p)
        BY <1>1, <2>2, <2>4, <3>4 DEF Holders
      <4>2. Cardinality(Holders(desc', p)) = Cardinality(Holders(desc, p)) + 1
        BY <3>2, <4>1, FS_AddElement
      <4>3. refs'[p] = refs[p] + 1
        BY <1>2, <2>1, <3>4
      <4> QED
        BY <3>1, <3>2, <3>3, <4>2, <4>3
    <3>5. CASE p # current
      <4>1. Holders(desc', p) = Holders(desc, p)
        BY <1>1, <2>2, <2>4, <3>5 DEF Holders
      <4>2. refs'[p] = refs[p]
        BY <1>2, <2>1, <3>5
      <4> QED
        BY <3>1, <4>1, <4>2
    <3> QED
      BY <3>4, <3>5
  <2>9. refs' = [p \in Props |-> refs'[p]] /\ fault' \in Faults \cup {"none"}
    BY <1>2, <2>1
  <2> QED
    BY <1>1, <2>5, <2>6, <2>7, <2>8, <2>9, HolderStepKeeps
<1> QED
  BY <1>3, <1>4

LEMMA CreateDescriptionKeeps ==
  ASSUME ColorDescsAssumption, DescsIInv, NEW d \in Descs, CreateDescription(d), UNCHANGED kind
  PROVE  DescsIInv'
<1> USE DEF DescsIInv
<1> DEFINE new == [resource |-> TRUE, props |-> NULL]
<1>1. /\ Sound /\ desc[d] = NULL /\ desc' = [desc EXCEPT ![d] = new]
      /\ UNCHANGED <<kind, version, changes, cacheVars, refs, pend, comm, fault>>
  BY DEF CreateDescription
<1>2. /\ NULL \notin Props /\ NULL \notin Descriptions
      /\ refs \in [Props -> 0 .. Cardinality(Descs) + 1]
      /\ desc \in [Descs -> Descriptions \cup {NULL}]
      /\ Counted(refs, current, pending, desc)
  BY <1>1 DEF CacheTypes, HolderTypes, CacheOK, ColorDescsAssumption
<1>3. new \in Descriptions /\ new # NULL /\ new.resource /\ new.props = NULL
  <2>1. new \in Descriptions
    BY <1>2 DEF Descriptions
  <2>2. new.resource = TRUE
    BY Zenon
  <2>3. new.props = NULL
    BY Zenon
  <2> HIDE DEF new
  <2> QED
    BY <1>2, <2>1, <2>2, <2>3
<1> HIDE DEF new
<1>4. \A e \in Descs : desc'[e] = IF e = d THEN new ELSE desc[e]
  BY <1>1, <1>2
<1>5. HolderTypes'
  <2>1. desc' \in [Descs -> Descriptions \cup {NULL}]
    BY <1>1, <1>2, <1>3
  <2> QED
    BY <1>1, <2>1 DEF HolderTypes
<1>6. DescsLive'
  BY <1>1, <1>3, <1>4 DEF DescsLive, HolderTypes
<1>7. NoDescLeak'
  BY <1>1, <1>3, <1>4 DEF NoDescLeak
<1>8. Counted(refs', current, pending, desc')
  <2>1. ASSUME NEW p \in Props PROVE Holders(desc', p) = Holders(desc, p)
    BY <1>1, <1>2, <1>3, <1>4 DEF Holders
  <2> QED
    BY <1>1, <1>2, <2>1 DEF Counted
<1>9. refs' = [p \in Props |-> refs'[p]] /\ fault' \in Faults \cup {"none"}
  BY <1>1, <1>2 DEF Sound
<1> QED
  BY <1>1, <1>5, <1>6, <1>7, <1>8, <1>9, HolderStepKeeps

\* What de, pe and co say of the descriptions before those of D are collected: they
\* are the ones there are, the surfaces use no other, and outside D all are in use.
Collectable(D, de, pe, co) ==
  /\ D \subseteq Descs \cup {NULL} /\ \A d \in D : d # NULL => desc[d] # NULL
  /\ de \in [Descs -> Descriptions \cup {NULL}]
  /\ \A d \in Descs : /\ de[d] = NULL <=> desc[d] = NULL
                      /\ desc[d] # NULL => de[d].props = desc[d].props
  /\ pe \in [Surfaces -> Descs \cup {NULL}] /\ co \in [Surfaces -> Descs \cup {NULL}]
  /\ \A s \in Surfaces : /\ pe[s] # NULL => desc[pe[s]] # NULL
                         /\ co[s] # NULL => desc[co[s]] # NULL
  /\ \A d \in Descs \ D : desc[d] # NULL =>
       de[d].resource \/ \E s \in Surfaces : pe[s] = d \/ co[s] = d

LEMMA CollectKeeps ==
  ASSUME ColorDescsAssumption, DescsIInv, Sound, NEW D, NEW de, NEW pe, NEW co,
         Collectable(D, de, pe, co), Collect(D, de, pe, co),
         UNCHANGED <<kind, version, changes, cacheVars, fault>>
  PROVE  DescsIInv'
<1> USE DEF DescsIInv
<1> DEFINE gone == {d \in D : Unreferenced(d, de, pe, co)}
<1>1. /\ desc' = [d \in Descs |-> IF d \in gone THEN NULL ELSE de[d]]
      /\ refs' = [p \in Props |-> refs[p] - Cardinality({d \in gone : de[d].props = p})]
      /\ pend' = pe /\ comm' = co
  BY DEF Collect
<1>2. /\ gone \subseteq Descs /\ \A d \in gone : desc[d] # NULL /\ de[d] # NULL
      /\ \A s \in Surfaces : pe[s] \notin gone /\ co[s] \notin gone
      /\ \A d \in Descs \ gone : desc[d] # NULL =>
           de[d].resource \/ \E s \in Surfaces : pe[s] = d \/ co[s] = d
  BY DEF Collectable, Unreferenced
<1> HIDE DEF gone
<1>3. \A d \in Descs : desc'[d] = IF d \in gone THEN NULL ELSE de[d]
  BY <1>1
<1>4. HolderTypes'
  <2>1. desc' \in [Descs -> Descriptions \cup {NULL}]
    BY <1>1 DEF Collectable
  <2> QED
    BY <1>1, <2>1 DEF HolderTypes, Collectable
<1>5. DescsLive'
  <2> SUFFICES ASSUME NEW s \in Surfaces
               PROVE  (pe[s] # NULL => desc'[pe[s]] # NULL) /\ (co[s] # NULL => desc'[co[s]] # NULL)
    BY <1>1 DEF DescsLive
  <2>1. /\ pe[s] \in Descs \cup {NULL} /\ co[s] \in Descs \cup {NULL}
        /\ pe[s] # NULL => de[pe[s]] # NULL
        /\ co[s] # NULL => de[co[s]] # NULL
    BY DEF Collectable
  <2> QED
    BY <1>2, <1>3, <2>1
<1>6. NoDescLeak'
  <2> SUFFICES ASSUME NEW d \in Descs, desc'[d] # NULL
               PROVE  desc'[d].resource \/ \E s \in Surfaces : pe[s] = d \/ co[s] = d
    BY <1>1 DEF NoDescLeak
  <2>1. d \notin gone /\ desc'[d] = de[d] /\ de[d] # NULL
    BY <1>3
  <2>2. desc[d] # NULL
    BY <2>1 DEF Collectable
  <2> QED
    BY <1>2, <2>1, <2>2
<1>7. ASSUME NEW p \in Props
      PROVE  refs'[p] = One(current = p) + One(pending = p) + Cardinality(Holders(desc', p))
  <2> DEFINE H == Holders(desc, p)
             G == {d \in gone : de[d].props = p}
  <2>1. G \subseteq H
    BY <1>2 DEF Holders, Collectable
  <2>2. Holders(desc', p) = H \ G
    <3>1. ASSUME NEW d \in Descs
          PROVE  (desc'[d] # NULL /\ desc'[d].props = p) <=> (d \in H /\ d \notin G)
      <4>1. (de[d] = NULL <=> desc[d] = NULL) /\ (desc[d] # NULL => de[d].props = desc[d].props)
        BY DEF Collectable
      <4>2. d \in H <=> desc[d] # NULL /\ desc[d].props = p
        BY DEF Holders
      <4>3. d \in G <=> d \in gone /\ de[d].props = p
        OBVIOUS
      <4> HIDE DEF H, G
      <4> QED
        BY <1>3, <4>1, <4>2, <4>3
    <3>2. H \subseteq Descs
      BY DEF Holders
    <3> HIDE DEF H, G
    <3> QED
      BY <3>1, <3>2 DEF Holders
  <2>3. IsFiniteSet(H) /\ Cardinality(H) \in Nat
    BY HoldersProperties
  <2>4. refs'[p] = refs[p] - Cardinality(G)
    BY <1>1
  <2>5. refs[p] = One(current = p) + One(pending = p) + Cardinality(H)
    BY DEF CacheOK, Counted
  <2> HIDE DEF H, G
  <2>6. IsFiniteSet(G) /\ Cardinality(G) \in Nat /\ H \cap G = G
    BY <2>1, <2>3, FS_Subset, FS_CardinalityType
  <2>7. Cardinality(H \ G) = Cardinality(H) - Cardinality(G)
    <3>1. Cardinality(H \ G) = Cardinality(H) - Cardinality(H \cap G)
      BY <2>3, FS_Difference
    <3> QED
      BY <2>6, <3>1
  <2>8. One(current = p) \in {0, 1} /\ One(pending = p) \in {0, 1}
    BY DEF One
  <2> QED
    BY <2>2, <2>3, <2>4, <2>5, <2>6, <2>7, <2>8
<1>8. refs' = [p \in Props |-> refs'[p]] /\ Counted(refs', current, pending, desc')
  BY <1>1, <1>7 DEF Counted
<1>9. fault' \in Faults \cup {"none"}
  BY Zenon DEF CacheSwitches
<1> QED
  BY <1>4, <1>5, <1>6, <1>8, <1>9, HolderStepKeeps

\* What the surfaces have now is what there is to collect from.
LEMMA CollectableNow ==
  ASSUME ColorDescsAssumption, DescsIInv, Sound
  PROVE  /\ Collectable({}, desc, pend, comm)
         /\ \A s \in Surfaces : Collectable({pend[s], comm[s]}, desc, pend, comm)
<1> USE DEF DescsIInv
<1>1. Collectable({}, desc, pend, comm)
  BY DEF Collectable, HolderTypes, DescsLive, NoDescLeak
<1>2. ASSUME NEW s \in Surfaces PROVE Collectable({pend[s], comm[s]}, desc, pend, comm)
  BY <1>1 DEF Collectable
<1> QED
  BY <1>1, <1>2

LEMMA DestroyDescriptionKeeps ==
  ASSUME ColorDescsAssumption, DescsIInv, NEW d \in Descs, DestroyDescription(d), UNCHANGED kind
  PROVE  DescsIInv'
<1> DEFINE de == [desc EXCEPT ![d].resource = FALSE]
<1>1. /\ Sound /\ desc[d] # NULL /\ Collect({d}, de, pend, comm)
      /\ UNCHANGED <<kind, version, changes, cacheVars, fault>>
  BY DEF DestroyDescription
<1>2. desc \in [Descs -> Descriptions \cup {NULL}] /\ NULL \notin Descriptions
  BY DEF DescsIInv, HolderTypes, ColorDescsAssumption
<1>3. Collectable({}, desc, pend, comm)
  BY <1>1, CollectableNow
<1>4. /\ de \in [Descs -> Descriptions \cup {NULL}] /\ de[d] # NULL /\ de[d].props = desc[d].props
      /\ \A e \in Descs \ {d} : de[e] = desc[e]
  <2>1. desc[d] \in Descriptions
    BY <1>1, <1>2
  <2> DEFINE rec == [desc[d] EXCEPT !.resource = FALSE]
  <2>2. rec \in Descriptions /\ rec.props = desc[d].props
    BY <2>1 DEF Descriptions
  <2>3. de = [desc EXCEPT ![d] = rec]
    OBVIOUS
  <2> HIDE DEF rec, de
  <2> QED
    BY <1>2, <2>2, <2>3
<1> HIDE DEF de
<1>5. Collectable({d}, de, pend, comm)
  BY <1>1, <1>3, <1>4 DEF Collectable
<1> QED
  BY <1>1, <1>5, CollectKeeps

LEMMA SetImageDescKeeps ==
  ASSUME ColorDescsAssumption, DescsIInv, NEW s \in Surfaces, NEW d \in Descs, SetImageDesc(s, d),
         UNCHANGED kind
  PROVE  DescsIInv'
<1> DEFINE pe == [pend EXCEPT ![s] = d]
<1>1. /\ Sound /\ desc[d] # NULL /\ Collect({pend[s]}, desc, pe, comm)
      /\ UNCHANGED <<kind, version, changes, cacheVars, fault>>
  BY DEF SetImageDesc
<1>2. Collectable({}, desc, pend, comm)
  BY <1>1, CollectableNow
<1>3. pe \in [Surfaces -> Descs \cup {NULL}] /\ pe[s] = d /\ \A t \in Surfaces \ {s} : pe[t] = pend[t]
  BY <1>2 DEF Collectable
<1> HIDE DEF pe
<1>4. Collectable({pend[s]}, desc, pe, comm)
  BY <1>1, <1>2, <1>3 DEF Collectable
<1> QED
  BY <1>1, <1>4, CollectKeeps

LEMMA UnsetImageDescKeeps ==
  ASSUME ColorDescsAssumption, DescsIInv, NEW s \in Surfaces, UnsetImageDesc(s), UNCHANGED kind
  PROVE  DescsIInv'
<1> DEFINE pe == [pend EXCEPT ![s] = NULL]
<1>1. /\ Sound /\ Collect({pend[s]}, desc, pe, comm)
      /\ UNCHANGED <<kind, version, changes, cacheVars, fault>>
  BY DEF UnsetImageDesc
<1>2. Collectable({}, desc, pend, comm)
  BY <1>1, CollectableNow
<1>3. pe \in [Surfaces -> Descs \cup {NULL}] /\ pe[s] = NULL /\ \A t \in Surfaces \ {s} : pe[t] = pend[t]
  BY <1>2 DEF Collectable
<1> HIDE DEF pe
<1>4. Collectable({pend[s]}, desc, pe, comm)
  BY <1>2, <1>3 DEF Collectable
<1> QED
  BY <1>1, <1>4, CollectKeeps

LEMMA CommitImageDescKeeps ==
  ASSUME ColorDescsAssumption, DescsIInv, NEW s \in Surfaces, CommitImageDesc(s), UNCHANGED kind
  PROVE  DescsIInv'
<1> DEFINE co == [comm EXCEPT ![s] = pend[s]]
<1>1. /\ Sound /\ Collect({comm[s]}, desc, pend, co)
      /\ UNCHANGED <<kind, version, changes, cacheVars, fault>>
  BY DEF CommitImageDesc
<1>2. Collectable({}, desc, pend, comm)
  BY <1>1, CollectableNow
<1>3. co \in [Surfaces -> Descs \cup {NULL}] /\ co[s] = pend[s]
      /\ \A t \in Surfaces \ {s} : co[t] = comm[t]
  BY <1>2 DEF Collectable
<1> HIDE DEF co
<1>4. Collectable({comm[s]}, desc, pend, co)
  BY <1>2, <1>3 DEF Collectable
<1> QED
  BY <1>1, <1>4, CollectKeeps

LEMMA DropSurfaceKeeps ==
  ASSUME ColorDescsAssumption, DescsIInv, NEW s \in Surfaces, DropSurface(s), UNCHANGED kind
  PROVE  DescsIInv'
<1> DEFINE pe == [pend EXCEPT ![s] = NULL]
           co == [comm EXCEPT ![s] = NULL]
<1>1. /\ Sound /\ Collect({pend[s], comm[s]}, desc, pe, co)
      /\ UNCHANGED <<kind, version, changes, cacheVars, fault>>
  BY DEF DropSurface
<1>2. Collectable({}, desc, pend, comm)
  BY <1>1, CollectableNow
<1>3. /\ pe \in [Surfaces -> Descs \cup {NULL}] /\ co \in [Surfaces -> Descs \cup {NULL}]
      /\ pe[s] = NULL /\ co[s] = NULL
      /\ \A t \in Surfaces \ {s} : pe[t] = pend[t] /\ co[t] = comm[t]
  BY <1>2 DEF Collectable
<1> HIDE DEF pe, co
<1>4. Collectable({pend[s], comm[s]}, desc, pe, co)
  BY <1>2, <1>3 DEF Collectable
<1> QED
  BY <1>1, <1>4, CollectKeeps

-----------------------------------------------------------------------------
LEMMA DescsInitHolds ==
  ASSUME ColorDescsAssumption, DescsInit
  PROVE  DescsIInv
<1> USE DEF DescsInit
<1>1. pending \in Props
  <2>1. Cardinality(Props) # 0
    BY FS_CardinalityType DEF ColorDescsAssumption
  <2>2. Props # {}
    BY <2>1, FS_EmptySet
  <2> QED
    BY <2>2
<1>2. NULL \notin Props /\ MaxVersion \in Nat
  BY DEF ColorDescsAssumption
<1>3. CacheSwitches
  BY Zenon DEF CacheSwitches
<1>4. HolderTypes /\ DescsLive /\ NoDescLeak
  BY DEF HolderTypes, DescsLive, NoDescLeak
<1>5. Counted(refs, current, pending, desc)
  <2> SUFFICES ASSUME NEW p \in Props
               PROVE  refs[p] = One(current = p) + One(pending = p) + Cardinality(Holders(desc, p))
    BY DEF Counted
  <2>1. Holders(desc, p) = {}
    BY DEF Holders
  <2>2. Cardinality(Holders(desc, p)) = 0
    BY <2>1, FS_EmptySet
  <2> HIDE DEF Holders
  <2> QED
    BY <1>2, <2>2 DEF One
<1>6. current = NULL /\ refs = [p \in Props |-> refs[p]] /\ current \in Props \cup {NULL}
  OBVIOUS
<1>7. refs \in [Props -> 0 .. Cardinality(Descs) + 1]
  BY <1>5, <1>6, CountedRange
<1>8. CacheTypes
  BY <1>1, <1>2, <1>7 DEF CacheTypes
<1>9. CacheOK /\ NoChangeLost
  BY <1>5 DEF CacheOK, NoChangeLost
<1> QED
  BY <1>3, <1>4, <1>8, <1>9 DEF DescsIInv

LEMMA DescsInductive ==
  DescsSpec => []DescsIInv
<1> USE ColorDescsAssumption
<1>1. DescsInit => DescsIInv
  BY DescsInitHolds
<1>2. DescsIInv /\ [DescsNext]_colorVars => DescsIInv'
  <2> SUFFICES ASSUME DescsIInv, [DescsNext]_colorVars PROVE DescsIInv'
    OBVIOUS
  <2>1. CASE DescsNext
    <3>1. UNCHANGED kind
      BY <2>1 DEF DescsNext
    <3>2. CASE CompositorChanges
      BY <3>1, <3>2, CompositorChangesKeeps
    <3>3. CASE PreferredChanged
      BY <3>1, <3>3, PreferredChangedKeeps
    <3>4. CASE OutputChanged
      BY <3>1, <3>4, OutputChangedKeeps
    <3>5. CASE HandleReady
      BY <3>1, <3>5, HandleReadyKeeps
    <3>6. CASE InfoHandleDone
      BY <3>1, <3>6, InfoHandleDoneKeeps
    <3>7. CASE HandleFailed
      BY <3>1, <3>7, HandleFailedKeeps
    <3>8. ASSUME NEW d \in Descs, GetDescription(d) PROVE DescsIInv'
      BY <3>1, <3>8, GetDescriptionKeeps
    <3>9. ASSUME NEW d \in Descs, CreateDescription(d) PROVE DescsIInv'
      BY <3>1, <3>9, CreateDescriptionKeeps
    <3>10. ASSUME NEW d \in Descs, DestroyDescription(d) PROVE DescsIInv'
      BY <3>1, <3>10, DestroyDescriptionKeeps
    <3>11. ASSUME NEW s \in Surfaces, NEW d \in Descs, SetImageDesc(s, d) PROVE DescsIInv'
      BY <3>1, <3>11, SetImageDescKeeps
    <3>12. ASSUME NEW s \in Surfaces, UnsetImageDesc(s) PROVE DescsIInv'
      BY <3>1, <3>12, UnsetImageDescKeeps
    <3>13. ASSUME NEW s \in Surfaces, CommitImageDesc(s) PROVE DescsIInv'
      BY <3>1, <3>13, CommitImageDescKeeps
    <3>14. ASSUME NEW s \in Surfaces, DropSurface(s) PROVE DescsIInv'
      BY <3>1, <3>14, DropSurfaceKeeps
    <3>15. CASE CompositorAnswers
      BY <3>1, <3>15, CompositorAnswersKeeps
    <3> QED
      BY <2>1, <3>2, <3>3, <3>4, <3>5, <3>6, <3>7, <3>8, <3>9, <3>10, <3>11, <3>12, <3>13, <3>14,
         <3>15
      DEF DescsNext
  <2>2. CASE UNCHANGED colorVars
    <3>1. UNCHANGED <<kind, version, changes, current, pending, dirty, info, stage, of, refs, desc,
                      pend, comm, fault>>
      BY <2>2 DEF colorVars, cacheVars, descVars
    <3>2. CacheSwitches' /\ CacheTypes' /\ HolderTypes'
      BY <3>1 DEF DescsIInv, CacheSwitches, CacheTypes, HolderTypes
    <3>3. CacheOK' /\ NoChangeLost' /\ DescsLive' /\ NoDescLeak'
      BY <3>1 DEF DescsIInv, CacheOK, NoChangeLost, DescsLive, NoDescLeak, Sound, Counted, Holders
    <3> QED
      BY <3>2, <3>3 DEF DescsIInv
  <2> QED
    BY <2>1, <2>2
<1> QED
  BY <1>1, <1>2, PTL DEF DescsSpec

\* request_new_image_desc, publish and create_output_image_desc count the cached
\* properties exactly, and delete_image_desc_if_unreferenced frees a description
\* when its resource and its last surface are gone, and never before.
THEOREM DescsInvariant == DescsSpec => []DescsInv
<1>1. DescsIInv => DescsInv
  BY DescsIInvImplies
<1> QED
  BY <1>1, DescsInductive, PTL

\* The dirty flag of image_description_state loses no change: while what plugins
\* are answered with is outdated, the change is announced, asked for, or marked.
THEOREM NoChangeEverLost == DescsSpec => []NoChangeLost
<1>1. DescsIInv => NoChangeLost
  BY DescsIInvImplies
<1> QED
  BY <1>1, DescsInductive, PTL

=============================================================================
