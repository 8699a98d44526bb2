---------------------------- MODULE PluginProofs ----------------------------
(***************************************************************************)
(* Theorems about the wallpaper programs and the nested server, for every  *)
(* set of outputs and any number of process groups: the records, owners    *)
(* and timers of the programs agree, no program is left stopped or forgets *)
(* its timer, and client-less mode draws every output.                     *)
(***************************************************************************)
EXTENDS Plugin, TLAPS

-----------------------------------------------------------------------------
(* The inductive invariant, in parts *)

SwitchesOK ==
  /\ perOutput \in BOOLEAN /\ hiddenTimer \in BOOLEAN /\ display \in BOOLEAN
  /\ startClientless \in BOOLEAN /\ dispatching \in BOOLEAN /\ lit \subseteq Outputs
  /\ run \in {"up", "exited", "aborted", "usedFreedServer", "usedNullServer"}
  /\ dispatching => run = "up"

\* The client records.
ClientsOK ==
  /\ clients \subseteq Pids /\ registered \subseteq clients /\ connecting \subseteq clients
  /\ slot \in [Pids -> Slots] /\ owner \in [Slots -> Pids \cup {None}]
  /\ \A c \in clients : owner[slot[c]] = c
  /\ \A s \in Slots : owner[s] # None => owner[s] \in clients /\ slot[owner[s]] = s
  /\ connecting \cap registered = {}

\* What points from the records and timers to outputs.
SurfacesOK ==
  /\ surface \in [Outputs -> Phases] /\ frame \in [Outputs -> Frames]
  /\ hasBuffer \subseteq Outputs /\ submission \subseteq Surfaces
  /\ \A c \in clients : slot[c] \in Surfaces \cup {Main}

\* The process groups.
ProcsOK ==
  /\ procs \in [Pids -> {"dead", "running", "stopped"}] /\ paused \subseteq clients
  /\ run \notin {"exited", "aborted"} => \A p \in Pids : procs[p] = "stopped" => p \in paused
  /\ run = "exited" => \A p \in Pids : procs[p] # "stopped"

\* Programs are relied on; each output has its own, or all have the main one.
Relied == run = "up" /\ display /\ ~startClientless
Served ==
  /\ perOutput => \A o \in Surfaces : owner[o] # None
  /\ ~perOutput => owner[Main] # None

WatchedOK ==
  Relied => /\ Served
            /\ Surfaces \ hasBuffer \subseteq submission
            /\ clients \ registered \subseteq connecting

PluginIInv ==
  SwitchesOK /\ ClientsOK /\ SurfacesOK /\ ProcsOK /\ WatchedOK /\ ClientlessDraws

\* The frame requests, and what is left of a program that serves all outputs.
LoneOK ==
  /\ asked \subseteq Outputs
  /\ ~perOutput =>
       /\ \A c \in clients : slot[c] = Main
       /\ clients = {} => asked = {}
       /\ run = "up" /\ (~display \/ startClientless) => clients = {}

LEMMA PluginIInvImplies ==
  ASSUME PluginAssumption, PluginIInv, asked \subseteq Outputs
  PROVE  OwnersInv /\ StoppedIsKnown /\ BlankIsWatched
<1> USE DEF PluginIInv
<1>1. TypeOK
  BY DEF TypeOK, SwitchesOK, ClientsOK, SurfacesOK, ProcsOK, Surfaces
<1>2. OwnersAgree
  BY DEF OwnersAgree, ClientsOK, SurfacesOK
<1>3. StoppedIsKnown
  BY DEF StoppedIsKnown, ProcsOK
<1>4. BlankIsWatched
  <2> SUFFICES ASSUME Relied
               PROVE  /\ \A o \in Surfaces : ClientForSurface(o) # None
                      /\ Surfaces \ hasBuffer \subseteq submission
                      /\ clients \ registered \subseteq connecting
    BY DEF BlankIsWatched, Relied
  <2>1. Served
    BY DEF WatchedOK
  <2>2. \A o \in Surfaces : ClientForSurface(o) # None
    BY <2>1, Zenon DEF Served, ClientForSurface
  <2> QED
    BY <2>2 DEF WatchedOK
<1> QED
  BY <1>1, <1>2, <1>3, <1>4 DEF OwnersInv

-----------------------------------------------------------------------------
(* What the helpers do *)

\* SIGCONT leaves exactly the groups stopped that it was not sent to.
LEMMA ContinuedProperties ==
  ASSUME NEW P, procs \in [Pids -> {"dead", "running", "stopped"}]
  PROVE  /\ Continued(P) \in [Pids -> {"dead", "running", "stopped"}]
         /\ \A p \in Pids : Continued(P)[p] = "stopped" <=> procs[p] = "stopped" /\ p \notin P
         /\ \A p \in Pids : Continued(P)[p] = "dead" <=> procs[p] = "dead"
BY DEF Continued

\* Cleaning up a client takes it, and nothing else, out of the records.
LEMMA CleanupProperties ==
  ASSUME PluginAssumption, ClientsOK, NEW c \in clients, Cleanup(c)
  PROVE  /\ ClientsOK' /\ clients' = clients \ {c} /\ registered' = registered \ {c}
         /\ connecting' = connecting \ {c}
         /\ \A d \in clients' : slot'[d] = slot[d]
         /\ \A s \in Slots : s # slot[c] => owner'[s] = owner[s]
<1> USE DEF ClientsOK
<1>1. /\ clients' = clients \ {c} /\ registered' = registered \ {c}
      /\ connecting' = connecting \ {c}
      /\ owner' = [owner EXCEPT ![slot[c]] = None] /\ slot' = [slot EXCEPT ![c] = Main]
  BY DEF Cleanup
<1>2. slot[c] \in Slots /\ c \in Pids /\ Main \in Slots
  BY DEF Slots
<1>3. /\ owner' \in [Slots -> Pids \cup {None}] /\ slot' \in [Pids -> Slots]
      /\ owner'[slot[c]] = None /\ \A s \in Slots : s # slot[c] => owner'[s] = owner[s]
      /\ \A d \in Pids : d # c => slot'[d] = slot[d]
  BY <1>1, <1>2
<1>4. ASSUME NEW d \in clients' PROVE owner'[slot'[d]] = d
  BY <1>1, <1>3
<1>5. ASSUME NEW s \in Slots, owner'[s] # None
      PROVE  owner'[s] \in clients' /\ slot'[owner'[s]] = s
  BY <1>1, <1>3, <1>5
<1> QED
  BY <1>1, <1>3, <1>4, <1>5

\* Running the command for a slot without a program, or again after cleaning up
\* the one it had, records exactly the new one there, with its connect timer.
LEMMA SpawnProperties ==
  ASSUME PluginAssumption, ClientsOK, NEW s \in Slots, NEW C \in SUBSET clients, Spawn(s, C),
         \A c \in C : slot[c] = s, owner[s] # None => owner[s] \in C
  PROVE  /\ ClientsOK'
         /\ \E pid \in Pids \ (clients \ C) :
              /\ procs[pid] = "dead" /\ clients' = (clients \ C) \cup {pid}
              /\ registered' = registered \ C
              /\ connecting' = (connecting \ C) \cup {pid}
              /\ slot'[pid] = s /\ owner'[s] = pid /\ owner'[s] # None
              /\ procs' = [Continued(C) EXCEPT ![pid] = "running"] /\ paused' = paused \ C
         /\ \A d \in clients \ C : slot'[d] = slot[d]
         /\ \A r \in Slots : r # s => owner'[r] = owner[r]
<1> USE DEF ClientsOK
<1> DEFINE pid == CHOOSE p \in Free(C) : TRUE
<1>1. pid \in Pids \ (clients \ C) /\ procs[pid] = "dead"
  BY DEF Spawn, Free
<1>2. /\ clients' = (clients \ C) \cup {pid} /\ connecting' = (connecting \ C) \cup {pid}
      /\ slot' = [p \in Pids |-> IF p = pid THEN s ELSE IF p \in C THEN Main ELSE slot[p]]
      /\ owner' = [owner EXCEPT ![s] = pid] /\ registered' = registered \ C
      /\ procs' = [Continued(C) EXCEPT ![pid] = "running"] /\ paused' = paused \ C
  BY DEF Spawn
<1>3. pid # None /\ Main \in Slots
  BY <1>1 DEF PluginAssumption, Slots
<1> HIDE DEF pid
<1>4. /\ owner' \in [Slots -> Pids \cup {None}] /\ slot' \in [Pids -> Slots]
      /\ owner'[s] = pid /\ \A r \in Slots : r # s => owner'[r] = owner[r]
      /\ slot'[pid] = s /\ \A d \in clients \ C : slot'[d] = slot[d]
  BY <1>1, <1>2, <1>3
<1>5. ASSUME NEW d \in clients' PROVE owner'[slot'[d]] = d
  <2>1. CASE d = pid
    BY <1>4, <2>1
  <2>2. CASE d # pid
    <3>1. d \in clients \ C /\ slot[d] # s
      BY <1>2, <1>5, <2>2
    <3> QED
      BY <1>4, <3>1
  <2> QED
    BY <2>1, <2>2
<1>6. ASSUME NEW r \in Slots, owner'[r] # None
      PROVE  owner'[r] \in clients' /\ slot'[owner'[r]] = r
  <2>1. CASE r = s
    BY <1>2, <1>4, <2>1
  <2>2. CASE r # s
    <3>1. owner'[r] = owner[r] /\ owner[r] \in clients \ C
      BY <1>4, <1>6, <2>2
    <3> QED
      BY <1>2, <1>4, <3>1
  <2> QED
    BY <2>1, <2>2
<1>7. /\ clients' \subseteq Pids /\ registered' \subseteq clients' /\ connecting' \subseteq clients'
      /\ connecting' \cap registered' = {}
  BY <1>1, <1>2
<1> QED
  BY <1>1, <1>2, <1>3, <1>4, <1>5, <1>6, <1>7

\* The fall back: nobody stays stopped, and every output that has a size is drawn.
LEMMA ClientlessProperties ==
  ASSUME ProcsOK, ClientsOK, SwitchesOK, NEW C \in SUBSET clients, NEW T, Clientless(C, T),
         clients' = clients \ C, run = "up", run' = run
  PROVE  /\ ProcsOK' /\ display' = FALSE
         /\ submission' \subseteq T /\ hasBuffer \subseteq hasBuffer'
         /\ hasBuffer' \subseteq hasBuffer \cup Configured
         /\ ~display \/ Configured \subseteq hasBuffer'
<1> USE DEF ProcsOK, ClientsOK
<1>1. CASE display
  <2>1. /\ display' = FALSE /\ submission' = {} /\ hasBuffer' = hasBuffer \cup Configured
        /\ paused' = (paused \ Resumed(clients)) \ C /\ procs' = Continued(clients)
    BY <1>1 DEF Clientless
  <2>2. ProcsOK'
    BY <2>1, ContinuedProperties
  <2> QED
    BY <2>1, <2>2
<1>2. CASE ~display
  <2>1. /\ display' = display /\ submission' = T /\ hasBuffer' = hasBuffer
        /\ paused' = paused \ C /\ procs' = Continued(C)
    BY <1>2 DEF Clientless
  <2>2. ProcsOK'
    BY <2>1, ContinuedProperties
  <2>3. display' = FALSE
    BY <1>2, <2>1 DEF SwitchesOK
  <2> QED
    BY <1>2, <2>1, <2>2, <2>3
<1> QED
  BY <1>1, <1>2

-----------------------------------------------------------------------------
(* A client goes: restarted, cleaned up, or given up on *)

LEMMA ClientDestroyedKeeps ==
  ASSUME PluginAssumption, PluginIInv, run = "up", NEW c \in clients, ClientDestroyed(c),
         UNCHANGED <<controlVars, display, lit>>
  PROVE  ClientsOK' /\ SurfacesOK' /\ ProcsOK' /\ WatchedOK' /\ ClientlessDraws'
<1> USE DEF PluginIInv, controlVars, outputVars
<1>0. /\ UNCHANGED <<surface, hasBuffer, submission, frame, controlVars, display>> /\ slot[c] \in Slots
      /\ Surfaces' = Surfaces /\ Configured' = Configured
  BY DEF ClientDestroyed, ClientsOK, Surfaces, Configured
<1>1. ClientlessDraws'
  BY <1>0 DEF ClientlessDraws
<1>2. CASE c \in registered /\ Spawn(slot[c], {c}) /\ UNCHANGED startClientless
  <2>1. /\ {c} \in SUBSET clients /\ \A d \in {c} : slot[d] = slot[c]
        /\ owner[slot[c]] # None => owner[slot[c]] \in {c}
    BY DEF ClientsOK
  <2> DEFINE C == {c}
             r == slot[c]
  <2>0. /\ C \in SUBSET clients /\ r \in Slots /\ Spawn(r, C) /\ \A d \in C : slot[d] = r
        /\ owner[r] # None => owner[r] \in C
    BY <1>0, <1>2, <2>1
  <2> HIDE DEF C, r
  <2>2. /\ ClientsOK'
        /\ \E pid \in Pids \ (clients \ C) :
             /\ procs[pid] = "dead" /\ clients' = (clients \ C) \cup {pid}
             /\ registered' = registered \ C
             /\ connecting' = (connecting \ C) \cup {pid}
             /\ slot'[pid] = r /\ owner'[r] = pid /\ owner'[r] # None
             /\ procs' = [Continued(C) EXCEPT ![pid] = "running"] /\ paused' = paused \ C
        /\ \A d \in clients \ C : slot'[d] = slot[d]
        /\ \A q \in Slots : q # r => owner'[q] = owner[q]
    BY <2>0, SpawnProperties
  <2> USE DEF C, r
  <2>3. PICK pid \in Pids \ (clients \ {c}) :
              /\ procs[pid] = "dead" /\ clients' = (clients \ {c}) \cup {pid}
              /\ registered' = registered \ {c}
              /\ connecting' = (connecting \ {c}) \cup {pid}
              /\ slot'[pid] = slot[c] /\ owner'[slot[c]] = pid /\ owner'[slot[c]] # None
              /\ procs' = [Continued({c}) EXCEPT ![pid] = "running"] /\ paused' = paused \ {c}
    BY <2>2
  <2>4. SurfacesOK'
    BY <1>0, <2>2, <2>3 DEF SurfacesOK
  <2>5. ProcsOK'
    BY <1>0, <2>3, ContinuedProperties DEF ProcsOK
  <2>6. WatchedOK'
    <3>1. Relied' => Relied
      BY <1>0, <1>2 DEF Relied
    <3>2. Served => Served'
      <4>1. Main \in Slots /\ Surfaces \subseteq Slots
        BY DEF Slots, Surfaces
      <4>2. \A q \in Slots : owner[q] # None => owner'[q] # None
        BY <2>2, <2>3
      <4> QED
        BY <1>0, <4>1, <4>2 DEF Served
    <3>3. clients \ registered \subseteq connecting => (clients \ registered \subseteq connecting)'
      BY <2>3
    <3> QED
      BY <1>0, <3>1, <3>2, <3>3 DEF WatchedOK
  <2> QED
    BY <1>1, <2>2, <2>4, <2>5, <2>6
<1>3. CASE Cleanup(c) /\ paused' = paused \ {c} /\ procs' = Continued({c}) /\ startClientless' = TRUE
  <2>1. ClientsOK' /\ clients' = clients \ {c} /\ \A d \in clients' : slot'[d] = slot[d]
    BY <1>3, CleanupProperties
  <2>2. SurfacesOK'
    BY <1>0, <2>1 DEF SurfacesOK
  <2>3. ProcsOK'
    BY <1>0, <1>3, <2>1, ContinuedProperties DEF ProcsOK
  <2>4. WatchedOK'
    BY <1>3 DEF WatchedOK, Relied
  <2> QED
    BY <1>1, <2>1, <2>2, <2>3, <2>4
<1> QED
  BY <1>2, <1>3 DEF ClientDestroyed

LEMMA ClientTimeoutKeeps ==
  ASSUME PluginAssumption, PluginIInv, run = "up", NEW c \in clients,
         NEW T \in SUBSET submission, ClientTimeout(c, T),
         UNCHANGED <<controlVars, startClientless, dispatching, surface, frame, lit>>
  PROVE  PluginIInv'
<1> USE DEF PluginIInv
<1>0. /\ Cleanup(c) /\ Clientless({c}, T) /\ Surfaces' = Surfaces /\ Configured' = Configured
      /\ UNCHANGED <<perOutput, run, hiddenTimer, startClientless, dispatching, surface, frame, lit>>
  BY DEF ClientTimeout, Surfaces, Configured, controlVars
<1>1. ClientsOK' /\ clients' = clients \ {c} /\ \A d \in clients' : slot'[d] = slot[d]
  BY <1>0, CleanupProperties
<1>2. /\ ProcsOK' /\ display' = FALSE
      /\ submission' \subseteq T /\ hasBuffer \subseteq hasBuffer'
      /\ hasBuffer' \subseteq hasBuffer \cup Configured
      /\ ~display \/ Configured \subseteq hasBuffer'
  BY <1>0, <1>1, ClientlessProperties
<1>3. SwitchesOK'
  BY <1>0, <1>2, Zenon DEF SwitchesOK
<1>4. SurfacesOK'
  BY <1>0, <1>1, <1>2 DEF SurfacesOK, Configured
<1>5. WatchedOK'
  BY <1>2 DEF WatchedOK, Relied
<1>6. ClientlessDraws'
  BY <1>0, <1>2 DEF ClientlessDraws
<1> QED
  BY <1>1, <1>2, <1>3, <1>4, <1>5, <1>6

-----------------------------------------------------------------------------
(* dispatch_nested *)

LEMMA NestedKeeps ==
  ASSUME PluginAssumption, PluginIInv, NestedDispatch
  PROVE  PluginIInv'
<1> USE DEF PluginIInv, controlVars, serverVars, clientVars, outputVars
<1>1. ASSUME NEW c \in Pids, MakeRegistry(c) PROVE PluginIInv'
  <2>1. /\ run = "up" /\ dispatching' = TRUE /\ c \in clients \ registered
        /\ registered' = registered \cup {c} /\ connecting' = connecting \ {c}
        /\ UNCHANGED <<controlVars, display, startClientless, lit, clients, slot, owner, paused, procs,
                       outputVars>>
    BY <1>1 DEF MakeRegistry, Nested
  <2>2. SwitchesOK'
    BY <2>1, Zenon DEF SwitchesOK
  <2>3. ClientsOK'
    BY <2>1 DEF ClientsOK
  <2>4. SurfacesOK' /\ ProcsOK' /\ ClientlessDraws'
    BY <2>1 DEF SurfacesOK, ProcsOK, ClientlessDraws, Surfaces, Configured
  <2>5. WatchedOK'
    BY <2>1 DEF WatchedOK, Relied, Served, Surfaces
  <2> QED
    BY <2>2, <2>3, <2>4, <2>5
<1>2. ASSUME NEW c \in Pids, HangUp(c) PROVE PluginIInv'
  <2>1. /\ run = "up" /\ dispatching' = TRUE /\ c \in clients /\ ClientDestroyed(c)
        /\ UNCHANGED <<controlVars, display, lit>>
    BY <1>2 DEF HangUp, Nested
  <2>2. startClientless' \in BOOLEAN
    BY <2>1 DEF ClientDestroyed, SwitchesOK
  <2>3. SwitchesOK'
    BY <2>1, <2>2, Zenon DEF SwitchesOK
  <2> QED
    BY <2>1, <2>3, ClientDestroyedKeeps
<1>3. ASSUME NEW c \in Pids, NEW o \in Outputs, NEW w \in BOOLEAN, Draw(c, o, w) PROVE PluginIInv'
  <2>1. /\ run = "up" /\ dispatching' = TRUE
        /\ hasBuffer' = hasBuffer \cup {o} /\ submission' = submission \ {o}
        /\ UNCHANGED <<controlVars, display, startClientless, lit, clientVars, surface>>
    BY <1>3 DEF Draw, Nested
  <2>2. SwitchesOK'
    BY <2>1, Zenon DEF SwitchesOK
  <2>3. ClientsOK' /\ ProcsOK'
    BY <2>1 DEF ClientsOK, ProcsOK
  <2>4. frame' \in [Outputs -> Frames]
    BY <1>3 DEF Draw, SurfacesOK, Frames
  <2>5. SurfacesOK' /\ ClientlessDraws'
    BY <2>1, <2>4 DEF SurfacesOK, ClientlessDraws, Surfaces, Configured
  <2>6. WatchedOK'
    BY <2>1 DEF WatchedOK, Relied, Served, Surfaces
  <2> QED
    BY <2>2, <2>3, <2>5, <2>6
<1>4. CASE EndDispatch
  <2>1. /\ run = "up" /\ dispatching' = FALSE
        /\ UNCHANGED <<controlVars, startClientless, clients, slot, owner, registered,
                       connecting, surface, frame, lit>>
        /\ Surfaces' = Surfaces /\ Configured' = Configured
    BY <1>4 DEF EndDispatch, SwitchesOK, Surfaces, Configured
  <2>2. ClientsOK'
    BY <2>1 DEF ClientsOK
  <2>3. CASE startClientless
    <3>1. Clientless({}, submission)
      BY <1>4, <2>3 DEF EndDispatch
    <3>2. {} \in SUBSET clients /\ clients' = clients \ {} /\ run' = run
      BY <2>1
    <3>3. /\ ProcsOK' /\ display' = FALSE
          /\ submission' \subseteq submission /\ hasBuffer \subseteq hasBuffer'
          /\ hasBuffer' \subseteq hasBuffer \cup Configured
          /\ ~display \/ Configured \subseteq hasBuffer'
      BY <2>1, <3>1, <3>2, ClientlessProperties
    <3>4. SwitchesOK'
      BY <2>1, <3>3, Zenon DEF SwitchesOK
    <3>5. SurfacesOK' /\ ClientlessDraws' /\ WatchedOK'
      BY <2>1, <3>3 DEF SurfacesOK, ClientlessDraws, WatchedOK, Relied, Configured
    <3> QED
      BY <2>2, <3>3, <3>4, <3>5
  <2>4. CASE ~startClientless
    <3>1. UNCHANGED <<display, paused, procs, submission, hasBuffer>>
      BY <1>4, <2>4 DEF EndDispatch
    <3>2. SwitchesOK'
      BY <2>1, <3>1, Zenon DEF SwitchesOK
    <3>3. SurfacesOK' /\ ProcsOK' /\ ClientlessDraws'
      BY <2>1, <3>1 DEF SurfacesOK, ProcsOK, ClientlessDraws
    <3>4. WatchedOK'
      BY <2>1, <3>1 DEF WatchedOK, Relied, Served
    <3> QED
      BY <2>2, <3>2, <3>3, <3>4
  <2> QED
    BY <2>3, <2>4
<1> QED
  BY <1>1, <1>2, <1>3, <1>4 DEF NestedDispatch

-----------------------------------------------------------------------------
(* The timers and frame callbacks of the main loop *)

LEMMA TimersKeep ==
  ASSUME PluginAssumption, PluginIInv,
         \/ \E c \in Pids : FlushFails(c) \/ ConnectTimeout(c)
         \/ \E o \in Outputs : RedrawTimeout(o) \/ FrameDone(o)
         \/ HiddenCheck \/ ArmHiddenCheck
  PROVE  PluginIInv'
<1> USE DEF PluginIInv, controlVars, serverVars, clientVars, outputVars
<1>1. ASSUME NEW c \in Pids, FlushFails(c) PROVE PluginIInv'
  <2>1. /\ run = "up" /\ c \in clients /\ ClientDestroyed(c)
        /\ UNCHANGED <<controlVars, display, dispatching, lit>>
    BY <1>1 DEF FlushFails, Looping, ClientsOK
  <2>2. startClientless' \in BOOLEAN
    BY <2>1 DEF ClientDestroyed, SwitchesOK
  <2>3. SwitchesOK'
    BY <2>1, <2>2, Zenon DEF SwitchesOK
  <2> QED
    BY <2>1, <2>3, ClientDestroyedKeeps
<1>2. ASSUME NEW c \in Pids, ConnectTimeout(c) PROVE PluginIInv'
  <2>1. /\ run = "up" /\ c \in clients /\ ClientTimeout(c, submission)
        /\ UNCHANGED <<controlVars, startClientless, dispatching, surface, frame, lit>>
        /\ submission \in SUBSET submission
    BY <1>2 DEF ConnectTimeout, Looping, ClientsOK
  <2> QED
    BY <2>1, ClientTimeoutKeeps
<1>3. ASSUME NEW o \in Outputs, RedrawTimeout(o) PROVE PluginIInv'
  <2>1. /\ run = "up" /\ o \in submission
        /\ UNCHANGED <<controlVars, startClientless, dispatching, surface, frame, lit>>
    BY <1>3 DEF RedrawTimeout, Looping
  <2>2. CASE ClientForSurface(o) = None
    <3>1. submission' = submission \ {o} /\ UNCHANGED <<run, display, clientVars, hasBuffer>>
      BY <1>3, <2>2 DEF RedrawTimeout
    <3>2. SwitchesOK'
      BY <2>1, <3>1, Zenon DEF SwitchesOK
    <3>3. ClientsOK' /\ SurfacesOK' /\ ProcsOK' /\ ClientlessDraws'
      BY <2>1, <3>1
         DEF ClientsOK, SurfacesOK, ProcsOK, ClientlessDraws, Surfaces, Configured
    <3>4. ~Relied
      <4>1. Served => ClientForSurface(o) # None
        <5>1. o \in Surfaces
          BY <2>1 DEF SurfacesOK
        <5> QED
          BY <5>1, Zenon DEF Served, ClientForSurface
      <4> QED
        BY <2>2, <4>1 DEF WatchedOK
    <3>5. WatchedOK'
      BY <2>1, <3>1, <3>4 DEF WatchedOK, Relied
    <3> QED
      BY <3>2, <3>3, <3>5
  <2>3. CASE ClientForSurface(o) # None
    <3>1. ClientForSurface(o) \in clients
      <4>1. o \in Slots /\ Main \in Slots
        BY DEF Slots
      <4> QED
        BY <2>3, <4>1 DEF ClientForSurface, ClientsOK
    <3>2. ClientTimeout(ClientForSurface(o), submission \ {o}) /\ submission \ {o} \in SUBSET submission
      BY <1>3, <2>3 DEF RedrawTimeout
    <3> QED
      BY <2>1, <3>1, <3>2, ClientTimeoutKeeps
  <2> QED
    BY <2>2, <2>3
<1>4. ASSUME NEW o \in Outputs, FrameDone(o) PROVE PluginIInv'
  <2>1. /\ run = "up" /\ frame' = [frame EXCEPT ![o] = "shown"]
        /\ paused' = paused \ Resumed({ClientForSurface(o)})
        /\ procs' = Continued({ClientForSurface(o)})
        /\ UNCHANGED <<perOutput, hiddenTimer, serverVars, clients, slot, owner, registered,
                       connecting, surface, hasBuffer, submission, lit>>
        /\ ~dispatching
    BY <1>4 DEF FrameDone, Looping
  <2>0. run' \in {"up", "usedFreedServer"}
    BY <1>4, <2>1 DEF FrameDone
  <2>2. SwitchesOK'
    <3>1. run' \in {"up", "exited", "aborted", "usedFreedServer", "usedNullServer"}
      BY <2>0
    <3> QED
      BY <2>1, <3>1, Zenon DEF SwitchesOK
  <2>3. ProcsOK'
    BY <2>0, <2>1, ContinuedProperties DEF ProcsOK, Resumed
  <2>4. ClientsOK' /\ SurfacesOK' /\ ClientlessDraws'
    BY <2>1 DEF ClientsOK, SurfacesOK, ClientlessDraws, Surfaces, Configured, Frames
  <2>5. WatchedOK'
    BY <2>1 DEF WatchedOK, Relied, Served, Surfaces
  <2> QED
    BY <2>2, <2>3, <2>4, <2>5
<1>5. CASE HiddenCheck
  <2> DEFINE stop == {c \in clients \ paused : Hidden(c) /\ procs[c] # "dead"}
             cont == {c \in Resumed(clients) : ~Hidden(c)}
  <2>1. /\ run = "up" /\ paused' = (paused \cup stop) \ cont
        /\ procs' = [p \in Pids |-> IF p \in stop THEN "stopped" ELSE Continued(cont)[p]]
        /\ UNCHANGED <<controlVars, serverVars, clients, slot, owner, registered, connecting,
                       outputVars, lit>>
    BY <1>5 DEF HiddenCheck, Looping
  <2>2. stop \subseteq clients /\ stop \cap paused = {} /\ cont \subseteq paused
    BY DEF Resumed
  <2> HIDE DEF stop, cont
  <2>3. SwitchesOK'
    BY <2>1, Zenon DEF SwitchesOK
  <2>4. ProcsOK'
    BY <2>1, <2>2, ContinuedProperties DEF ProcsOK
  <2>5. ClientsOK' /\ SurfacesOK' /\ ClientlessDraws'
    BY <2>1 DEF ClientsOK, SurfacesOK, ClientlessDraws, Surfaces, Configured
  <2>6. WatchedOK'
    BY <2>1 DEF WatchedOK, Relied, Served, Surfaces
  <2> QED
    BY <2>3, <2>4, <2>5, <2>6
<1>6. CASE ArmHiddenCheck
  <2>1. /\ hiddenTimer' = TRUE
        /\ UNCHANGED <<perOutput, run, serverVars, clientVars, outputVars, lit>>
    BY <1>6 DEF ArmHiddenCheck
  <2>2. SwitchesOK'
    BY <2>1, Zenon DEF SwitchesOK
  <2>3. ClientsOK' /\ SurfacesOK' /\ ProcsOK' /\ ClientlessDraws'
    BY <2>1 DEF ClientsOK, SurfacesOK, ProcsOK, ClientlessDraws, Surfaces, Configured
  <2>4. WatchedOK'
    BY <2>1 DEF WatchedOK, Relied, Served, Surfaces
  <2> QED
    BY <2>2, <2>3, <2>4
<1> QED
  BY <1>1, <1>2, <1>3, <1>4, <1>5, <1>6

-----------------------------------------------------------------------------
(* Outputs that come, change and go, and the end *)

LEMMA CreateSurfaceKeeps ==
  ASSUME PluginAssumption, PluginIInv, NEW o \in Outputs, CreateSurface(o)
  PROVE  PluginIInv'
<1> USE DEF PluginIInv, clientVars
<1>1. /\ run = "up" /\ ~dispatching /\ surface[o] = "absent"
      /\ surface' = [surface EXCEPT ![o] = "created"]
      /\ UNCHANGED <<perOutput, hiddenTimer, startClientless, dispatching, frame, lit>>
  BY DEF CreateSurface, Looping
<1>2. /\ Surfaces' = Surfaces \cup {o} /\ Configured' = Configured /\ o \notin Surfaces
      /\ surface' \in [Outputs -> Phases] /\ o # Main /\ o \in Slots /\ Main \in Slots
  BY <1>1 DEF Surfaces, Configured, SurfacesOK, Phases, Slots, PluginAssumption
<1>3. owner[o] = None
  BY <1>2 DEF ClientsOK, SurfacesOK
<1>4. CASE ~perOutput /\ submission' = submission \cup {o} /\ UNCHANGED <<run, display, clientVars, hasBuffer>>
  <2>1. SwitchesOK'
    BY <1>1, <1>4, Zenon DEF SwitchesOK
  <2>2. ClientsOK' /\ ProcsOK'
    BY <1>4 DEF ClientsOK, ProcsOK
  <2>3. SurfacesOK' /\ ClientlessDraws'
    BY <1>1, <1>2, <1>4 DEF SurfacesOK, ClientlessDraws
  <2>4. WatchedOK'
    BY <1>1, <1>2, <1>4 DEF WatchedOK, Relied, Served
  <2> QED
    BY <2>1, <2>2, <2>3, <2>4
<1>5. CASE Spawn(o, {}) /\ submission' = submission \cup {o} /\ UNCHANGED <<run, display, hasBuffer>>
           /\ perOutput
  <2> DEFINE C == {}
  <2>1. /\ C \in SUBSET clients /\ Spawn(o, C) /\ \A d \in C : slot[d] = o
        /\ owner[o] # None => owner[o] \in C
    BY <1>3, <1>5
  <2> HIDE DEF C
  <2>2. /\ ClientsOK'
        /\ \E pid \in Pids \ (clients \ C) :
             /\ procs[pid] = "dead" /\ clients' = (clients \ C) \cup {pid}
             /\ registered' = registered \ C
             /\ connecting' = (connecting \ C) \cup {pid}
             /\ slot'[pid] = o /\ owner'[o] = pid /\ owner'[o] # None
             /\ procs' = [Continued(C) EXCEPT ![pid] = "running"] /\ paused' = paused \ C
        /\ \A d \in clients \ C : slot'[d] = slot[d]
        /\ \A q \in Slots : q # o => owner'[q] = owner[q]
    BY <1>2, <2>1, SpawnProperties
  <2> USE DEF C
  <2>3. PICK pid \in Pids \ clients :
             /\ clients' = clients \cup {pid} /\ registered' = registered
             /\ connecting' = connecting \cup {pid}
             /\ slot'[pid] = o /\ owner'[o] # None
             /\ procs' = [Continued({}) EXCEPT ![pid] = "running"] /\ paused' = paused
    BY <2>2
  <2>4. SwitchesOK'
    BY <1>1, <1>5, Zenon DEF SwitchesOK
  <2>5. SurfacesOK' /\ ClientlessDraws'
    BY <1>1, <1>2, <1>5, <2>2, <2>3 DEF SurfacesOK, ClientlessDraws
  <2>6. ProcsOK'
    BY <1>5, <2>3, ContinuedProperties DEF ProcsOK
  <2>7. WatchedOK'
    <3>1. Relied' => Relied
      BY <1>1, <1>5 DEF Relied
    <3>2. Served => Served'
      <4>1. Surfaces \subseteq Slots
        BY DEF Slots, Surfaces
      <4> QED
        BY <1>1, <1>2, <1>5, <2>2, <2>3, <4>1 DEF Served
    <3> QED
      BY <1>2, <1>5, <2>3, <3>1, <3>2 DEF WatchedOK
  <2> QED
    BY <2>2, <2>4, <2>5, <2>6, <2>7
<1>6. CASE Clientless({}, submission \cup {o})
           /\ UNCHANGED <<run, clients, slot, owner, registered, connecting>>
  <2>1. ClientsOK' /\ {} \in SUBSET clients /\ clients' = clients \ {}
    BY <1>6 DEF ClientsOK
  <2>2. /\ ProcsOK' /\ display' = FALSE
        /\ submission' \subseteq submission \cup {o} /\ hasBuffer \subseteq hasBuffer'
        /\ hasBuffer' \subseteq hasBuffer \cup Configured
        /\ ~display \/ Configured \subseteq hasBuffer'
    BY <1>1, <1>6, <2>1, ClientlessProperties
  <2>3. SwitchesOK'
    BY <1>1, <1>6, <2>2, Zenon DEF SwitchesOK
  <2>4. SurfacesOK' /\ ClientlessDraws' /\ WatchedOK'
    BY <1>1, <1>2, <1>6, <2>2 DEF SurfacesOK, ClientlessDraws, WatchedOK, Relied, Configured
  <2> QED
    BY <2>1, <2>2, <2>3, <2>4
<1>7. CASE run' = "usedNullServer" /\ UNCHANGED <<display, clientVars, hasBuffer, submission>>
  <2>1. SwitchesOK'
    BY <1>1, <1>7, Zenon DEF SwitchesOK
  <2>2. ClientsOK' /\ ProcsOK'
    BY <1>1, <1>7 DEF ClientsOK, ProcsOK
  <2>3. SurfacesOK' /\ ClientlessDraws' /\ WatchedOK'
    BY <1>1, <1>2, <1>7 DEF SurfacesOK, ClientlessDraws, WatchedOK, Relied
  <2> QED
    BY <2>1, <2>2, <2>3
<1> QED
  BY <1>4, <1>5, <1>6, <1>7 DEF CreateSurface

LEMMA OutputsKeep ==
  ASSUME PluginAssumption, PluginIInv, NEW o \in Outputs, DestroySurface(o) \/ Configure(o)
  PROVE  PluginIInv'
<1> USE DEF PluginIInv, controlVars, serverVars, clientVars, outputVars
<1>1. CASE DestroySurface(o)
  <2>1. /\ run = "up" /\ ~dispatching /\ o \in Surfaces
        /\ surface' = [surface EXCEPT ![o] = "absent"] /\ frame' = [frame EXCEPT ![o] = "idle"]
        /\ hasBuffer' = hasBuffer \ {o} /\ submission' = submission \ {o}
        /\ run' \in {run, "usedFreedServer"}
        /\ UNCHANGED <<perOutput, hiddenTimer, serverVars, lit>>
    BY <1>1 DEF DestroySurface, Looping
  <2>2. /\ Surfaces' = Surfaces \ {o} /\ Configured' = Configured \ {o}
        /\ surface' \in [Outputs -> Phases] /\ frame' \in [Outputs -> Frames]
        /\ o # Main /\ o \in Slots /\ Main \in Slots
    BY <2>1 DEF Surfaces, Configured, SurfacesOK, Phases, Frames, Slots, PluginAssumption
  <2>3. SwitchesOK'
    BY <2>1, Zenon DEF SwitchesOK
  <2>4. ClientlessDraws'
    BY <2>1, <2>2 DEF ClientlessDraws
  <2>5. CASE owner[o] = None /\ UNCHANGED clientVars
    <3>1. ClientsOK' /\ ProcsOK'
      BY <2>1, <2>5 DEF ClientsOK, ProcsOK
    <3>2. SurfacesOK'
      BY <2>1, <2>2, <2>5 DEF SurfacesOK, ClientsOK
    <3>3. WatchedOK'
      BY <2>1, <2>2, <2>5 DEF WatchedOK, Relied, Served
    <3> QED
      BY <2>3, <2>4, <3>1, <3>2, <3>3
  <2>6. CASE owner[o] # None /\ Cleanup(owner[o])
             /\ paused' = paused \ {owner[o]} /\ procs' = Continued({owner[o]})
    <3> DEFINE c == owner[o]
    <3>1. c \in clients /\ slot[c] = o
      BY <2>2, <2>6 DEF ClientsOK
    <3> HIDE DEF c
    <3>2. /\ ClientsOK' /\ clients' = clients \ {c} /\ registered' = registered \ {c}
          /\ connecting' = connecting \ {c} /\ \A d \in clients' : slot'[d] = slot[d]
          /\ \A s \in Slots : s # slot[c] => owner'[s] = owner[s]
      BY <2>6, <3>1, CleanupProperties DEF c
    <3>3. ProcsOK'
      BY <2>1, <2>6, <3>1, <3>2, ContinuedProperties DEF ProcsOK, c
    <3>4. \A d \in clients' : slot'[d] # o
      BY <3>1, <3>2 DEF ClientsOK
    <3>5. SurfacesOK'
      BY <2>1, <2>2, <3>2, <3>4 DEF SurfacesOK
    <3>6. WatchedOK'
      <4>1. Relied' => Relied
        BY <2>1 DEF Relied
      <4>2. Served => Served'
        <5>1. Surfaces \subseteq Slots
          BY DEF Slots, Surfaces
        <5> QED
          BY <2>1, <2>2, <3>1, <3>2, <5>1 DEF Served
      <4> QED
        BY <2>1, <2>2, <3>2, <4>1, <4>2 DEF WatchedOK
    <3> QED
      BY <2>3, <2>4, <3>2, <3>3, <3>5, <3>6
  <2> QED
    BY <1>1, <2>5, <2>6 DEF DestroySurface
<1>2. CASE Configure(o)
  <2>1. /\ o \in Surfaces /\ surface' = [surface EXCEPT ![o] = Sized(o)]
        /\ hasBuffer' = IF display THEN hasBuffer ELSE hasBuffer \cup {o}
        /\ submission' = IF o \in Configured THEN submission \cup {o} ELSE submission
        /\ UNCHANGED <<controlVars, serverVars, clientVars, frame, lit>>
    BY <1>2 DEF Configure
  <2>2. Sized(o) \in {"configured", "advertised"}
    BY <2>1 DEF Sized, Surfaces, SurfacesOK, Phases
  <2>3. /\ Surfaces' = Surfaces /\ Configured' = Configured \cup {o}
        /\ surface' \in [Outputs -> Phases]
    BY <2>1, <2>2 DEF Surfaces, Configured, SurfacesOK, Phases
  <2>4. SwitchesOK'
    BY <2>1, Zenon DEF SwitchesOK
  <2>5. ClientsOK' /\ ProcsOK'
    BY <2>1 DEF ClientsOK, ProcsOK
  <2>6. SurfacesOK'
    BY <2>1, <2>3 DEF SurfacesOK
  <2>7. ClientlessDraws'
    BY <2>1, <2>3 DEF ClientlessDraws
  <2>8. WatchedOK'
    <3>1. hasBuffer \subseteq hasBuffer' /\ submission \subseteq submission'
      BY <2>1
    <3>2. (Relied' <=> Relied) /\ (Served' <=> Served)
      BY <2>1, <2>3 DEF Relied, Served
    <3> QED
      BY <2>1, <2>3, <3>1, <3>2 DEF WatchedOK
  <2> QED
    BY <2>4, <2>5, <2>6, <2>7, <2>8
<1> QED
  BY <1>1, <1>2

LEMMA EndKeeps ==
  ASSUME PluginAssumption, PluginIInv, Exit \/ Abort
  PROVE  PluginIInv'
<1> USE DEF PluginIInv
<1>1. /\ ~dispatching /\ run' \in {"exited", "aborted"} /\ ProcessEnds
      /\ (procs' = procs /\ run' # "exited") \/ procs' = Continued(clients)
      /\ run = "up"
  BY DEF Exit, Abort, Looping
<1>2. SwitchesOK'
  BY <1>1, Zenon DEF SwitchesOK, ProcessEnds
<1>3. ClientsOK' /\ SurfacesOK'
  BY <1>1 DEF ClientsOK, SurfacesOK, ProcessEnds, Surfaces, Phases, Frames, Slots
<1>4. ProcsOK'
  <2>1. paused' = {} /\ clients' = {}
    BY <1>1 DEF ProcessEnds
  <2> QED
    BY <1>1, <2>1, ContinuedProperties DEF ProcsOK
<1>5. WatchedOK' /\ ClientlessDraws'
  BY <1>1 DEF WatchedOK, Relied, ClientlessDraws
<1> QED
  BY <1>2, <1>3, <1>4, <1>5

LEMMA EnvironmentKeeps ==
  ASSUME PluginAssumption, PluginIInv, Environment
  PROVE  PluginIInv'
<1> USE DEF PluginIInv, controlVars, serverVars, clientVars, outputVars
<1>1. ASSUME NEW p \in Pids, ProcessDies(p) PROVE PluginIInv'
  <2>1. /\ procs' = [procs EXCEPT ![p] = "dead"]
        /\ UNCHANGED <<controlVars, serverVars, clients, slot, owner, registered, connecting,
                       paused, outputVars, lit>>
    BY <1>1 DEF ProcessDies
  <2>2. SwitchesOK'
    BY <2>1, Zenon DEF SwitchesOK
  <2>3. ProcsOK'
    BY <2>1 DEF ProcsOK
  <2>4. ClientsOK' /\ SurfacesOK' /\ ClientlessDraws'
    BY <2>1 DEF ClientsOK, SurfacesOK, ClientlessDraws, Surfaces, Configured
  <2>5. WatchedOK'
    BY <2>1 DEF WatchedOK, Relied, Served, Surfaces
  <2> QED
    BY <2>2, <2>3, <2>4, <2>5
<1>2. ASSUME NEW o \in Outputs, Present(o) \/ Elapse(o) PROVE PluginIInv'
  <2>1. /\ lit' \in {lit, lit \ {o}, lit \cup {o}}
        /\ UNCHANGED <<controlVars, serverVars, clientVars, surface, hasBuffer, submission>>
    BY <1>2 DEF Present, Elapse
  <2>2. frame' \in [Outputs -> Frames]
    BY <1>2 DEF Present, Elapse, SurfacesOK, Frames
  <2>3. lit' \subseteq Outputs
    BY <2>1 DEF SwitchesOK
  <2>4. SwitchesOK'
    BY <2>1, <2>3, Zenon DEF SwitchesOK
  <2>5. ClientsOK' /\ SurfacesOK' /\ ProcsOK' /\ ClientlessDraws'
    BY <2>1, <2>2 DEF ClientsOK, SurfacesOK, ProcsOK, ClientlessDraws, Surfaces, Configured
  <2>6. WatchedOK'
    BY <2>1 DEF WatchedOK, Relied, Served, Surfaces
  <2> QED
    BY <2>4, <2>5, <2>6
<1> QED
  BY <1>1, <1>2 DEF Environment

-----------------------------------------------------------------------------
(* The theorems *)

LEMMA PluginInductive == Spec => []PluginIInv
<1>0. PluginAssumption
  BY PluginAssumption
<1>1. Init => PluginIInv
  <2> SUFFICES ASSUME Init PROVE PluginIInv
    OBVIOUS
  <2>1. /\ perOutput \in BOOLEAN /\ run = "up" /\ hiddenTimer = FALSE /\ startClientless = FALSE
        /\ dispatching = FALSE /\ display \in BOOLEAN /\ lit = Outputs
    BY DEF Init
  <2>2. SwitchesOK
    BY <2>1, Zenon DEF SwitchesOK
  <2>3. clients \in {{}, {1}} /\ 1 \in Pids /\ None # 1 /\ Main \in Slots
    BY <1>0 DEF Init, PluginAssumption, Pids, Slots
  <2>4. ClientsOK
    BY <2>3 DEF Init, ClientsOK
  <2>5. SurfacesOK /\ ProcsOK /\ ClientlessDraws
    BY <2>3 DEF Init, SurfacesOK, ProcsOK, ClientlessDraws, Surfaces, Configured, Phases, Frames
  <2>6. WatchedOK
    <3>1. Surfaces = {} /\ connecting = clients
      BY DEF Init, Surfaces
    <3>2. Relied /\ ~perOutput => owner[Main] # None
      BY <2>3 DEF Init, Relied
    <3> QED
      BY <3>1, <3>2 DEF WatchedOK, Served
  <2> QED
    BY <2>2, <2>4, <2>5, <2>6 DEF PluginIInv
<1>2. PluginIInv /\ [Next]_vars => PluginIInv'
  <2> SUFFICES ASSUME PluginIInv, [Next]_vars PROVE PluginIInv'
    OBVIOUS
  <2>1. CASE NestedDispatch
    BY <1>0, <2>1, NestedKeeps
  <2>2. CASE MainLoop
    <3>1. ASSUME NEW o \in Outputs, CreateSurface(o) \/ DestroySurface(o) \/ Configure(o)
          PROVE  PluginIInv'
      BY <1>0, <3>1, CreateSurfaceKeeps, OutputsKeep
    <3> QED
      BY <1>0, <2>2, <3>1, TimersKeep, EndKeeps DEF MainLoop
  <2>3. CASE Environment
    BY <1>0, <2>3, EnvironmentKeeps
  <2>4. CASE UNCHANGED vars
    <3> USE <2>4 DEF vars, controlVars, serverVars, clientVars, outputVars, PluginIInv
    <3>1. SwitchesOK'
      BY Zenon DEF SwitchesOK
    <3>2. ClientsOK' /\ SurfacesOK' /\ ProcsOK' /\ ClientlessDraws'
      BY DEF ClientsOK, SurfacesOK, ProcsOK, ClientlessDraws, Surfaces, Configured
    <3>3. WatchedOK'
      BY DEF WatchedOK, Relied, Served, Surfaces
    <3> QED
      BY <3>1, <3>2, <3>3
  <2> QED
    BY <2>1, <2>2, <2>3, <2>4 DEF Next
<1> QED
  BY <1>1, <1>2, PTL DEF Spec

\* With one program for all outputs, every output is its: it is the only client.
LEMMA Lone ==
  ASSUME PluginAssumption, PluginIInv, LoneOK, ~perOutput, NEW c \in clients
  PROVE  /\ clients = {c} /\ slot[c] = Main /\ Unasked(c) = {}
         /\ run = "up" => display /\ ~startClientless
<1> USE DEF PluginIInv
<1>1. \A d \in clients : slot[d] = Main /\ owner[Main] = d
  BY DEF LoneOK, ClientsOK
<1>2. clients = {c} /\ owner[Main] = c
  BY <1>1
<1>3. ASSUME NEW o \in Outputs PROVE ClientForSurface(o) = c
  <2>1. o \in Slots /\ o # Main
    BY DEF PluginAssumption, Slots
  <2>2. owner[o] = None
    BY <1>1, <2>1 DEF ClientsOK
  <2> QED
    BY <1>2, <2>2 DEF ClientForSurface
<1>4. Unasked(c) = {}
  BY <1>3 DEF Unasked, LoneOK
<1> QED
  BY <1>1, <1>2, <1>4 DEF LoneOK

\* The end of that client, restarted or not.
LEMMA LoneDestroyed ==
  ASSUME PluginAssumption, PluginIInv, LoneOK, run = "up", NEW c \in clients,
         ClientDestroyed(c), UNCHANGED <<perOutput, run, display>>
  PROVE  LoneOK'
<1>1. asked' = Unasked(c)
  BY DEF ClientDestroyed
<1>2. asked' \subseteq Outputs
  BY <1>1 DEF Unasked, LoneOK
<1>3. ASSUME ~perOutput
      PROVE  /\ \A d \in clients' : slot'[d] = Main
             /\ asked' = {} /\ (~display' \/ startClientless' => clients' = {})
  <2>1. /\ clients = {c} /\ slot[c] = Main /\ Unasked(c) = {} /\ display /\ ~startClientless
        /\ c \in Pids
    BY <1>3, Lone DEF PluginIInv, ClientsOK
  <2>2. CASE Spawn(slot[c], {c}) /\ UNCHANGED startClientless
    <3>1. \E pid \in Pids :
            /\ clients' = (clients \ {c}) \cup {pid}
            /\ slot' = [p \in Pids |-> IF p = pid THEN Main ELSE IF p \in {c} THEN Main ELSE slot[p]]
      BY <2>1, <2>2 DEF Spawn, Free
    <3> QED
      BY <1>1, <2>1, <2>2, <3>1
  <2>3. CASE Cleanup(c)
    <3>1. clients' = {}
      BY <2>1, <2>3 DEF Cleanup
    <3> QED
      BY <1>1, <2>1, <3>1
  <2> QED
    BY <2>2, <2>3 DEF ClientDestroyed
<1> QED
  BY <1>2, <1>3 DEF LoneOK

\* That client given up on: it is destroyed before the fall back.
LEMMA LoneTimeout ==
  ASSUME PluginAssumption, PluginIInv, LoneOK, run = "up", NEW c \in clients, NEW T,
         ClientTimeout(c, T), UNCHANGED <<perOutput, run>>
  PROVE  LoneOK'
<1>1. asked' = (IF display THEN Unasked(c) ELSE asked) /\ clients' = clients \ {c}
  BY DEF ClientTimeout, Cleanup
<1>2. asked' \subseteq Outputs
  BY <1>1 DEF Unasked, LoneOK
<1>3. ~perOutput => clients' = {} /\ asked' = {}
  BY <1>1, Lone
<1> QED
  BY <1>2, <1>3 DEF LoneOK

LEMMA LoneStep ==
  ASSUME PluginAssumption, PluginIInv, LoneOK, [Next]_vars
  PROVE  LoneOK'
<1> USE DEF controlVars, serverVars, clientVars, outputVars
<1>1. ASSUME NEW c \in Pids, HangUp(c) \/ FlushFails(c) PROVE LoneOK'
  <2>1. /\ run = "up" /\ c \in clients /\ ClientDestroyed(c)
        /\ UNCHANGED <<perOutput, run, display>>
    BY <1>1 DEF HangUp, FlushFails, Nested, Looping, PluginIInv, ClientsOK
  <2> QED
    BY <2>1, LoneDestroyed
<1>2. ASSUME NEW c \in Pids, MakeRegistry(c) PROVE LoneOK'
  BY <1>2 DEF MakeRegistry, Nested, LoneOK
<1>3. ASSUME NEW c \in Pids, NEW o \in Outputs, NEW w \in BOOLEAN, Draw(c, o, w) PROVE LoneOK'
  <2>1. /\ c \in clients /\ asked' \subseteq asked \cup {o}
        /\ UNCHANGED <<perOutput, run, display, startClientless, clients, slot>>
    BY <1>3 DEF Draw, Nested, PluginIInv, ClientsOK
  <2> QED
    BY <2>1 DEF LoneOK
<1>4. CASE EndDispatch
  <2>1. /\ display' = display \/ startClientless
        /\ UNCHANGED <<perOutput, run, startClientless, clients, slot, asked>>
    BY <1>4, Zenon DEF EndDispatch
  <2>2. ~perOutput /\ run = "up" /\ (~display' \/ startClientless) => clients = {}
    BY <2>1 DEF LoneOK
  <2> QED
    BY <2>1, <2>2 DEF LoneOK
<1>5. ASSUME NEW c \in Pids, ConnectTimeout(c) PROVE LoneOK'
  <2>1. /\ run = "up" /\ c \in clients /\ ClientTimeout(c, submission)
        /\ UNCHANGED <<perOutput, run>>
    BY <1>5 DEF ConnectTimeout, Looping, PluginIInv, ClientsOK
  <2> QED
    BY <2>1, LoneTimeout
<1>6. ASSUME NEW o \in Outputs, RedrawTimeout(o) PROVE LoneOK'
  <2>1. run = "up" /\ UNCHANGED <<perOutput, run, startClientless>>
    BY <1>6 DEF RedrawTimeout, Looping
  <2>2. CASE ClientForSurface(o) = None
    BY <1>6, <2>1, <2>2 DEF RedrawTimeout, LoneOK
  <2>3. CASE ClientForSurface(o) # None
    <3>1. ClientForSurface(o) \in clients
      BY <2>3 DEF ClientForSurface, PluginIInv, ClientsOK, Slots
    <3>2. ClientTimeout(ClientForSurface(o), submission \ {o})
      BY <1>6, <2>3 DEF RedrawTimeout
    <3> QED
      BY <2>1, <3>1, <3>2, LoneTimeout
  <2> QED
    BY <2>2, <2>3
<1>7. ASSUME NEW o \in Outputs, FrameDone(o) PROVE LoneOK'
  <2>1. /\ asked' = asked \ {o} /\ run = "up"
        /\ UNCHANGED <<perOutput, display, startClientless, clients, slot>>
    BY <1>7 DEF FrameDone, Looping
  <2> QED
    BY <2>1 DEF LoneOK
<1>8. ASSUME NEW o \in Outputs, CreateSurface(o) PROVE LoneOK'
  <2>1. run = "up" /\ UNCHANGED <<perOutput, startClientless, asked>>
    BY <1>8 DEF CreateSurface, Looping
  <2>2. ~perOutput => UNCHANGED <<run, display, clients, slot>>
    BY <1>8 DEF CreateSurface
  <2> QED
    BY <2>1, <2>2 DEF LoneOK
<1>9. ASSUME NEW o \in Outputs, DestroySurface(o) PROVE LoneOK'
  <2>1. run = "up" /\ asked' = asked \ {o} /\ UNCHANGED <<perOutput, startClientless, display>>
    BY <1>9 DEF DestroySurface, Looping
  <2>2. ASSUME ~perOutput PROVE UNCHANGED <<clients, slot>>
    <3>1. o \in Slots /\ o # Main
      BY DEF PluginAssumption, Slots
    <3>2. owner[o] = None
      BY <2>2, <3>1 DEF LoneOK, PluginIInv, ClientsOK
    <3> QED
      BY <1>9, <3>2 DEF DestroySurface
  <2> QED
    BY <2>1, <2>2 DEF LoneOK
<1>10. CASE Exit \/ Abort
  <2>1. clients' = {} /\ asked' = {}
    BY <1>10 DEF Exit, Abort, ProcessEnds
  <2> QED
    BY <2>1 DEF LoneOK
<1>11. CASE HiddenCheck \/ ArmHiddenCheck \/ UNCHANGED vars
  <2>1. UNCHANGED <<perOutput, run, display, startClientless, clients, slot, asked>>
    BY <1>11 DEF HiddenCheck, ArmHiddenCheck, vars
  <2> QED
    BY <2>1 DEF LoneOK
<1>12. ASSUME NEW o \in Outputs, Configure(o) \/ Present(o) \/ Elapse(o) PROVE LoneOK'
  <2>1. UNCHANGED <<perOutput, run, display, startClientless, clients, slot, asked>>
    BY <1>12 DEF Configure, Present, Elapse
  <2> QED
    BY <2>1 DEF LoneOK
<1>13. ASSUME NEW p \in Pids, ProcessDies(p) PROVE LoneOK'
  BY <1>13 DEF ProcessDies, LoneOK
<1> QED
  BY <1>1, <1>2, <1>3, <1>4, <1>5, <1>6, <1>7, <1>8, <1>9, <1>10, <1>11, <1>12, <1>13
     DEF Next, NestedDispatch, MainLoop, Environment

LEMMA LoneInductive == Spec => []LoneOK
<1>1. Init => LoneOK
  <2> SUFFICES ASSUME Init PROVE LoneOK
    OBVIOUS
  <2>1. asked = {} /\ startClientless = FALSE /\ \A c \in clients : c = 1
    BY DEF Init
  <2>2. 1 \in Pids => slot[1] = Main
    BY DEF Init
  <2>3. 1 \in Pids
    BY PluginAssumption DEF PluginAssumption, Pids
  <2>4. ~display => clients = {}
    BY DEF Init
  <2> QED
    BY <2>1, <2>2, <2>3, <2>4 DEF LoneOK
<1>2. PluginIInv /\ LoneOK /\ [Next]_vars => LoneOK'
  BY PluginAssumption, LoneStep
<1> QED
  BY <1>1, <1>2, PluginInductive, PTL DEF Spec

\* Through restarts, timeouts, hot-plugging and the fall back, client records and
\* the outputs and timers they point to agree: the assertions of cleanup_client
\* and run_plugin_command hold, and nothing points to a surface that is gone.
THEOREM OwnersInvariant == Spec => []OwnersInv
<1>1. PluginIInv /\ LoneOK => OwnersInv
  BY PluginAssumption, PluginIInvImplies DEF LoneOK
<1> QED
  BY <1>1, PluginInductive, LoneInductive, PTL

\* --pause-when-hidden never forgets a process group it has stopped, and main's
\* regular end leaves none stopped.
THEOREM StoppedAlwaysKnown == Spec => []StoppedIsKnown
<1>1. PluginIInv /\ LoneOK => StoppedIsKnown
  BY PluginAssumption, PluginIInvImplies DEF LoneOK
<1> QED
  BY <1>1, PluginInductive, LoneInductive, PTL

\* As long as programs are relied on, every output without content has a program
\* and a timer that gives up on it.
THEOREM BlankAlwaysWatched == Spec => []BlankIsWatched
<1>1. PluginIInv /\ LoneOK => BlankIsWatched
  BY PluginAssumption, PluginIInvImplies DEF LoneOK
<1> QED
  BY <1>1, PluginInductive, LoneInductive, PTL

\* Client-less mode leaves no configured output without content.
THEOREM ClientlessAlwaysDraws == Spec => []ClientlessDraws
<1>1. PluginIInv => ClientlessDraws
  BY DEF PluginIInv
<1> QED
  BY <1>1, PluginInductive, PTL

\* With one program for all outputs, nothing of it is left from the moment the
\* fall back is decided on: no timer, hang-up, restart or frame callback of it
\* meets the nested server that the fall back destroys.
THEOREM LoneProgramAlwaysGone == Spec => []LoneProgramGone
<1>1. LoneOK => LoneProgramGone
  BY DEF LoneOK, LoneProgramGone
<1> QED
  BY <1>1, LoneInductive, PTL

=============================================================================
