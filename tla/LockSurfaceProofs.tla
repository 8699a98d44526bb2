------------------------- MODULE LockSurfaceProofs --------------------------
(***************************************************************************)
(* Theorems about one lock surface, for every set of sizes and any number  *)
(* of configures and serials: acknowledgements stay in order on both       *)
(* sides, and in the orderly runs swaylock never breaks the lock protocol. *)
(* And about the subsurfaces of the plugin's layer surface, for every set  *)
(* of surfaces: whatever a plugin does, the surfaces form trees, their     *)
(* lists hold their children, and upstream follows the lists; and which    *)
(* order of destruction is behind every use of freed memory.               *)
(***************************************************************************)
EXTENDS LockSurface, Subsurfaces, SequenceTheorems, FiniteSetTheorems,
        WellFoundedInduction, TLAPS

-----------------------------------------------------------------------------
(* Sequences *)

\* One more entry.
LEMMA Appended ==
  ASSUME NEW S, NEW s \in Seq(S), NEW e \in S, NEW t, t = Append(s, e)
  PROVE  /\ t \in Seq(S) /\ Len(t) = Len(s) + 1 /\ Len(s) \in Nat /\ t # << >>
         /\ \A i \in 1..Len(s) : t[i] = s[i]
         /\ t[Len(s) + 1] = e
<1>1. Len(s) \in Nat
  BY LenProperties
<1>2. t \in Seq(S) /\ Len(t) = Len(s) + 1
  BY AppendProperties
<1>3. \A i \in 1..Len(s) + 1 : t[i] = IF i <= Len(s) THEN s[i] ELSE e
  BY AppendProperties
<1>4. t[Len(s) + 1] = e
  BY <1>1, <1>3
<1>5. \A i \in 1..Len(s) : t[i] = s[i]
  BY <1>1, <1>3
<1>6. t # << >>
  BY <1>1, <1>2, EmptySeq
<1> QED
  BY <1>1, <1>2, <1>4, <1>5, <1>6

\* Without the first i entries.
LEMMA Dropped ==
  ASSUME NEW S, NEW s \in Seq(S), NEW i \in 1..Len(s), NEW t, t = SubSeq(s, i + 1, Len(s))
  PROVE  /\ t \in Seq(S) /\ Len(t) = Len(s) - i /\ Len(s) \in Nat
         /\ \A k \in 1..Len(t) : t[k] = s[i + k] /\ i + k \in 1..Len(s) /\ i + k # 1
<1>1. Len(s) \in Nat /\ \A k \in 1..Len(s) : s[k] \in S
  BY LenProperties, ElementOfSeq
<1>2. /\ t \in Seq(S) /\ Len(t) = Len(s) - i
      /\ \A k \in 1..Len(s) - i : t[k] = s[i + k]
  BY <1>1, SubSeqProperties
<1> QED
  BY <1>1, <1>2

-----------------------------------------------------------------------------
(* The inductive invariant *)

\* The runs whose programs and compositor keep to conduct, and those of them in
\* which swaylock must not make an error.
Orderly == conduct # "any"
Judged == conduct = "buffers" \/ (conduct = "viewport" /\ display)

Errors == {None, "invalid_serial", "dimensions_mismatch", "null_buffer"}

SwitchesOK ==
  /\ conduct \in {"buffers", "viewport", "any"}
  /\ display \in BOOLEAN /\ hasNewer \in BOOLEAN /\ usedFirst \in BOOLEAN
  /\ hasBuffer \in BOOLEAN /\ dirty \in BOOLEAN /\ overlay \in BOOLEAN
  /\ wrong \in Errors /\ role \in {"none", "layer", "configured"}

CountersOK ==
  /\ configs \in Seq(Sizes) /\ Len(configs) <= MaxConfigures
  /\ lastAck \in 0..Len(configs) /\ pendingAck \in 0..Len(configs)
  /\ serial \in 0..MaxSerial /\ lastUsed \in 0..MaxSerial /\ table \in Seq(Pairs)

SizesOK ==
  /\ attached \in Sizes \cup {None, "destroyed"} /\ content \in Sizes \cup {None}
  /\ \A z \in {ackedSize, dest, source, upDest, upSource} : z \in Sizes \cup {None}

\* The open configures stand for configures of the compositor; the first may be
\* local, for a program whose predecessor has acknowledged the newest one.
TableOK ==
  \A i \in 1..Len(table) :
    /\ table[i].up <= Len(configs)
    /\ table[i].local => /\ i = 1 /\ ackedSize = None /\ pendingAck = 0 /\ lastAck # 0
                         /\ configs[lastAck] = table[i].size
    /\ ~table[i].local /\ Orderly => configs[table[i].up] = table[i].size
    /\ ~table[i].local /\ ackedSize # None => table[i].up > pendingAck

\* What a program has been told ends with the output's size.
RoleOK ==
  /\ role # "configured" => table = << >> /\ ackedSize = None
  /\ role # "none" => display /\ lastUsed < serial /\ configs # << >>
  /\ role = "configured" =>
       /\ usedFirst
       /\ IF table = << >> THEN ackedSize = Size ELSE table[Len(table)].size = Size

\* Before the first commit of a program nothing is acknowledged or drawn.
FirstOK ==
  /\ ~usedFirst => pendingAck = 0
  /\ ~usedFirst /\ display => ~hasBuffer
  /\ Orderly /\ display /\ ~usedFirst => \A i \in 1..Len(configs) : configs[i] = Size

\* A commit of the acknowledged size will be of the size acknowledged upstream.
AckedOK ==
  Orderly /\ ackedSize # None =>
    IF pendingAck # 0 THEN configs[pendingAck] = ackedSize
    ELSE lastAck # 0 /\ configs[lastAck] = ackedSize

\* What the compositor shows has the acknowledged size.
DrawnOK ==
  /\ overlay => hasBuffer
  /\ ~hasBuffer => lastAck = 0
  /\ hasBuffer => configs # << >>
  /\ Judged =>
       /\ wrong = None /\ attached = None /\ source = None /\ upSource = None
       /\ dest # None => upDest = dest
       /\ conduct = "buffers" => dest = None /\ upDest = None
       /\ hasBuffer => /\ lastAck # 0 /\ content # None
                       /\ SurfaceSize(content, upDest, upSource) = configs[lastAck]

SurfaceIInv ==
  /\ SwitchesOK /\ CountersOK /\ SizesOK /\ SerialsOrdered
  /\ TableOK /\ RoleOK /\ FirstOK /\ AckedOK /\ DrawnOK

LEMMA SurfaceIInvImplies ==
  SurfaceIInv => SerialsInv /\ AnsweredIsCurrent /\ NoProtocolError
<1> SUFFICES ASSUME SurfaceIInv PROVE SerialsInv /\ AnsweredIsCurrent /\ NoProtocolError
  OBVIOUS
<1> USE DEF SurfaceIInv
<1>1. TypeOK
  BY DEF TypeOK, SwitchesOK, CountersOK, SizesOK, Errors
<1>2. AnsweredIsCurrent
  BY DEF AnsweredIsCurrent, RoleOK
<1>3. NoProtocolError
  BY DEF NoProtocolError, DrawnOK, Judged
<1> QED
  BY <1>1, <1>2, <1>3 DEF SerialsInv

-----------------------------------------------------------------------------
(* What reaches the compositor *)

\* A commit of render(), without an acknowledgement.
LEMMA Rendered ==
  ASSUME LockSurfaceAssumption, SizesOK, UNCHANGED viewVars, NEW sizes, Upstream(0, attached, sizes)
  PROVE  /\ lastAck' = lastAck /\ attached' = None /\ content' \in Sizes \cup {None}
         /\ wrong' \in Errors
         /\ attached = None /\ content # None /\ lastAck # 0
              /\ SurfaceSize(content, upDest, upSource) = sizes[lastAck] =>
            wrong' = None /\ content' = content
<1>1. lastAck' = lastAck /\ attached' = None
  BY DEF Upstream, AckedBy
<1>2. /\ content' \in Sizes \cup {None}
      /\ attached = None => content' = content
  BY DEF Upstream, SizesOK, LockSurfaceAssumption
<1>3. wrong' \in Errors
  BY DEF Upstream, Errors
<1>4. attached = None /\ content # None /\ lastAck # 0
        /\ SurfaceSize(content, upDest, upSource) = sizes[lastAck] => wrong' = None
  BY <1>1, <1>2 DEF Upstream, viewVars
<1> QED
  BY <1>1, <1>2, <1>3, <1>4

\* A commit with a buffer b and, unless s is 0, an acknowledgement.
LEMMA Committed ==
  ASSUME LockSurfaceAssumption, NEW s \in Nat, NEW b \in Sizes, NEW sizes, Upstream(s, b, sizes)
  PROVE  /\ lastAck' = AckedBy(s) /\ attached' = None /\ content' = b /\ b # None
         /\ wrong' \in Errors
         /\ s = 0 \/ s \in (lastAck + 1)..Len(sizes) =>
            (lastAck' # 0 /\ SurfaceSize(b, upDest', upSource') = sizes[lastAck'] => wrong' = None)
<1>1. b # None /\ b # "destroyed"
  BY DEF LockSurfaceAssumption
<1>2. lastAck' = AckedBy(s) /\ attached' = None /\ content' = b
  BY <1>1 DEF Upstream
<1>3. wrong' \in Errors
  BY DEF Upstream, Errors
<1> QED
  BY <1>1, <1>2, <1>3 DEF Upstream

-----------------------------------------------------------------------------
(* render() *)

\* A step that only renders.
LEMMA RenderKeeps ==
  ASSUME LockSurfaceAssumption, SurfaceIInv,
         UNCHANGED <<conduct, configs, viewVars, ackVars, hasBuffer, pluginVars>>,
         dirty' \in BOOLEAN, overlay' \in BOOLEAN, overlay' => hasBuffer,
         \/ hasBuffer /\ Upstream(0, attached, configs)
         \/ UNCHANGED <<lastAck, attached, content, wrong>>
  PROVE  SurfaceIInv'
<1> USE DEF SurfaceIInv, viewVars, ackVars, pluginVars
<1>1. /\ lastAck' = lastAck /\ attached' \in {attached, None} /\ content' \in Sizes \cup {None}
      /\ wrong' \in Errors
      /\ Judged => wrong' = None /\ content' = content
  BY Rendered DEF DrawnOK, SizesOK, SwitchesOK
<1>2. SwitchesOK'
  BY <1>1, Zenon DEF SwitchesOK, Errors
<1>3. CountersOK' /\ SizesOK' /\ SerialsOrdered'
  BY <1>1 DEF CountersOK, SizesOK, SerialsOrdered, Newest
<1>4. TableOK' /\ RoleOK' /\ FirstOK' /\ AckedOK'
  BY <1>1 DEF TableOK, RoleOK, FirstOK, AckedOK, Orderly, Size, Newest
<1>5. DrawnOK'
  BY <1>1 DEF DrawnOK, Judged, SurfaceSize
<1> QED
  BY <1>2, <1>3, <1>4, <1>5

LEMMA IndicatorKeeps ==
  ASSUME LockSurfaceAssumption, SurfaceIInv, Damage \/ OverlayFrameDone, UNCHANGED conduct
  PROVE  SurfaceIInv'
<1>1. CASE Damage
  <2>1. /\ UNCHANGED <<viewVars, configs, ackVars, hasBuffer, pluginVars>>
        /\ dirty' = ~Renders(hasBuffer) /\ overlay' = (overlay \/ Renders(hasBuffer))
        /\ IF Renders(hasBuffer) THEN Upstream(0, attached, configs)
           ELSE UNCHANGED <<lastAck, attached, content, wrong>>
    BY <1>1 DEF Damage, RenderNow
  <2>2. dirty' \in BOOLEAN /\ overlay' \in BOOLEAN
    BY <2>1
  <2>3. Renders(hasBuffer) => hasBuffer
    BY DEF Renders
  <2>4. overlay' => hasBuffer
    BY <2>1, <2>3 DEF SurfaceIInv, DrawnOK
  <2>5. \/ hasBuffer /\ Upstream(0, attached, configs)
        \/ UNCHANGED <<lastAck, attached, content, wrong>>
    BY <2>1, <2>3
  <2> QED
    BY <2>1, <2>2, <2>4, <2>5, RenderKeeps
<1>2. CASE OverlayFrameDone
  <2>1. /\ UNCHANGED <<viewVars, configs, ackVars, hasBuffer, pluginVars>> /\ overlay
        /\ IF dirty THEN dirty' = FALSE /\ UNCHANGED overlay /\ Upstream(0, attached, configs)
           ELSE overlay' = FALSE /\ UNCHANGED <<dirty, lastAck, attached, content, wrong>>
    BY <1>2 DEF OverlayFrameDone
  <2>2. hasBuffer
    BY <2>1 DEF SurfaceIInv, DrawnOK
  <2>3. dirty' \in BOOLEAN /\ overlay' \in BOOLEAN
    BY <2>1, Zenon DEF SurfaceIInv, SwitchesOK
  <2>4. \/ hasBuffer /\ Upstream(0, attached, configs)
        \/ UNCHANGED <<lastAck, attached, content, wrong>>
    BY <2>1, <2>2
  <2> QED
    BY <2>1, <2>2, <2>3, <2>4, RenderKeeps
<1> QED
  BY <1>1, <1>2

-----------------------------------------------------------------------------
(* Configure events *)

\* A configure that is shown to the program, or remembered until it has its
\* first one, and rendered at once if there is content.
LEMMA ConfigureForwardedKeeps ==
  ASSUME LockSurfaceAssumption, SurfaceIInv, UNCHANGED conduct, NEW z \in Sizes,
         HandleConfigure(z), display
  PROVE  SurfaceIInv'
<1> DEFINE n == Len(configs)
<1> USE DEF SurfaceIInv, Newest
<1>1. /\ wrong = None /\ n < MaxConfigures
      /\ conduct # "any" /\ display /\ ~usedFirst /\ configs # << >> => z = Size
      /\ UNCHANGED <<viewVars, conduct, display, usedFirst, pendingAck, hasBuffer>>
      /\ configs' = Append(configs, z) /\ ForwardConfigure(z) /\ hasNewer' = TRUE
      /\ dirty' = ~Renders(hasBuffer) /\ overlay' = (overlay \/ Renders(hasBuffer))
      /\ IF Renders(hasBuffer) THEN Upstream(0, attached, configs')
         ELSE UNCHANGED <<lastAck, attached, content, wrong>>
  BY DEF HandleConfigure, RenderNow
<1>2. /\ configs' \in Seq(Sizes) /\ Len(configs') = n + 1 /\ n \in Nat /\ configs' # << >>
      /\ \A i \in 1..n : configs'[i] = configs[i]
      /\ configs'[n + 1] = z
  BY <1>1, Appended DEF CountersOK
<1>3. /\ lastAck \in 0..n /\ pendingAck \in 0..n /\ n + 1 <= MaxConfigures /\ MaxConfigures \in Nat
      /\ MaxSerial \in Nat
  BY <1>1, <1>2 DEF CountersOK, LockSurfaceAssumption
<1> HIDE DEF n
<1>4. dirty' \in BOOLEAN /\ overlay' \in BOOLEAN /\ (overlay' => hasBuffer)
  BY <1>1 DEF Renders, DrawnOK
<1>5. /\ lastAck' = lastAck /\ attached' \in {attached, None} /\ content' \in Sizes \cup {None}
      /\ wrong' \in Errors
      /\ Judged => wrong' = None /\ content' = content
  <2>1. CASE Renders(hasBuffer)
    <3>1. hasBuffer /\ Upstream(0, attached, configs')
      BY <1>1, <2>1 DEF Renders
    <3>2. UNCHANGED viewVars
      BY <1>1
    <3>3. /\ lastAck' = lastAck /\ attached' = None /\ content' \in Sizes \cup {None}
          /\ wrong' \in Errors
          /\ attached = None /\ content # None /\ lastAck # 0
               /\ SurfaceSize(content, upDest, upSource) = configs'[lastAck] =>
             wrong' = None /\ content' = content
      BY <3>1, <3>2, Rendered
    <3>4. lastAck # 0 => configs'[lastAck] = configs[lastAck]
      BY <1>2, <1>3
    <3> QED
      BY <3>1, <3>3, <3>4 DEF DrawnOK
  <2>2. CASE ~Renders(hasBuffer)
    BY <1>1, <2>2 DEF SizesOK, SwitchesOK, DrawnOK
  <2> QED
    BY <2>1, <2>2
<1>6. UNCHANGED <<role, lastUsed, ackedSize, dest, source>>
  BY <1>1 DEF ForwardConfigure, pluginVars
<1>7. SwitchesOK'
  BY <1>1, <1>4, <1>5, <1>6, Zenon DEF SwitchesOK
<1>8. SizesOK'
  BY <1>1, <1>5, <1>6 DEF SizesOK, viewVars
<1>9. FirstOK'
  <2>1. Orderly /\ display /\ ~usedFirst => \A i \in 1..n + 1 : configs'[i] = z
    <3> SUFFICES ASSUME Orderly, display, ~usedFirst, NEW i \in 1..n + 1 PROVE configs'[i] = z
      OBVIOUS
    <3>1. CASE i = n + 1
      BY <1>2, <3>1
    <3>2. CASE i # n + 1
      <4>1. i \in 1..n /\ configs # << >>
        BY <1>2, <3>2, EmptySeq DEF n, CountersOK
      <4>2. configs[i] = Size /\ z = Size
        BY <1>1, <4>1 DEF FirstOK, Orderly, n
      <4> QED
        BY <1>2, <4>1, <4>2
    <3> QED
      BY <3>1, <3>2
  <2> QED
    BY <1>1, <1>2, <2>1 DEF FirstOK, Orderly, Size
<1>10. AckedOK'
  BY <1>1, <1>2, <1>3, <1>5, <1>6 DEF AckedOK, Orderly
<1>11. DrawnOK'
  BY <1>1, <1>2, <1>3, <1>4, <1>5, <1>6 DEF DrawnOK, Judged, SurfaceSize, viewVars
<1>12. CASE role # "configured"
  <2>1. UNCHANGED pluginVars /\ table = << >> /\ Len(table) = 0
    BY <1>1, <1>12, EmptySeq DEF ForwardConfigure, RoleOK, CountersOK
  <2>2. CountersOK'
    BY <1>1, <1>2, <1>3, <1>5, <2>1 DEF CountersOK, pluginVars
  <2>3. SerialsOrdered' /\ TableOK'
    BY <1>1, <1>2, <1>3, <1>5, <2>1 DEF SerialsOrdered, TableOK, pluginVars
  <2>4. RoleOK'
    BY <1>1, <1>2, <1>12, <2>1 DEF RoleOK, pluginVars
  <2> QED
    BY <1>7, <1>8, <1>9, <1>10, <1>11, <2>2, <2>3, <2>4
<1>13. CASE role = "configured"
  <2> DEFINE p == Pair(n + 1, z, FALSE)
             m == Len(table)
  <2>1. /\ serial < MaxSerial /\ serial' = serial + 1 /\ table' = Append(table, p)
        /\ serial \in 0..MaxSerial /\ lastUsed < serial
    BY <1>1, <1>13 DEF ForwardConfigure, CountersOK, RoleOK, n
  <2>2. p \in Pairs /\ p.up = n + 1 /\ p.plug = serial /\ p.size = z /\ ~p.local
    BY <1>2, <1>3, <2>1 DEF Pair, Pairs
  <2> HIDE DEF p, m
  <2>3. /\ table' \in Seq(Pairs) /\ Len(table') = m + 1 /\ m \in Nat /\ table' # << >>
        /\ \A i \in 1..m : table'[i] = table[i] /\ table[i] \in Pairs
        /\ table'[m + 1] = p
    BY <2>1, <2>2, Appended, ElementOfSeq DEF CountersOK, m
  <2>4. CountersOK'
    BY <1>1, <1>2, <1>3, <1>5, <1>6, <2>1, <2>3 DEF CountersOK
  <2>5. \A i \in 1..m : /\ table[i].plug > lastUsed /\ table[i].plug < serial
                        /\ table[i].up <= n
                        /\ table[i].plug \in Nat /\ table[i].up \in Nat
    <3> SUFFICES ASSUME NEW i \in 1..m
                 PROVE  /\ table[i].plug > lastUsed /\ table[i].plug < serial
                        /\ table[i].up <= n
                        /\ table[i].plug \in Nat /\ table[i].up \in Nat
      OBVIOUS
    <3>1. table[i] \in Pairs
      BY <2>3
    <3>2. table[i].plug \in 0..MaxSerial /\ table[i].up \in 0..MaxConfigures
      BY <3>1 DEF Pairs
    <3>3. table[i].plug > lastUsed /\ table[i].plug < serial
      BY DEF SerialsOrdered, m
    <3>4. table[i].up <= n
      BY DEF TableOK, m, n
    <3> QED
      BY <1>3, <3>2, <3>3, <3>4
  <2>6. SerialsOrdered'
    <3>1. ASSUME NEW i \in 1..m + 1
          PROVE  /\ table'[i].plug > lastUsed /\ table'[i].plug < serial + 1
                 /\ ~table'[i].local => table'[i].up > lastAck /\ table'[i].up >= pendingAck
                 /\ \A j \in 1..(i - 1) : /\ table'[j].plug < table'[i].plug
                                          /\ table'[j].up < table'[i].up
      <4>1. CASE i = m + 1
        <5>1. table'[i] = p /\ \A j \in 1..(i - 1) : j \in 1..m /\ table'[j] = table[j]
          BY <2>3, <4>1
        <5>2. p.plug > lastUsed /\ p.plug < serial + 1 /\ lastUsed \in Nat
          BY <1>3, <2>1, <2>2 DEF CountersOK
        <5>3. p.up > lastAck /\ p.up >= pendingAck
          BY <1>2, <1>3, <2>2
        <5>4. \A j \in 1..m : table[j].plug < p.plug /\ table[j].up < p.up
          BY <1>2, <2>2, <2>5
        <5> QED
          BY <5>1, <5>2, <5>3, <5>4
      <4>2. CASE i # m + 1
        <5>1. i \in 1..m /\ \A j \in 1..(i - 1) : j \in 1..m
          BY <2>3, <4>2
        <5> QED
          BY <2>1, <2>3, <2>5, <5>1 DEF SerialsOrdered, m
      <4> QED
        BY <4>1, <4>2
    <3>2. lastAck < n + 1
      BY <1>2, <1>3
    <3> QED
      BY <1>1, <1>2, <1>5, <1>6, <2>1, <2>3, <3>1, <3>2 DEF SerialsOrdered
  <2>7. TableOK'
    <3> SUFFICES ASSUME NEW i \in 1..m + 1
                 PROVE  /\ table'[i].up <= n + 1
                        /\ table'[i].local => /\ i = 1 /\ ackedSize = None /\ pendingAck = 0 /\ lastAck # 0
                                               /\ configs'[lastAck] = table'[i].size
                        /\ ~table'[i].local /\ Orderly => configs'[table'[i].up] = table'[i].size
                        /\ ~table'[i].local /\ ackedSize # None => table'[i].up > pendingAck
      BY <1>1, <1>2, <1>5, <1>6, <2>3 DEF TableOK, Orderly
    <3>1. CASE i = m + 1
      BY <1>2, <1>3, <2>2, <2>3, <3>1
    <3>2. CASE i # m + 1
      <4>1. i \in 1..m /\ table'[i] = table[i]
        BY <2>3, <3>2
      <4>2. ~table[i].local => table[i].up \in 1..n
        BY <1>3, <2>5, <4>1 DEF SerialsOrdered, m
      <4> QED
        BY <1>2, <1>3, <2>5, <4>1, <4>2 DEF TableOK, m
    <3> QED
      BY <3>1, <3>2
  <2>8. RoleOK'
    <3>1. table'[Len(table')] = p
      BY <2>3
    <3>2. Size' = z
      BY <1>2 DEF Size
    <3>3. lastUsed < serial + 1
      BY <1>3, <2>1 DEF CountersOK
    <3>4. usedFirst
      BY <1>13 DEF RoleOK
    <3>5. role' = "configured" /\ usedFirst' = usedFirst /\ display' = display /\ lastUsed' = lastUsed
      BY <1>1, <1>6, <1>13
    <3> QED
      BY <1>1, <1>2, <2>1, <2>2, <2>3, <3>1, <3>2, <3>3, <3>4, <3>5 DEF RoleOK
  <2> QED
    BY <1>7, <1>8, <1>9, <1>10, <1>11, <2>4, <2>6, <2>7, <2>8
<1> QED
  BY <1>12, <1>13

\* A configure that swaylock answers itself, because no program will.
LEMMA ConfigureFallbackKeeps ==
  ASSUME LockSurfaceAssumption, SurfaceIInv, UNCHANGED conduct, NEW z \in Sizes,
         HandleConfigure(z), ~display
  PROVE  SurfaceIInv'
<1> DEFINE n == Len(configs)
<1> USE DEF SurfaceIInv, Newest
<1>1. /\ n < MaxConfigures
      /\ UNCHANGED <<viewVars, conduct, display, usedFirst, pendingAck, pluginVars>>
      /\ configs' = Append(configs, z) /\ hasNewer' = FALSE /\ hasBuffer' = TRUE
      /\ dirty' = ~Renders(TRUE) /\ overlay' = (overlay \/ Renders(TRUE))
      /\ Upstream(n + 1, z, configs')
  BY DEF HandleConfigure, RenderNow
<1>2. /\ configs' \in Seq(Sizes) /\ Len(configs') = n + 1 /\ n \in Nat /\ configs' # << >>
      /\ configs'[n + 1] = z
  BY <1>1, Appended DEF CountersOK
<1>3. /\ lastAck \in 0..n /\ pendingAck \in 0..n /\ n + 1 <= MaxConfigures /\ MaxConfigures \in Nat
  BY <1>1, <1>2 DEF CountersOK, LockSurfaceAssumption
<1>4. role = "none" /\ table = << >> /\ ackedSize = None /\ Len(table) = 0
  BY EmptySeq DEF RoleOK, CountersOK, SwitchesOK
<1> HIDE DEF n
<1>5. /\ lastAck' = n + 1 /\ attached' = None /\ content' = z /\ z # None /\ wrong' \in Errors
      /\ SurfaceSize(z, upDest', upSource') = z => wrong' = None
  <2>1. /\ lastAck' = AckedBy(n + 1) /\ attached' = None /\ content' = z /\ z # None
        /\ wrong' \in Errors
        /\ n + 1 = 0 \/ n + 1 \in (lastAck + 1)..Len(configs') =>
           (lastAck' # 0 /\ SurfaceSize(z, upDest', upSource') = configs'[lastAck'] => wrong' = None)
    <3>1. n + 1 \in Nat
      BY <1>2
    <3>2. Upstream(n + 1, z, configs')
      BY <1>1
    <3> QED
      BY <3>1, <3>2, Committed
  <2>2. n + 1 # 0 /\ n + 1 \in (lastAck + 1)..Len(configs')
    BY <1>2, <1>3
  <2>3. lastAck' = n + 1
    BY <2>1, <2>2 DEF AckedBy
  <2> QED
    BY <1>2, <2>1, <2>2, <2>3
<1>6. SwitchesOK'
  <2>1. dirty' \in BOOLEAN /\ overlay' \in BOOLEAN /\ wrong' \in Errors
    BY <1>1, <1>5
  <2>2. UNCHANGED <<conduct, display, usedFirst, role>> /\ hasNewer' = FALSE /\ hasBuffer' = TRUE
    BY <1>1 DEF pluginVars
  <2> QED
    BY <2>1, <2>2, Zenon DEF SwitchesOK
<1>7. CountersOK'
  BY <1>1, <1>2, <1>3, <1>5 DEF CountersOK, pluginVars
<1>8. SizesOK'
  BY <1>1, <1>5 DEF SizesOK, viewVars, pluginVars
<1>9. SerialsOrdered' /\ TableOK' /\ RoleOK' /\ FirstOK' /\ AckedOK'
  BY <1>1, <1>2, <1>4, <1>5 DEF SerialsOrdered, TableOK, RoleOK, FirstOK, AckedOK, pluginVars
<1>10. DrawnOK'
  <2>1. Judged' => /\ conduct = "buffers" /\ source = None /\ dest = None
                   /\ upDest' = None /\ upSource' = None
    BY <1>1 DEF Judged, DrawnOK, viewVars
  <2>2. Judged' => SurfaceSize(z, upDest', upSource') = z
    BY <2>1 DEF SurfaceSize
  <2>3. lastAck' # 0 /\ configs'[lastAck'] = z
    BY <1>2, <1>5
  <2>4. dest' = dest /\ source' = source /\ hasBuffer' = TRUE
    BY <1>1 DEF pluginVars
  <2> QED
    BY <1>2, <1>5, <2>1, <2>2, <2>3, <2>4 DEF DrawnOK
<1> QED
  BY <1>6, <1>7, <1>8, <1>9, <1>10

-----------------------------------------------------------------------------
(* The end of a program *)

\* Without the program's objects the surface stands for nothing open.
LEMMA ReplacedKeeps ==
  ASSUME LockSurfaceAssumption, SurfaceIInv, ClientReplaced, UNCHANGED <<conduct, configs, pendingAck>>,
         lastAck' \in 0..Len(configs), hasNewer' <=> lastAck' < Newest,
         display' /\ pendingAck # 0 => pendingAck > lastAck'
  PROVE  CountersOK' /\ SerialsOrdered' /\ TableOK' /\ RoleOK' /\ AckedOK'
<1> USE DEF SurfaceIInv, ClientReplaced, Newest
<1>1. /\ table' = << >> /\ Len(table') = 0 /\ table' \in Seq(Pairs)
      /\ role' = "none" /\ ackedSize' = None
  BY EmptySeq
<1>2. 0 \in 0..MaxSerial
  BY DEF LockSurfaceAssumption
<1> QED
  BY <1>1, <1>2 DEF CountersOK, SerialsOrdered, TableOK, RoleOK, AckedOK

LEMMA ClientDiesKeeps ==
  ASSUME LockSurfaceAssumption, SurfaceIInv, ClientDies, UNCHANGED conduct
  PROVE  SurfaceIInv'
<1> USE DEF SurfaceIInv
<1>1. /\ ClientReplaced
      /\ UNCHANGED <<conduct, compVars, viewVars, ackVars, drawVars>>
  BY DEF ClientDies
<1>2. CountersOK' /\ SerialsOrdered' /\ TableOK' /\ RoleOK' /\ AckedOK'
  <2>1. /\ UNCHANGED <<conduct, configs, pendingAck, lastAck, display, hasNewer>>
        /\ lastAck \in 0..Len(configs) /\ (hasNewer <=> lastAck < Newest)
        /\ display /\ pendingAck # 0 => pendingAck > lastAck
    BY <1>1 DEF compVars, ackVars, CountersOK, SerialsOrdered
  <2> QED
    BY <1>1, <2>1, ReplacedKeeps
<1>3. SwitchesOK'
  BY <1>1, Zenon DEF SwitchesOK, compVars, ackVars, drawVars, ClientReplaced
<1>4. SizesOK' /\ FirstOK'
  BY <1>1 DEF SizesOK, FirstOK, compVars, viewVars, ackVars, drawVars, ClientReplaced, Orderly, Size,
              Newest
<1>5. DrawnOK'
  BY <1>1 DEF DrawnOK, compVars, viewVars, ackVars, drawVars, ClientReplaced, Judged, SurfaceSize
<1> QED
  BY <1>2, <1>3, <1>4, <1>5

\* The fall back: what was never drawn is acknowledged and drawn.
LEMMA ClientlessKeeps ==
  ASSUME LockSurfaceAssumption, SurfaceIInv, Clientless, UNCHANGED conduct
  PROVE  SurfaceIInv'
<1> USE DEF SurfaceIInv, Newest
<1>1. /\ wrong = None /\ display /\ display' = FALSE /\ ClientReplaced
      /\ UNCHANGED <<conduct, viewVars, usedFirst, pendingAck>>
  BY DEF Clientless
<1>2. /\ lastAck \in 0..Len(configs) /\ Len(configs) \in Nat /\ (hasNewer <=> lastAck < Len(configs))
      /\ configs # << >> => Len(configs) # 0 /\ Size \in Sizes
  <2>1. Len(configs) \in Nat /\ (configs # << >> => Len(configs) # 0)
    BY LenProperties, EmptySeq DEF CountersOK
  <2>2. configs # << >> => Size \in Sizes
    BY <2>1, ElementOfSeq DEF CountersOK, Size
  <2> QED
    BY <2>1, <2>2 DEF CountersOK, SerialsOrdered
<1>3. Judged' => /\ Judged /\ conduct = "buffers" /\ upDest' = None /\ upSource' = None
                 /\ attached = None
  BY <1>1 DEF Judged, DrawnOK, viewVars
<1>4. /\ configs' = configs /\ lastAck' \in 0..Len(configs) /\ (hasNewer' <=> lastAck' < Newest)
      /\ hasNewer' \in BOOLEAN
      /\ dirty' \in BOOLEAN /\ overlay' \in BOOLEAN /\ hasBuffer' \in BOOLEAN /\ wrong' \in Errors
      /\ attached' \in {attached, None} /\ content' \in Sizes \cup {None}
      /\ hasBuffer' <=> configs # << >>
      /\ overlay' => hasBuffer'
      /\ ~hasBuffer' => lastAck' = 0
      /\ Judged' => /\ wrong' = None
                    /\ hasBuffer' => /\ lastAck' # 0 /\ content' # None
                                     /\ SurfaceSize(content', upDest', upSource') = configs[lastAck']
  <2>1. CASE configs = << >>
    <3>1. UNCHANGED <<compVars, hasNewer, drawVars>>
      BY <2>1 DEF Clientless
    <3>2. ~hasBuffer /\ ~overlay /\ lastAck = 0
      BY <2>1 DEF DrawnOK
    <3> QED
      BY <1>1, <1>2, <2>1, <3>1, <3>2 DEF compVars, drawVars, SwitchesOK, SizesOK, Errors
  <2>2. CASE configs # << >> /\ hasBuffer
    <3>1. /\ hasBuffer' = TRUE /\ hasNewer' = hasNewer /\ configs' = configs
          /\ dirty' = ~Renders(TRUE) /\ overlay' = (overlay \/ Renders(TRUE))
          /\ IF Renders(TRUE) THEN Upstream(0, attached, configs)
             ELSE UNCHANGED <<lastAck, attached, content, wrong>>
      BY <2>2, Zenon DEF Clientless, RenderNow, SwitchesOK
    <3>2. /\ lastAck' = lastAck /\ attached' \in {attached, None} /\ content' \in Sizes \cup {None}
          /\ wrong' \in Errors
          /\ Judged => wrong' = None /\ content' = content
      <4>1. CASE Renders(TRUE)
        BY <1>1, <2>2, <3>1, <4>1, Rendered DEF DrawnOK
      <4>2. CASE ~Renders(TRUE)
        BY <1>1, <2>2, <3>1, <4>2 DEF DrawnOK, SizesOK, SwitchesOK
      <4> QED
        BY <4>1, <4>2
    <3>3. Judged' => /\ lastAck # 0 /\ content # None
                     /\ SurfaceSize(content, upDest, upSource) = configs[lastAck]
      BY <1>3, <2>2 DEF DrawnOK
    <3>4. upDest' = upDest /\ upSource' = upSource
      BY <1>1 DEF viewVars
    <3>5. dirty' \in BOOLEAN /\ overlay' \in BOOLEAN /\ hasBuffer' \in BOOLEAN /\ hasNewer' \in BOOLEAN
      BY <3>1, Zenon DEF SwitchesOK
    <3> QED
      BY <1>2, <1>3, <2>2, <3>1, <3>2, <3>3, <3>4, <3>5
  <2>3. CASE configs # << >> /\ ~hasBuffer
    <3>1. lastAck = 0 /\ hasNewer
      BY <1>2, <2>3 DEF DrawnOK
    <3>2. /\ hasBuffer' = TRUE /\ hasNewer' = FALSE /\ configs' = configs
          /\ dirty' = ~Renders(TRUE) /\ overlay' = (overlay \/ Renders(TRUE))
          /\ Upstream(Newest, Size, configs)
      BY <2>3, <3>1 DEF Clientless, RenderNow
    <3>3. /\ lastAck' = AckedBy(Newest) /\ attached' = None /\ content' = Size /\ Size # None
          /\ wrong' \in Errors
          /\ Newest = 0 \/ Newest \in (lastAck + 1)..Len(configs) =>
             (lastAck' # 0 /\ SurfaceSize(Size, upDest', upSource') = configs[lastAck'] => wrong' = None)
      BY <1>2, <2>3, <3>2, Committed
    <3>4. /\ lastAck' = Newest /\ Newest # 0 /\ Newest \in (lastAck + 1)..Len(configs)
          /\ configs[lastAck'] = Size
      BY <1>2, <2>3, <3>1, <3>3 DEF AckedBy, Size
    <3>5. Judged' => SurfaceSize(Size, upDest', upSource') = Size
      BY <1>3 DEF SurfaceSize
    <3>6. /\ dirty' \in BOOLEAN /\ overlay' \in BOOLEAN /\ hasNewer' \in BOOLEAN
          /\ hasBuffer' \in BOOLEAN
      BY <3>2
    <3>7. lastAck' \in 0..Len(configs) /\ (hasNewer' <=> lastAck' < Newest)
      BY <1>2, <3>2, <3>4
    <3>8. Judged' => wrong' = None /\ SurfaceSize(content', upDest', upSource') = configs[lastAck']
      BY <3>3, <3>4, <3>5
    <3>9. content' \in Sizes \cup {None} /\ content' # None /\ attached' \in {attached, None}
      BY <1>2, <2>3, <3>3
    <3> QED
      BY <2>3, <3>2, <3>3, <3>4, <3>6, <3>7, <3>8, <3>9
  <2> QED
    BY <2>1, <2>2, <2>3
<1>5. CountersOK' /\ SerialsOrdered' /\ TableOK' /\ RoleOK' /\ AckedOK'
  BY <1>1, <1>4, ReplacedKeeps
<1>6. SwitchesOK'
  BY <1>1, <1>4, Zenon DEF SwitchesOK, ClientReplaced
<1>7. SizesOK' /\ FirstOK'
  BY <1>1, <1>4 DEF SizesOK, FirstOK, viewVars, ClientReplaced
<1>8. DrawnOK'
  BY <1>1, <1>3, <1>4 DEF DrawnOK, ClientReplaced
<1> QED
  BY <1>5, <1>6, <1>7, <1>8

-----------------------------------------------------------------------------
(* The program's requests *)

LEMMA GetLayerSurfaceKeeps ==
  ASSUME LockSurfaceAssumption, SurfaceIInv, GetLayerSurface, UNCHANGED conduct
  PROVE  SurfaceIInv'
<1> USE DEF SurfaceIInv
<1>1. /\ display /\ configs # << >> /\ role = "none" /\ serial < MaxSerial
      /\ role' = "layer" /\ lastUsed' = serial /\ serial' = serial + 1
      /\ UNCHANGED <<conduct, compVars, viewVars, ackVars, drawVars, table, ackedSize, dest, source>>
  BY DEF GetLayerSurface, PluginRuns
<1>2. table = << >> /\ Len(table) = 0 /\ ackedSize = None
  BY <1>1, EmptySeq DEF RoleOK
<1>3. SwitchesOK'
  BY <1>1, Zenon DEF SwitchesOK, compVars, ackVars, drawVars
<1>4. CountersOK'
  BY <1>1 DEF CountersOK, compVars, ackVars, LockSurfaceAssumption
<1>5. SizesOK'
  BY <1>1 DEF SizesOK, compVars, viewVars
<1>6. SerialsOrdered' /\ TableOK' /\ AckedOK'
  BY <1>1, <1>2 DEF SerialsOrdered, TableOK, AckedOK, Newest, compVars, ackVars
<1>7. RoleOK'
  BY <1>1, <1>2 DEF RoleOK, CountersOK, compVars, ackVars
<1>8. FirstOK' /\ DrawnOK'
  BY <1>1 DEF FirstOK, DrawnOK, Orderly, Judged, Size, Newest, SurfaceSize,
              compVars, viewVars, ackVars, drawVars
<1> QED
  BY <1>3, <1>4, <1>5, <1>6, <1>7, <1>8

\* The first configure of a program stands for the one the compositor waits
\* for, or for none.
LEMMA FirstPairProperties ==
  ASSUME LockSurfaceAssumption, SurfaceIInv, display, configs # << >>, ackedSize = None,
         serial \in 0..MaxSerial
  PROVE  /\ FirstPair \in Pairs /\ FirstPair.plug = serial /\ FirstPair.size = Size
         /\ FirstPair.up <= Len(configs)
         /\ FirstPair.local => /\ pendingAck = 0 /\ lastAck # 0 /\ configs[lastAck] = Size
         /\ ~FirstPair.local => /\ FirstPair.up > lastAck /\ FirstPair.up >= pendingAck
                                /\ Orderly => configs[FirstPair.up] = Size
<1> USE DEF SurfaceIInv, Newest
<1>1. /\ Len(configs) \in Nat /\ Len(configs) # 0 /\ Len(configs) <= MaxConfigures
      /\ MaxConfigures \in Nat /\ lastAck \in 0..Len(configs) /\ pendingAck \in 0..Len(configs)
      /\ pendingAck # 0 => pendingAck > lastAck
      /\ hasNewer <=> lastAck < Len(configs)
  BY EmptySeq, LenProperties DEF CountersOK, LockSurfaceAssumption, SerialsOrdered
<1>2. Size \in Sizes
  BY <1>1, ElementOfSeq DEF CountersOK, Size
<1>3. ASSUME NEW u \in 0..MaxConfigures, NEW q, NEW l \in BOOLEAN, q = Pair(u, Size, l)
      PROVE  /\ q \in Pairs /\ q.plug = serial /\ q.size = Size /\ q.up = u
             /\ q.local <=> l
  BY <1>2, <1>3 DEF Pair, Pairs
<1>4. CASE ~usedFirst
  <2>1. lastAck = 0 /\ pendingAck = 0
    BY <1>4 DEF FirstOK, DrawnOK
  <2>2. FirstPair = Pair(1, Size, FALSE) /\ 1 \in 0..MaxConfigures /\ 1 \in 1..Len(configs)
    BY <1>1, <1>4 DEF FirstPair
  <2>3. Orderly => configs[1] = Size
    BY <1>4, <2>2 DEF FirstOK
  <2>4. /\ FirstPair \in Pairs /\ FirstPair.plug = serial /\ FirstPair.size = Size
        /\ FirstPair.up = 1 /\ ~FirstPair.local
    BY <1>3, <2>2
  <2> QED
    <3>1. 1 <= Len(configs) /\ 1 > lastAck /\ 1 >= pendingAck
      BY <2>1, <2>2
    <3>2. /\ FirstPair.up <= Len(configs) /\ FirstPair.up > lastAck /\ FirstPair.up >= pendingAck
          /\ Orderly => configs[FirstPair.up] = Size
      BY <2>3, <2>4, <3>1
    <3> QED
      BY <2>4, <3>2
<1>5. CASE usedFirst /\ hasNewer
  <2>1. FirstPair = Pair(Newest, Size, FALSE) /\ Newest \in 0..MaxConfigures
    BY <1>1, <1>5 DEF FirstPair
  <2>2. configs[Newest] = Size
    BY DEF Size
  <2>4. /\ FirstPair \in Pairs /\ FirstPair.plug = serial /\ FirstPair.size = Size
        /\ FirstPair.up = Newest /\ ~FirstPair.local
    BY <1>3, <2>1
  <2> QED
    BY <1>1, <1>5, <2>2, <2>4
<1>6. CASE usedFirst /\ ~hasNewer
  <2>1. FirstPair = Pair(0, Size, TRUE) /\ 0 \in 0..MaxConfigures
    BY <1>1, <1>6 DEF FirstPair
  <2>2. lastAck = Newest /\ pendingAck = 0
    BY <1>1, <1>6
  <2>3. configs[lastAck] = Size
    BY <2>2 DEF Size
  <2>4. /\ FirstPair \in Pairs /\ FirstPair.plug = serial /\ FirstPair.size = Size
        /\ FirstPair.up = 0 /\ FirstPair.local
    BY <1>3, <2>1
  <2> QED
    BY <1>1, <2>2, <2>3, <2>4
<1> QED
  BY <1>4, <1>5, <1>6 DEF SwitchesOK

LEMMA FirstCommitKeeps ==
  ASSUME LockSurfaceAssumption, SurfaceIInv, FirstCommit, UNCHANGED conduct
  PROVE  SurfaceIInv'
<1> DEFINE p == FirstPair
<1> USE DEF SurfaceIInv, Newest
<1>1. /\ display /\ configs # << >> /\ role = "layer" /\ serial < MaxSerial
      /\ role' = "configured" /\ table' = Append(table, p) /\ serial' = serial + 1 /\ usedFirst' = TRUE
      /\ UNCHANGED <<conduct, compVars, viewVars, display, hasNewer, pendingAck, drawVars, lastUsed,
                     ackedSize, dest, source>>
  BY DEF FirstCommit, PluginRuns
<1>2. table = << >> /\ Len(table) = 0 /\ ackedSize = None /\ lastUsed < serial
  BY <1>1, EmptySeq DEF RoleOK
<1>3. serial \in 0..MaxSerial /\ lastUsed \in 0..MaxSerial /\ table \in Seq(Pairs)
  BY DEF CountersOK
<1>4. /\ p \in Pairs /\ p.plug = serial /\ p.size = Size /\ p.up <= Len(configs)
      /\ p.local => /\ pendingAck = 0 /\ lastAck # 0 /\ configs[lastAck] = Size
      /\ ~p.local => /\ p.up > lastAck /\ p.up >= pendingAck
                     /\ Orderly => configs[p.up] = Size
  BY <1>1, <1>2, <1>3, FirstPairProperties
<1> HIDE DEF p
<1>5. table' \in Seq(Pairs) /\ Len(table') = 1 /\ table' # << >> /\ table'[1] = p
  BY <1>1, <1>2, <1>3, <1>4, Appended
<1>6. SwitchesOK'
  BY <1>1, Zenon DEF SwitchesOK, compVars, drawVars
<1>7. CountersOK'
  BY <1>1, <1>5 DEF CountersOK, compVars
<1>8. SizesOK'
  BY <1>1 DEF SizesOK, compVars, viewVars
<1>9. UNCHANGED <<configs, lastAck, pendingAck, hasNewer, display, lastUsed, ackedSize, conduct>>
  BY <1>1 DEF compVars
<1>10. SerialsOrdered'
  <2>1. p.plug > lastUsed /\ p.plug < serial + 1
    BY <1>2, <1>3, <1>4
  <2>2. ASSUME NEW i \in 1..Len(table'), NEW j \in 1..(i - 1) PROVE FALSE
    BY <1>5, <2>2
  <2>3. \A i \in 1..Len(table') : i = 1
    BY <1>5
  <2> QED
    BY <1>1, <1>4, <1>5, <1>9, <2>1, <2>2, <2>3 DEF SerialsOrdered
<1>11. TableOK'
  BY <1>2, <1>4, <1>5, <1>9 DEF TableOK, Orderly
<1>12. RoleOK' /\ FirstOK' /\ AckedOK'
  <2>1. Size' = Size /\ lastUsed < serial + 1
    BY <1>2, <1>3, <1>9 DEF Size
  <2> QED
    BY <1>1, <1>2, <1>4, <1>5, <1>9, <2>1 DEF RoleOK, FirstOK, AckedOK
<1>13. DrawnOK'
  BY <1>1 DEF DrawnOK, Judged, SurfaceSize, compVars, viewVars, drawVars
<1> QED
  BY <1>6, <1>7, <1>8, <1>10, <1>11, <1>12, <1>13

\* An acknowledgement closes a configure and the older ones.
LEMMA AckConfigureKeeps ==
  ASSUME LockSurfaceAssumption, SurfaceIInv, UNCHANGED conduct, NEW a \in 1..MaxSerial, AckConfigure(a)
  PROVE  SurfaceIInv'
<1> DEFINE e == table[a]
           m == Len(table)
           n == Len(configs)
<1> USE DEF SurfaceIInv, Newest
<1>1. /\ display /\ configs # << >> /\ role = "configured" /\ a \in 1..m
      /\ lastUsed' = e.plug /\ ackedSize' = e.size /\ table' = SubSeq(table, a + 1, m)
      /\ pendingAck' = IF e.local THEN pendingAck ELSE e.up
      /\ UNCHANGED <<conduct, compVars, viewVars, display, hasNewer, usedFirst, drawVars, role, serial,
                     dest, source>>
  BY DEF AckConfigure, PluginRuns
<1>2. UNCHANGED <<configs, lastAck, display, hasNewer, usedFirst, hasBuffer, role, serial, conduct>>
  BY <1>1 DEF compVars, drawVars
<1>3. /\ table' \in Seq(Pairs) /\ Len(table') = m - a /\ m \in Nat
      /\ \A k \in 1..Len(table') : table'[k] = table[a + k] /\ a + k \in 1..m /\ a + k # 1
      /\ table' = << >> <=> a = m
  <2>1. table \in Seq(Pairs) /\ a \in 1..Len(table) /\ table' = SubSeq(table, a + 1, Len(table))
    BY <1>1 DEF CountersOK
  <2>2. /\ table' \in Seq(Pairs) /\ Len(table') = Len(table) - a /\ Len(table) \in Nat
        /\ \A k \in 1..Len(table') :
             table'[k] = table[a + k] /\ a + k \in 1..Len(table) /\ a + k # 1
    BY <2>1, Dropped
  <2>3. table' = << >> <=> a = Len(table)
    <3>1. Len(table') = 0 => table' = << >>
      BY <2>2, EmptySeq
    <3>2. table' = << >> => Len(table') = 0
      BY EmptySeq
    <3>3. Len(table') = 0 <=> a = Len(table)
      BY <2>1, <2>2
    <3> QED
      BY <3>1, <3>2, <3>3
  <2> QED
    BY <2>2, <2>3
<1>4. \A i \in 1..m : table[i] \in Pairs
  BY <1>3, ElementOfSeq DEF CountersOK
<1>5. /\ e.up \in 0..MaxConfigures /\ e.plug \in 0..MaxSerial /\ e.size \in Sizes /\ e.size # None
      /\ e.up <= n /\ n \in Nat /\ lastAck \in 0..n /\ pendingAck \in 0..n
      /\ MaxConfigures \in Nat /\ MaxSerial \in Nat /\ serial \in 0..MaxSerial
  <2>1. e \in Pairs
    BY <1>1, <1>4
  <2>2. e.up <= n /\ n \in Nat
    BY <1>1, LenProperties DEF TableOK, CountersOK
  <2> QED
    BY <2>1, <2>2 DEF Pairs, LockSurfaceAssumption, CountersOK
<1>6. /\ e.plug < serial
      /\ e.local => a = 1 /\ pendingAck = 0 /\ lastAck # 0 /\ configs[lastAck] = e.size
      /\ ~e.local => e.up > lastAck /\ (Orderly => configs[e.up] = e.size)
  BY <1>1 DEF SerialsOrdered, TableOK
<1>7. ASSUME NEW k \in 1..m, k > a
      PROVE  /\ table[k].plug > e.plug /\ table[k].plug < serial /\ table[k].up > e.up
             /\ ~table[k].local /\ table[k].up > lastAck /\ table[k].up <= n
             /\ Orderly => configs[table[k].up] = table[k].size
  <2>1. k # 1 /\ a \in 1..(k - 1)
    BY <1>1, <1>3, <1>7
  <2>2. ~table[k].local
    BY <2>1 DEF TableOK
  <2>3. /\ table[k].plug > e.plug /\ table[k].up > e.up
        /\ table[k].plug < serial /\ table[k].up > lastAck
    <3>1. table[k].plug < serial /\ table[k].up > lastAck
      BY <2>2 DEF SerialsOrdered
    <3>2. table[a].plug < table[k].plug /\ table[a].up < table[k].up
      BY <2>1 DEF SerialsOrdered
    <3>3. /\ table[k].plug \in 0..MaxSerial /\ table[k].up \in 0..MaxConfigures
      BY <1>4 DEF Pairs
    <3> QED
      BY <1>5, <3>1, <3>2, <3>3
  <2> QED
    BY <2>2, <2>3 DEF TableOK
<1>8. ASSUME NEW k \in 1..m, NEW j \in 1..(k - 1)
      PROVE  table[j].plug < table[k].plug /\ table[j].up < table[k].up
  BY <1>8 DEF SerialsOrdered
<1> HIDE DEF e, m, n
<1>9. /\ pendingAck' \in 0..n /\ (pendingAck' # 0 => pendingAck' > lastAck)
      /\ \A k \in 1..m : k > a => table[k].up > pendingAck'
  <2>1. CASE e.local
    <3>1. pendingAck' = 0
      BY <1>1, <1>6, <2>1
    <3>2. \A k \in 1..m : k > a => table[k].up > 0
      <4> SUFFICES ASSUME NEW k \in 1..m, k > a PROVE table[k].up > 0
        OBVIOUS
      <4>1. table[k].up > lastAck /\ table[k].up \in 0..MaxConfigures
        BY <1>4, <1>7 DEF Pairs
      <4> QED
        BY <1>5, <4>1
    <3> QED
      BY <1>5, <3>1, <3>2
  <2>2. CASE ~e.local
    <3>1. pendingAck' = e.up /\ e.up \in 0..n /\ e.up > lastAck
      BY <1>1, <1>5, <1>6, <2>2
    <3>2. \A k \in 1..m : k > a => table[k].up > e.up
      BY <1>7
    <3> QED
      BY <3>1, <3>2
  <2> QED
    BY <2>1, <2>2
<1>10. ASSUME NEW k \in 1..Len(table')
       PROVE  /\ table'[k] = table[a + k] /\ a + k \in 1..m /\ a + k > a
              /\ \A j \in 1..(k - 1) : /\ j \in 1..Len(table') /\ table'[j] = table[a + j]
                                       /\ a + j \in 1..((a + k) - 1)
  BY <1>1, <1>3
<1>11. SwitchesOK'
  BY <1>1, Zenon DEF SwitchesOK, compVars, drawVars
<1>12. CountersOK'
  BY <1>1, <1>2, <1>3, <1>5, <1>9 DEF CountersOK, n
<1>13. SizesOK'
  BY <1>1, <1>5 DEF SizesOK, compVars, viewVars
<1>14. SerialsOrdered'
  <2>1. ASSUME NEW k \in 1..Len(table')
        PROVE  /\ table'[k].plug > lastUsed' /\ table'[k].plug < serial
               /\ table'[k].up > lastAck /\ table'[k].up >= pendingAck'
               /\ \A j \in 1..(k - 1) : /\ table'[j].plug < table'[k].plug
                                        /\ table'[j].up < table'[k].up
    <3>1. /\ table'[k] = table[a + k] /\ a + k \in 1..m /\ a + k > a
          /\ \A j \in 1..(k - 1) : table'[j] = table[a + j] /\ a + j \in 1..((a + k) - 1)
      BY <1>10
    <3>2. \A j \in 1..(k - 1) : table'[j].plug < table'[k].plug /\ table'[j].up < table'[k].up
      BY <1>8, <3>1
    <3>3. /\ table[a + k].plug > e.plug /\ table[a + k].plug < serial
          /\ table[a + k].up > lastAck /\ table[a + k].up > pendingAck'
      BY <1>7, <1>9, <3>1
    <3>4. table[a + k].up \in 0..MaxConfigures
      BY <1>4, <3>1 DEF Pairs
    <3>5. table[a + k].up >= pendingAck'
      BY <1>5, <1>9, <3>3, <3>4
    <3> QED
      BY <1>1, <3>1, <3>2, <3>3, <3>5
  <2>2. hasNewer <=> lastAck < Newest
    BY DEF SerialsOrdered
  <2> QED
    BY <1>2, <1>9, <2>1, <2>2 DEF SerialsOrdered
<1>15. TableOK'
  <2> SUFFICES ASSUME NEW k \in 1..Len(table')
               PROVE  /\ table'[k].up <= n /\ ~table'[k].local /\ table'[k].up > pendingAck'
                      /\ Orderly => configs[table'[k].up] = table'[k].size
    BY <1>2 DEF TableOK, n, Orderly
  <2>1. table'[k] = table[a + k] /\ a + k \in 1..m /\ a + k > a
    BY <1>10
  <2> QED
    BY <1>7, <1>9, <2>1
<1>16. RoleOK'
  <2>1. usedFirst /\ (table # << >> => table[m].size = Size)
    BY <1>1 DEF RoleOK, m
  <2>2. table # << >>
    BY <1>1, <1>3, EmptySeq DEF m
  <2>3. Size' = Size
    BY <1>2 DEF Size
  <2>4. IF table' = << >> THEN ackedSize' = Size ELSE table'[Len(table')].size = Size
    <3>1. CASE a = m
      BY <1>1, <1>3, <2>1, <2>2, <3>1 DEF e, RoleOK
    <3>2. CASE a # m
      <4>1. Len(table') \in 1..Len(table') /\ a + Len(table') = m
        BY <1>1, <1>3, <3>2
      <4> QED
        BY <1>1, <1>3, <2>1, <2>2, <3>2, <4>1 DEF RoleOK
    <3> QED
      BY <3>1, <3>2
  <2>5. lastUsed' < serial
    BY <1>1, <1>6
  <2> QED
    <3>1. role' = "configured" /\ display' /\ usedFirst' /\ configs' # << >> /\ serial' = serial
      BY <1>1, <1>2, <2>1
    <3> QED
      BY <2>3, <2>4, <2>5, <3>1 DEF RoleOK
<1>17. FirstOK'
  BY <1>1, <1>2 DEF FirstOK, RoleOK
<1>18. AckedOK'
  <2>1. CASE e.local
    BY <1>1, <1>2, <1>6, <2>1 DEF AckedOK, Orderly
  <2>2. CASE ~e.local
    <3>1. pendingAck' = e.up /\ e.up # 0
      BY <1>1, <1>5, <1>6, <2>2
    <3> QED
      BY <1>1, <1>2, <1>6, <2>2, <3>1 DEF AckedOK, Orderly
  <2> QED
    BY <2>1, <2>2
<1>19. DrawnOK'
  BY <1>1 DEF DrawnOK, Judged, SurfaceSize, compVars, viewVars, drawVars
<1> QED
  BY <1>11, <1>12, <1>13, <1>14, <1>15, <1>16, <1>17, <1>18, <1>19

\* The viewport upstream after a commit in an orderly run: the program's own, or
\* what its predecessor left, which is not set.
LEMMA OrderlyCommit ==
  ASSUME LockSurfaceAssumption, SurfaceIInv, NEW z \in Sizes, NEW d \in Sizes \cup {None},
         NEW r \in Sizes \cup {None}, display, ApplyViewport(d, r),
         conduct = "buffers" => z = ackedSize /\ d = None /\ r = None,
         conduct = "viewport" => d = ackedSize /\ d # None /\ r = None
  PROVE  /\ Orderly => SurfaceSize(z, d, r) = ackedSize
         /\ Judged => /\ r = None /\ upSource' = None /\ (d # None => upDest' = d)
                      /\ conduct = "buffers" => d = None /\ upDest' = None
                      /\ SurfaceSize(z, upDest', upSource') = ackedSize
<1> USE DEF SurfaceIInv
<1>1. Orderly => conduct = "buffers" \/ conduct = "viewport"
  BY DEF Orderly, SwitchesOK
<1>2. Judged => Orderly
  BY DEF Judged, Orderly
<1>3. Orderly => SurfaceSize(z, d, r) = ackedSize
  BY <1>1 DEF SurfaceSize
<1>4. Judged => /\ source = None /\ upSource = None /\ (dest # None => upDest = dest)
                /\ conduct = "buffers" => dest = None /\ upDest = None
  BY DEF DrawnOK
<1>5. upDest' = (IF d # dest THEN d ELSE upDest) /\ upSource' = (IF r # source THEN source ELSE upSource)
  BY DEF ApplyViewport
<1>6. Judged => /\ r = None /\ upSource' = None /\ (d # None => upDest' = d)
                /\ conduct = "buffers" => d = None /\ upDest' = None
  BY <1>1, <1>2, <1>4, <1>5
<1>7. Judged => SurfaceSize(z, upDest', upSource') = ackedSize
  BY <1>1, <1>2, <1>6 DEF SurfaceSize
<1> QED
  BY <1>3, <1>6, <1>7

\* A commit of a size other than the acknowledged one ends the program.
LEMMA CommitRefusedKeeps ==
  ASSUME LockSurfaceAssumption, SurfaceIInv, UNCHANGED conduct, NEW z \in Sizes,
         NEW d \in Sizes \cup {None}, NEW r \in Sizes \cup {None}, Commit(z, d, r),
         SurfaceSize(z, d, r) # ackedSize
  PROVE  SurfaceIInv'
<1> USE DEF SurfaceIInv
<1>1. /\ display /\ role = "configured" /\ ApplyViewport(d, r)
      /\ conduct = "buffers" => z = ackedSize /\ d = None /\ r = None
      /\ conduct = "viewport" => d = ackedSize /\ d # None /\ r = None
      /\ attached' = "destroyed" /\ ClientReplaced
      /\ UNCHANGED <<conduct, lastAck, content, wrong, pendingAck, hasNewer, hasBuffer,
                     configs, display, usedFirst, dirty, overlay>>
  BY DEF Commit, PluginRuns
<1>2. ~Orderly
  BY <1>1, OrderlyCommit
<1>3. CountersOK' /\ SerialsOrdered' /\ TableOK' /\ RoleOK' /\ AckedOK'
  <2>1. /\ lastAck \in 0..Len(configs) /\ (hasNewer <=> lastAck < Newest)
        /\ display /\ pendingAck # 0 => pendingAck > lastAck
    BY DEF CountersOK, SerialsOrdered
  <2> QED
    BY <1>1, <2>1, ReplacedKeeps
<1>4. SwitchesOK'
  BY <1>1, Zenon DEF SwitchesOK, ClientReplaced
<1>5. SizesOK'
  BY <1>1 DEF SizesOK, ApplyViewport, ClientReplaced
<1>6. FirstOK' /\ DrawnOK'
  BY <1>1, <1>2 DEF FirstOK, DrawnOK, RoleOK, Judged, Orderly
<1> QED
  BY <1>3, <1>4, <1>5, <1>6

\* A commit of the acknowledged size is passed on with the acknowledgement.
LEMMA CommitPassedKeeps ==
  ASSUME LockSurfaceAssumption, SurfaceIInv, UNCHANGED conduct, NEW z \in Sizes,
         NEW d \in Sizes \cup {None}, NEW r \in Sizes \cup {None}, Commit(z, d, r),
         SurfaceSize(z, d, r) = ackedSize
  PROVE  SurfaceIInv'
<1> DEFINE n == Len(configs)
<1> USE DEF SurfaceIInv, Newest
<1>1. /\ display /\ configs # << >> /\ role = "configured" /\ ApplyViewport(d, r)
      /\ conduct = "buffers" => z = ackedSize /\ d = None /\ r = None
      /\ conduct = "viewport" => d = ackedSize /\ d # None /\ r = None
      /\ dest' = d /\ source' = r /\ Upstream(pendingAck, z, configs) /\ pendingAck' = 0
      /\ hasNewer' = (hasNewer /\ pendingAck # Newest) /\ hasBuffer' = TRUE
      /\ UNCHANGED <<conduct, configs, display, usedFirst, dirty, overlay,
                     role, serial, lastUsed, table, ackedSize>>
  BY DEF Commit, PluginRuns
<1>2. ackedSize # None
  BY DEF SurfaceSize, LockSurfaceAssumption
<1>3. /\ n \in Nat /\ n # 0 /\ lastAck \in 0..n /\ pendingAck \in 0..n
      /\ pendingAck # 0 => pendingAck > lastAck
      /\ hasNewer <=> lastAck < n
  BY <1>1, EmptySeq, LenProperties DEF CountersOK, SerialsOrdered
<1> HIDE DEF n
<1>4. /\ lastAck' = AckedBy(pendingAck) /\ attached' = None /\ content' = z /\ z # None
      /\ wrong' \in Errors
      /\ pendingAck = 0 \/ pendingAck \in (lastAck + 1)..n =>
         (lastAck' # 0 /\ SurfaceSize(z, upDest', upSource') = configs[lastAck'] => wrong' = None)
  <2>1. pendingAck \in Nat /\ Upstream(pendingAck, z, configs)
    BY <1>1, <1>3
  <2> QED
    BY <2>1, Committed DEF n
<1>5. pendingAck = 0 \/ pendingAck \in (lastAck + 1)..n
  BY <1>3
<1>6. /\ lastAck' \in 0..n /\ (hasNewer' <=> lastAck' < n) /\ hasNewer' \in BOOLEAN
      /\ pendingAck = 0 => lastAck' = lastAck
      /\ pendingAck # 0 => lastAck' = pendingAck
  <2>1. CASE pendingAck = 0
    BY <1>1, <1>3, <1>4, <2>1 DEF AckedBy, n
  <2>2. CASE pendingAck # 0
    <3>1. lastAck' = pendingAck
      BY <1>4, <2>2 DEF AckedBy
    <3>2. hasNewer /\ (pendingAck # n <=> pendingAck < n)
      BY <1>3, <2>2
    <3>3. hasNewer' <=> pendingAck # n
      BY <1>1, <3>2 DEF n
    <3>4. hasNewer' \in BOOLEAN
      BY <1>1
    <3> QED
      BY <1>3, <2>2, <3>1, <3>2, <3>3, <3>4
  <2> QED
    BY <2>1, <2>2
<1>7. Orderly => lastAck' # 0 /\ configs[lastAck'] = ackedSize
  BY <1>2, <1>6 DEF AckedOK
<1>8. SwitchesOK'
  BY <1>1, <1>4, <1>6, Zenon DEF SwitchesOK
<1>9. CountersOK'
  BY <1>1, <1>3, <1>6 DEF CountersOK, n
<1>10. SizesOK'
  BY <1>1, <1>4 DEF SizesOK, ApplyViewport
<1>11. \A i \in 1..Len(table) :
         ~table[i].local /\ table[i].up > lastAck' /\ table[i].up > 0 /\ table[i].up \in Nat
  <2> SUFFICES ASSUME NEW i \in 1..Len(table)
               PROVE  ~table[i].local /\ table[i].up > lastAck' /\ table[i].up > 0
                      /\ table[i].up \in Nat
    OBVIOUS
  <2>1. ~table[i].local /\ table[i].up > pendingAck
    BY <1>2 DEF TableOK
  <2>2. table[i].up > lastAck
    BY <2>1 DEF SerialsOrdered
  <2>3. table[i].up \in 0..MaxConfigures /\ MaxConfigures \in Nat
    <3>1. table[i] \in Pairs
      BY ElementOfSeq DEF CountersOK
    <3> QED
      BY <3>1 DEF Pairs, LockSurfaceAssumption
  <2> QED
    BY <1>3, <1>6, <2>1, <2>2, <2>3
<1>12. SerialsOrdered'
  <2>1. \A i \in 1..Len(table) : table[i].up >= 0
    BY <1>11
  <2> QED
    BY <1>1, <1>6, <1>11, <2>1 DEF SerialsOrdered, n
<1>13. TableOK'
  BY <1>1, <1>11 DEF TableOK, Orderly
<1>14. RoleOK' /\ FirstOK'
  BY <1>1 DEF RoleOK, FirstOK, Size
<1>15. AckedOK'
  BY <1>1, <1>7 DEF AckedOK, Orderly
<1>16. DrawnOK'
  <2>1. Judged' => Judged /\ Orderly
    BY <1>1 DEF Judged, Orderly
  <2>2. Judged => /\ r = None /\ upSource' = None /\ (d # None => upDest' = d)
                  /\ conduct = "buffers" => d = None /\ upDest' = None
                  /\ SurfaceSize(z, upDest', upSource') = ackedSize
    BY <1>1, OrderlyCommit
  <2>3. Judged' => lastAck' # 0 /\ SurfaceSize(z, upDest', upSource') = configs[lastAck']
    BY <1>7, <2>1, <2>2
  <2>4. Judged' => wrong' = None
    BY <1>4, <1>5, <2>3
  <2> QED
    BY <1>1, <1>4, <2>1, <2>2, <2>3, <2>4 DEF DrawnOK
<1> QED
  BY <1>8, <1>9, <1>10, <1>12, <1>13, <1>14, <1>15, <1>16

-----------------------------------------------------------------------------
(* The theorems *)

\* Every step keeps the serials in order, what was acknowledged and what is drawn.
LEMMA SurfaceInductive == Spec => []SurfaceIInv
<1>1. Init => SurfaceIInv
  <2> SUFFICES ASSUME Init PROVE SurfaceIInv
    OBVIOUS
  <2>1. Len(<< >>) = 0 /\ table = << >> /\ configs = << >> /\ Len(table) = 0 /\ Len(configs) = 0
    BY EmptySeq DEF Init
  <2>2. table \in Seq(Pairs) /\ configs \in Seq(Sizes)
    BY <2>1, EmptySeq
  <2>3. SwitchesOK
    BY Zenon DEF Init, SwitchesOK, Errors
  <2>4. CountersOK /\ SizesOK
    BY <2>1, <2>2, LockSurfaceAssumption DEF Init, CountersOK, SizesOK, LockSurfaceAssumption
  <2>5. SerialsOrdered /\ TableOK /\ RoleOK /\ FirstOK /\ AckedOK
    BY <2>1 DEF Init, SerialsOrdered, TableOK, RoleOK, FirstOK, AckedOK, Newest
  <2>6. DrawnOK
    BY DEF Init, DrawnOK
  <2> QED
    BY <2>3, <2>4, <2>5, <2>6 DEF SurfaceIInv
<1>2. SurfaceIInv /\ [Next]_vars => SurfaceIInv'
  <2> SUFFICES ASSUME SurfaceIInv, [Next]_vars PROVE SurfaceIInv'
    OBVIOUS
  <2> USE LockSurfaceAssumption
  <2>1. CASE Damage /\ UNCHANGED conduct
    BY <2>1, IndicatorKeeps
  <2>2. CASE OverlayFrameDone /\ UNCHANGED conduct
    BY <2>2, IndicatorKeeps
  <2>3. CASE (\E z \in Sizes : HandleConfigure(z)) /\ UNCHANGED conduct
    BY <2>3, ConfigureForwardedKeeps, ConfigureFallbackKeeps
  <2>4. CASE (\E z \in Sizes, d, r \in Sizes \cup {None} : Commit(z, d, r)) /\ UNCHANGED conduct
    BY <2>4, CommitPassedKeeps, CommitRefusedKeeps
  <2>5. CASE GetLayerSurface /\ UNCHANGED conduct
    BY <2>5, GetLayerSurfaceKeeps
  <2>6. CASE FirstCommit /\ UNCHANGED conduct
    BY <2>6, FirstCommitKeeps
  <2>7. CASE ClientDies /\ UNCHANGED conduct
    BY <2>7, ClientDiesKeeps
  <2>8. CASE Clientless /\ UNCHANGED conduct
    BY <2>8, ClientlessKeeps
  <2>9. CASE (\E a \in 1..MaxSerial : AckConfigure(a)) /\ UNCHANGED conduct
    BY <2>9, AckConfigureKeeps
  <2>10. CASE UNCHANGED vars
    <3>1. UNCHANGED <<conduct, configs, viewVars, ackVars, hasBuffer, pluginVars>>
      BY <2>10 DEF vars, drawVars, compVars
    <3>2. UNCHANGED <<lastAck, attached, content, wrong, dirty, overlay>>
      BY <2>10 DEF vars, drawVars, compVars
    <3>3. dirty' \in BOOLEAN /\ overlay' \in BOOLEAN
      BY <3>2, Zenon DEF SurfaceIInv, SwitchesOK
    <3>4. overlay' => hasBuffer
      BY <3>2 DEF SurfaceIInv, DrawnOK
    <3> QED
      BY <3>1, <3>2, <3>3, <3>4, RenderKeeps
  <2> QED
    BY <2>1, <2>2, <2>3, <2>4, <2>5, <2>6, <2>7, <2>8, <2>9, <2>10 DEF Next
<1> QED
  BY <1>1, <1>2, PTL DEF Spec

\* A configure is acknowledged at most once and in order, to the compositor and
\* by the program, whatever the program sends, and however often it is replaced.
THEOREM SerialsInvariant == Spec => []SerialsInv
<1>1. SurfaceIInv => SerialsInv
  BY SurfaceIInvImplies
<1> QED
  BY <1>1, SurfaceInductive, PTL

\* A program that has answered every configure forwarded to it draws at the
\* size the output has now.
THEOREM AnsweredAlwaysCurrent == Spec => []AnsweredIsCurrent
<1>1. SurfaceIInv => AnsweredIsCurrent
  BY SurfaceIInvImplies
<1> QED
  BY <1>1, SurfaceInductive, PTL

\* What the handlers, the program's commits, render() and the fall back send
\* never makes the compositor disconnect swaylock, in the orderly runs.
THEOREM NeverProtocolError == Spec => []NoProtocolError
<1>1. SurfaceIInv => NoProtocolError
  BY SurfaceIInvImplies
<1> QED
  BY <1>1, SurfaceInductive, PTL

-----------------------------------------------------------------------------
(* The recursion that a commit runs: numbers and steps *)

\* Induction over a set of numbers.
LEMMA UpTo ==
  ASSUME NEW N \in Nat, NEW T, 0 \in T, \A k \in 1 .. N : k - 1 \in T => k \in T
  PROVE  0 .. N \subseteq T
<1> DEFINE R == {ss \in Nat \X Nat : ss[1] < ss[2]}
           W == (0 .. N) \ T
<1>1. IsWellFoundedOn(R, Nat)
  BY Zenon, NatLessThanWellFounded DEF OpToRel
<1> SUFFICES ASSUME W # {} PROVE FALSE
  OBVIOUS
<1>2. W \in SUBSET Nat
  OBVIOUS
<1> HIDE DEF R
<1>3. PICK m \in W : \A n \in W : ~(<<n, m>> \in R)
  <2> HIDE DEF W
  <2> QED
    BY <1>1, <1>2, WFMin
<1>4. m \in 1 .. N /\ m - 1 \in 0 .. N
  OBVIOUS
<1>5. m - 1 \in T
  <2>1. m - 1 \in W => <<m - 1, m>> \in R
    BY <1>4 DEF R
  <2> QED
    BY <1>3, <1>4, <2>1
<1> QED
  BY <1>3, <1>4, <1>5

\* N steps in X, and what they lead to from a.
Steps(N, X) == [1 .. N -> [X -> X]]
Follows(f, N, X, a, step) ==
  f \in [0 .. N -> X] /\ f[0] = a /\ \A k \in 1 .. N : f[k] = step[k][f[k - 1]]

\* A value that each step computes from the one before it exists.
LEMMA StepsExist ==
  ASSUME NEW N \in Nat, NEW X, NEW a \in X, NEW step \in Steps(N, X)
  PROVE  \E f : Follows(f, N, X, a, step)
<1>0. step \in [1 .. N -> [X -> X]]
  BY DEF Steps
<1> DEFINE Good(n, f) == f[0] = a /\ \A k \in 1 .. n : f[k] = step[k][f[k - 1]]
           T == {n \in 0 .. N : \E f \in [0 .. N -> X] : Good(n, f)}
<1>1. 0 \in T
  <2>1. [k \in 0 .. N |-> a] \in [0 .. N -> X] /\ Good(0, [k \in 0 .. N |-> a])
    OBVIOUS
  <2> HIDE DEF Good
  <2> QED
    BY <2>1
<1>2. ASSUME NEW n \in 1 .. N, n - 1 \in T PROVE n \in T
  <2>1. PICK f \in [0 .. N -> X] : Good(n - 1, f)
    BY <1>2
  <2> DEFINE g == [f EXCEPT ![n] = step[n][f[n - 1]]]
  <2>2. f[n - 1] \in X /\ step[n] \in [X -> X]
    BY <1>0
  <2>3. g \in [0 .. N -> X]
    BY <2>2
  <2>4. g[n] = step[n][f[n - 1]] /\ \A k \in 0 .. N : k # n => g[k] = f[k]
    OBVIOUS
  <2> HIDE DEF g
  <2>5. g[0] = a
    BY <2>1, <2>4
  <2>6. ASSUME NEW k \in 1 .. n PROVE g[k] = step[k][g[k - 1]]
    <3>1. k - 1 \in 0 .. N /\ k - 1 # n /\ k \in 0 .. N /\ (k # n => k \in 1 .. n - 1)
      OBVIOUS
    <3> QED
      BY <2>1, <2>4, <3>1
  <2> QED
    BY <2>3, <2>5, <2>6
<1>3. N \in T
  <2>1. \A k \in 1 .. N : k - 1 \in T => k \in T
    BY <1>2
  <2> HIDE DEF T
  <2>2. 0 .. N \subseteq T
    BY <1>1, <2>1, UpTo
  <2> QED
    BY <2>2
<1> QED
  BY <1>3 DEF Follows

-----------------------------------------------------------------------------
(* Lists of links *)

\* A list of one.
LEMMA OneLink ==
  ASSUME NEW S, NEW e \in S
  PROVE  /\ <<e>> \in Seq(S) /\ Len(<<e>>) = 1 /\ <<e>>[1] = e
         /\ ToSet(<<e>>) = {e} /\ NoRepeat(<<e>>)
<1>1. <<e>> \in Seq(S) /\ Len(<<e>>) = 1 /\ <<e>>[1] = e /\ DOMAIN <<e>> = 1 .. 1
  OBVIOUS
<1>2. ToSet(<<e>>) = {e}
  BY <1>1 DEF ToSet
<1>3. NoRepeat(<<e>>)
  BY <1>1 DEF NoRepeat, IsInjective
<1> QED
  BY <1>1, <1>2, <1>3

\* What a list holds, by position.
LEMMA ListSet ==
  ASSUME NEW S, NEW s \in Seq(S)
  PROVE  /\ ToSet(s) = {s[i] : i \in 1 .. Len(s)} /\ ToSet(s) \subseteq S
         /\ \A e : Contains(s, e) <=> e \in ToSet(s)
         /\ NoRepeat(s) <=> \A i, j \in 1 .. Len(s) : s[i] = s[j] => i = j
         /\ ToSet(s) = {} => s = << >>
<1>1. /\ DOMAIN s = 1 .. Len(s) /\ \A i \in 1 .. Len(s) : s[i] \in S
      /\ Len(s) \in Nat /\ (Len(s) = 0 => s = << >>)
  BY LenProperties, ElementOfSeq, EmptySeq
<1>2. ToSet(s) = {s[i] : i \in 1 .. Len(s)}
  BY <1>1 DEF ToSet
<1>3. ToSet(s) \subseteq S
  BY <1>1, <1>2
<1>4. \A e : Contains(s, e) <=> e \in ToSet(s)
  BY <1>2 DEF Contains
<1>5. NoRepeat(s) <=> \A i, j \in 1 .. Len(s) : s[i] = s[j] => i = j
  BY <1>1 DEF NoRepeat, IsInjective
<1>6. ToSet(s) = {} => s = << >>
  <2> SUFFICES ASSUME Len(s) # 0 PROVE s[1] \in ToSet(s)
    BY <1>1
  <2> QED
    BY <1>1, <1>2
<1> QED
  BY <1>2, <1>3, <1>4, <1>5, <1>6

\* Three lists, one after the other.  The name hides the equation from the
\* provers, which would apply it to what it yields.
Assoc(p, q, r) == (p \o q) \o r = p \o (q \o r)

LEMMA Associates ==
  ASSUME NEW S, NEW p \in Seq(S), NEW q \in Seq(S), NEW r \in Seq(S)
  PROVE  Assoc(p, q, r)
<1> SUFFICES (p \o q) \o r = p \o (q \o r)
  BY DEF Assoc
<1> QED
  BY ConcatAssociative

\* Two lists, one after the other.
LEMMA Joined ==
  ASSUME NEW S, NEW u \in Seq(S), NEW v \in Seq(S)
  PROVE  /\ u \o v \in Seq(S) /\ ToSet(u \o v) = ToSet(u) \cup ToSet(v)
         /\ NoRepeat(u \o v) <=> NoRepeat(u) /\ NoRepeat(v) /\ ToSet(u) \cap ToSet(v) = {}
<1> DEFINE w == u \o v
           m == Len(u)
           n == Len(v)
<1>1. /\ w \in Seq(S) /\ Len(w) = m + n /\ m \in Nat /\ n \in Nat
      /\ \A i \in 1 .. m + n : w[i] = IF i <= m THEN u[i] ELSE v[i - m]
  BY ConcatProperties, LenProperties
<1>2. \A i \in 1 .. m : i \in 1 .. m + n /\ w[i] = u[i]
  BY <1>1
<1>3. \A j \in 1 .. n : m + j \in 1 .. m + n /\ w[m + j] = v[j]
  <2> SUFFICES ASSUME NEW j \in 1 .. n PROVE m + j \in 1 .. m + n /\ w[m + j] = v[j]
    OBVIOUS
  <2>1. m + j \in 1 .. m + n /\ ~(m + j <= m) /\ (m + j) - m = j
    BY <1>1
  <2> QED
    BY <1>1, <2>1
<1>4. \A i \in 1 .. m + n : i \in 1 .. m \/ \E j \in 1 .. n : i = m + j
  <2> SUFFICES ASSUME NEW i \in 1 .. m + n, i \notin 1 .. m PROVE \E j \in 1 .. n : i = m + j
    OBVIOUS
  <2>1. i - m \in 1 .. n /\ i = m + (i - m)
    BY <1>1
  <2> QED
    BY <2>1
<1> HIDE DEF w
<1>5. /\ ToSet(w) = {w[i] : i \in 1 .. m + n} /\ ToSet(u) = {u[i] : i \in 1 .. m}
      /\ ToSet(v) = {v[i] : i \in 1 .. n}
      /\ NoRepeat(w) <=> \A i, j \in 1 .. m + n : w[i] = w[j] => i = j
      /\ NoRepeat(u) <=> \A i, j \in 1 .. m : u[i] = u[j] => i = j
      /\ NoRepeat(v) <=> \A i, j \in 1 .. n : v[i] = v[j] => i = j
  <2>1. /\ ToSet(w) = {w[i] : i \in 1 .. m + n}
        /\ NoRepeat(w) <=> \A i, j \in 1 .. m + n : w[i] = w[j] => i = j
    <3>1. w \in Seq(S) /\ Len(w) = m + n
      BY <1>1
    <3>2. /\ ToSet(w) = {w[i] : i \in 1 .. Len(w)}
          /\ NoRepeat(w) <=> \A i, j \in 1 .. Len(w) : w[i] = w[j] => i = j
      BY <3>1, ListSet
    <3> QED
      BY <3>1, <3>2
  <2>2. /\ ToSet(u) = {u[i] : i \in 1 .. m}
        /\ NoRepeat(u) <=> \A i, j \in 1 .. m : u[i] = u[j] => i = j
    BY ListSet
  <2>3. /\ ToSet(v) = {v[i] : i \in 1 .. n}
        /\ NoRepeat(v) <=> \A i, j \in 1 .. n : v[i] = v[j] => i = j
    BY ListSet
  <2> QED
    BY <2>1, <2>2, <2>3
<1> HIDE DEF m, n
<1>6. ToSet(w) = ToSet(u) \cup ToSet(v)
  <2>1. ToSet(w) \subseteq ToSet(u) \cup ToSet(v)
    BY <1>2, <1>3, <1>4, <1>5
  <2>2. ToSet(u) \subseteq ToSet(w) /\ ToSet(v) \subseteq ToSet(w)
    BY <1>2, <1>3, <1>5
  <2> QED
    BY <2>1, <2>2
<1>7. ASSUME NoRepeat(w) PROVE NoRepeat(u) /\ NoRepeat(v) /\ ToSet(u) \cap ToSet(v) = {}
  <2>1. NoRepeat(u)
    BY <1>2, <1>5, <1>7
  <2>2. NoRepeat(v)
    <3> SUFFICES ASSUME NEW i \in 1 .. n, NEW j \in 1 .. n, v[i] = v[j] PROVE i = j
      BY <1>5
    <3>1. m + i = m + j
      BY <1>3, <1>5, <1>7
    <3> QED
      BY <1>1, <3>1
  <2>3. ASSUME NEW i \in 1 .. m, NEW j \in 1 .. n, u[i] = v[j] PROVE FALSE
    <3>1. i = m + j
      BY <1>2, <1>3, <1>5, <1>7, <2>3
    <3> QED
      BY <1>1, <3>1
  <2> QED
    BY <1>5, <2>1, <2>2, <2>3
<1>8. ASSUME NoRepeat(u), NoRepeat(v), ToSet(u) \cap ToSet(v) = {} PROVE NoRepeat(w)
  <2> SUFFICES ASSUME NEW i \in 1 .. m + n, NEW j \in 1 .. m + n, w[i] = w[j] PROVE i = j
    BY <1>5
  <2>1. CASE i \in 1 .. m /\ j \in 1 .. m
    BY <1>2, <1>5, <1>8, <2>1
  <2>2. CASE i \in 1 .. m /\ j \notin 1 .. m
    <3>1. w[i] \in ToSet(u) /\ w[j] \in ToSet(v)
      BY <1>2, <1>3, <1>4, <1>5, <2>2
    <3> QED
      BY <1>8, <3>1
  <2>3. CASE i \notin 1 .. m /\ j \in 1 .. m
    <3>1. w[j] \in ToSet(u) /\ w[i] \in ToSet(v)
      BY <1>2, <1>3, <1>4, <1>5, <2>3
    <3> QED
      BY <1>8, <3>1
  <2>4. CASE i \notin 1 .. m /\ j \notin 1 .. m
    <3>1. PICK ii \in 1 .. n, jj \in 1 .. n : i = m + ii /\ j = m + jj
      BY <1>4, <2>4
    <3>2. v[ii] = v[jj]
      BY <1>3, <3>1
    <3> QED
      BY <1>5, <1>8, <3>1, <3>2
  <2> QED
    BY <2>1, <2>2, <2>3, <2>4
<1>9. w \in Seq(S)
  BY <1>1
<1> QED
  BY <1>6, <1>7, <1>8, <1>9 DEF w

\* Two joined lists, by position.
IsJoint(w, u, v) ==
  /\ Len(w) = Len(u) + Len(v)
  /\ \A i \in 1 .. Len(u) + Len(v) : w[i] = IF i <= Len(u) THEN u[i] ELSE v[i - Len(u)]

LEMMA JoinedAt ==
  ASSUME NEW S, NEW u \in Seq(S), NEW v \in Seq(S)
  PROVE  u \o v \in Seq(S) /\ IsJoint(u \o v, u, v)
BY ConcatProperties DEF IsJoint

\* The parts of two joined lists.
LEMMA JoinedParts ==
  ASSUME NEW S, NEW u \in Seq(S), NEW v \in Seq(S)
  PROVE  /\ SubSeq(u \o v, 1, Len(u)) = u
         /\ SubSeq(u \o v, Len(u) + 1, Len(u \o v)) = v
<1> DEFINE w == u \o v
           m == Len(u)
           n == Len(v)
           p == SubSeq(w, 1, m)
           q == SubSeq(w, m + 1, m + n)
<1>1. /\ w \in Seq(S) /\ Len(w) = m + n /\ m \in Nat /\ n \in Nat
      /\ \A i \in 1 .. m + n : w[i] = (IF i <= m THEN u[i] ELSE v[i - m]) /\ w[i] \in S
  BY ConcatProperties, LenProperties, ElementOfSeq
<1>2. p \in Seq(S) /\ Len(p) = m /\ \A i \in 1 .. m : p[i] = w[i]
  <2>1. \A i \in 1 .. m : w[i] \in S
    BY <1>1
  <2> HIDE DEF w, m, n
  <2> QED
    BY <1>1, <2>1, SubSeqProperties
<1>3. q \in Seq(S) /\ Len(q) = n /\ \A i \in 1 .. n : q[i] = w[m + i]
  <2>1. \A i \in m + 1 .. m + n : w[i] \in S
    BY <1>1
  <2>2. m + 1 \in Int /\ m + n \in Int /\ (m + n) - (m + 1) + 1 = n /\ (~(m + 1 <= m + n) => n = 0)
    BY <1>1
  <2> HIDE DEF w, m, n
  <2>3. /\ q \in Seq(S) /\ Len(q) = n /\ \A i \in 1 .. n : q[i] = w[(m + 1) + i - 1]
    BY <2>1, <2>2, SubSeqProperties
  <2>4. \A i \in 1 .. n : (m + 1) + i - 1 = m + i
    BY <1>1
  <2> QED
    BY <2>3, <2>4
<1> HIDE DEF p, q, w
<1>4. p = u
  <2>1. \A i \in 1 .. m : p[i] = u[i]
    BY <1>1, <1>2
  <2> QED
    BY <1>2, <2>1, SeqEqual
<1>5. q = v
  <2>1. ASSUME NEW i \in 1 .. n PROVE q[i] = v[i]
    <3>1. m + i \in 1 .. m + n /\ ~(m + i <= m) /\ (m + i) - m = i
      BY <1>1
    <3> QED
      BY <1>1, <1>3, <3>1
  <2> QED
    BY <1>3, <2>1, SeqEqual
<1> QED
  BY <1>1, <1>4, <1>5 DEF p, q, w

\* The place of an element that a list holds once.
LEMMA Indexed ==
  ASSUME NEW S, NEW s \in Seq(S), NoRepeat(s), NEW i \in 1 .. Len(s)
  PROVE  IndexOf(s, s[i]) = i
<1>1. \A j, k \in 1 .. Len(s) : s[j] = s[k] => j = k
  BY ListSet
<1>2. \E j \in 1 .. Len(s) : s[j] = s[i]
  OBVIOUS
<1>3. IndexOf(s, s[i]) \in 1 .. Len(s) /\ s[IndexOf(s, s[i])] = s[i]
  BY <1>2 DEF IndexOf
<1> QED
  BY <1>1, <1>3

\* Between two lists.
LEMMA Between ==
  ASSUME NEW S, NEW u \in Seq(S), NEW v \in Seq(S), NEW e \in S, NEW i, i = Len(u) + 1
  PROVE  /\ InsertAt(u \o v, i, e) = (u \o <<e>>) \o v
         /\ (u \o <<e>>) \o v \in Seq(S)
<1>1. Len(u) \in Nat /\ i - 1 = Len(u)
  BY LenProperties
<1>2. InsertAt(u \o v, i, e) = (u \o <<e>>) \o v
  BY <1>1, JoinedParts DEF InsertAt
<1>3. <<e>> \in Seq(S)
  BY OneLink
<1>4. u \o <<e>> \in Seq(S)
  BY <1>3, Joined
<1> QED
  BY <1>2, <1>4, Joined

\* After the last of the first part, and before the first of the second part.
OverLast(u, e, v) == InsertAt(u \o v, IndexOf(u \o v, u[Len(u)]) + 1, e) = (u \o <<e>>) \o v
UnderFirst(u, e, v) == InsertAt(u \o v, IndexOf(u \o v, v[1]), e) = (u \o <<e>>) \o v

LEMMA PlacedBetween ==
  ASSUME NEW S, NEW u \in Seq(S), NEW v \in Seq(S), NoRepeat(u \o v), NEW e \in S
  PROVE  (u # << >> => OverLast(u, e, v)) /\ (v # << >> => UnderFirst(u, e, v))
<1> DEFINE w == u \o v
<1>1. /\ w \in Seq(S) /\ Len(w) = Len(u) + Len(v) /\ Len(u) \in Nat /\ Len(v) \in Nat
      /\ \A i \in 1 .. Len(u) + Len(v) : w[i] = IF i <= Len(u) THEN u[i] ELSE v[i - Len(u)]
      /\ u # << >> => Len(u) # 0
      /\ v # << >> => Len(v) # 0
  BY ConcatProperties, LenProperties, EmptySeq
<1>2. ASSUME u # << >> PROVE IndexOf(w, u[Len(u)]) = Len(u)
  <2>1. Len(u) \in 1 .. Len(w) /\ w[Len(u)] = u[Len(u)]
    BY <1>1, <1>2
  <2> HIDE DEF w
  <2> QED
    BY <1>1, <2>1, Indexed DEF w
<1>3. ASSUME v # << >> PROVE IndexOf(w, v[1]) = Len(u) + 1
  <2>1. /\ Len(u) + 1 \in 1 .. Len(w) /\ ~(Len(u) + 1 <= Len(u)) /\ (Len(u) + 1) - Len(u) = 1
    BY <1>1, <1>3
  <2>2. w[Len(u) + 1] = v[1]
    BY <1>1, <2>1
  <2>3. w \in Seq(S) /\ NoRepeat(w)
    BY <1>1
  <2> DEFINE j == Len(u) + 1
  <2> HIDE DEF w, j
  <2>4. j \in 1 .. Len(w) /\ w[j] = v[1]
    BY <2>1, <2>2 DEF j
  <2>5. IndexOf(w, v[1]) = j
    BY <2>3, <2>4, Indexed
  <2> QED
    BY <2>5 DEF j
<1>4. InsertAt(w, Len(u) + 1, e) = (u \o <<e>>) \o v
  BY Between
<1> QED
  BY <1>2, <1>3, <1>4, Zenon DEF OverLast, UnderFirst

\* A list with an element between two parts.
Around(p, e, q) == (p \o <<e>>) \o q

\* A list, parted around an element of it.
LEMMA Parted ==
  ASSUME NEW S, NEW s \in Seq(S), NEW e \in ToSet(s)
  PROVE  e \in S /\ \E p \in Seq(S), q \in Seq(S) : s = Around(p, e, q)
<1>0. PICK i \in 1 .. Len(s) : s[i] = e
  BY ListSet
<1> DEFINE p == SubSeq(s, 1, i - 1)
           q == SubSeq(s, i + 1, Len(s))
<1>1. Len(s) \in Nat /\ i \in 1 .. Len(s) /\ \A k \in 1 .. Len(s) : s[k] \in S
  BY LenProperties, ElementOfSeq
<1>2. p \in Seq(S)
  BY <1>1, SubSeqProperties
<1>3. q \in Seq(S)
  BY <1>1, SubSeqProperties
<1>4. p \o <<e>> = SubSeq(s, 1, i)
  <2>1. 1 \in 1 .. Len(s) /\ i \in 1 .. Len(s)
    BY <1>1
  <2>2. p \o <<s[i]>> = SubSeq(s, 1, i)
    BY <2>1, SubSeqRecursiveSecond
  <2> QED
    BY <1>0, <2>2
<1>5. SubSeq(s, 1, i) \o q = SubSeq(s, 1, Len(s))
  <2>1. 1 \in 1 .. Len(s) + 1 /\ i \in 1 - 1 .. Len(s) /\ Len(s) \in i .. Len(s)
    BY <1>1
  <2> QED
    BY <2>1, ConcatAdjacentSubSeq
<1>6. SubSeq(s, 1, Len(s)) = s
  BY SubSeqFull
<1>7. e \in S
  BY <1>0, <1>1
<1> HIDE DEF p, q
<1>8. s = Around(p, e, q)
  <2> DEFINE h == SubSeq(s, 1, i)
             k == SubSeq(s, 1, Len(s))
  <2> DEFINE l == <<e>>
  <2>1. p \o l = h /\ h \o q = k /\ k = s
    BY <1>4, <1>5, <1>6, Zenon
  <2> HIDE DEF h, k
  <2>2. Around(p, e, q) = (p \o l) \o q
    BY Zenon DEF Around
  <2> HIDE DEF l
  <2> QED
    BY <2>1, <2>2, Zenon
<1> QED
  BY <1>2, <1>3, <1>7, <1>8

\* An element between two lists.
LEMMA JoinedAround ==
  ASSUME NEW S, NEW p \in Seq(S), NEW q \in Seq(S), NEW e \in S
  PROVE  /\ p \o <<e>> \in Seq(S) /\ Around(p, e, q) \in Seq(S)
         /\ ToSet(Around(p, e, q)) = ToSet(p) \cup {e} \cup ToSet(q)
         /\ NoRepeat(Around(p, e, q)) <=>
              /\ NoRepeat(p) /\ NoRepeat(q) /\ ToSet(p) \cap ToSet(q) = {}
              /\ e \notin ToSet(p) \cup ToSet(q)
<1> DEFINE l == <<e>>
           h == p \o l
<1>1. l \in Seq(S) /\ ToSet(l) = {e} /\ NoRepeat(l)
  BY OneLink
<1> HIDE DEF l
<1>2. h \in Seq(S) /\ ToSet(h) = ToSet(p) \cup {e}
  BY <1>1, Joined
<1>3. NoRepeat(h) <=> NoRepeat(p) /\ e \notin ToSet(p)
  BY <1>1, Joined
<1> HIDE DEF h
<1>4. h \o q \in Seq(S) /\ ToSet(h \o q) = ToSet(p) \cup {e} \cup ToSet(q)
  BY <1>2, Joined
<1>5. NoRepeat(h \o q) <=> NoRepeat(h) /\ NoRepeat(q) /\ (ToSet(p) \cup {e}) \cap ToSet(q) = {}
  BY <1>2, Joined
<1>6. NoRepeat(h \o q) <=> /\ NoRepeat(p) /\ NoRepeat(q) /\ ToSet(p) \cap ToSet(q) = {}
                           /\ e \notin ToSet(p) \cup ToSet(q)
  BY <1>3, <1>5
<1> QED
  BY <1>2, <1>4, <1>6 DEF h, l, Around

\* More on one side, or on the other.
Above(p, e, q, r) == Around(p, e, q) \o r = Around(p, e, q \o r)
Below(p, e, q, r) == r \o Around(p, e, q) = Around(r \o p, e, q)

LEMMA MoreAbove ==
  ASSUME NEW S, NEW p \in Seq(S), NEW q \in Seq(S), NEW r \in Seq(S), NEW e \in S
  PROVE  Above(p, e, q, r)
<1> DEFINE h == p \o <<e>>
<1>1. h \in Seq(S)
  BY OneLink, ConcatProperties
<1> HIDE DEF h
<1>2. Assoc(h, q, r)
  BY <1>1, Associates
<1> QED
  BY <1>2, Zenon DEF Above, Assoc, Around, h

LEMMA MoreBelow ==
  ASSUME NEW S, NEW p \in Seq(S), NEW q \in Seq(S), NEW r \in Seq(S), NEW e \in S
  PROVE  Below(p, e, q, r)
<1> DEFINE l == <<e>>
           h == p \o l
<1>1. l \in Seq(S)
  BY OneLink
<1> HIDE DEF l
<1>2. h \in Seq(S)
  BY <1>1, ConcatProperties
<1>3. Assoc(r, p, l)
  BY <1>1, Associates
<1> HIDE DEF h
<1>4. Assoc(r, h, q)
  BY <1>2, Associates
<1> QED
  BY <1>3, <1>4, Zenon DEF Below, Assoc, Around, l, h

\* An element taken out from between two parts.
LEMMA TakenOut ==
  ASSUME NEW S, NEW p \in Seq(S), NEW q \in Seq(S), NEW e \in S, NoRepeat(Around(p, e, q))
  PROVE  Without(Around(p, e, q), e) = p \o q
<1> DEFINE w == (p \o <<e>>) \o q
           i == Len(p) + 1
<1>1. /\ <<e>> \in Seq(S) /\ p \o <<e>> \in Seq(S) /\ <<e>> \o q \in Seq(S)
      /\ w \in Seq(S) /\ w = p \o (<<e>> \o q) /\ Len(<<e>>) = 1 /\ <<e>>[1] = e
  <2>1. <<e>> \in Seq(S) /\ Len(<<e>>) = 1 /\ <<e>>[1] = e
    BY OneLink
  <2>2. p \o <<e>> \in Seq(S) /\ <<e>> \o q \in Seq(S)
    BY <2>1, Joined
  <2>3. w \in Seq(S)
    BY <2>2, Joined
  <2>4. Assoc(p, <<e>>, q)
    BY <2>1, Associates
  <2> QED
    BY <2>1, <2>2, <2>3, <2>4, Zenon DEF Assoc
<1>2. /\ Len(p) \in Nat /\ Len(q) \in Nat /\ Len(p \o <<e>>) = i /\ Len(w) = i + Len(q)
  <2>1. Len(p) \in Nat /\ Len(q) \in Nat
    BY LenProperties
  <2>2. Len(p \o <<e>>) = i
    BY <1>1, ConcatProperties
  <2> QED
    BY <1>1, <2>1, <2>2, ConcatProperties
<1>3. SubSeq(w, 1, Len(p)) = p
  BY <1>1, JoinedParts
<1>4. SubSeq(w, i + 1, Len(w)) = q
  BY <1>1, <1>2, JoinedParts
<1>5. i \in 1 .. Len(w) /\ w[i] = e
  <2>1. i \in 1 .. Len(p \o <<e>>) + Len(q) /\ i <= Len(p \o <<e>>)
    BY <1>2
  <2>2. w[i] = (p \o <<e>>)[i]
    BY <1>1, <2>1, ConcatProperties
  <2>3. (p \o <<e>>)[i] = e
    <3>1. i \in 1 .. Len(p) + Len(<<e>>) /\ ~(i <= Len(p)) /\ i - Len(p) = 1
      BY <1>1, <1>2
    <3> QED
      BY <1>1, <3>1, ConcatProperties
  <2> QED
    BY <1>2, <2>2, <2>3
<1>9. NoRepeat(w)
  BY DEF Around
<1> HIDE DEF w
<1>6. IndexOf(w, e) = i
  BY <1>1, <1>5, <1>9, Indexed
<1>7. Contains(w, e)
  BY <1>5 DEF Contains
<1>8. RemoveAt(w, i) = p \o q
  <2>1. i - 1 = Len(p)
    BY <1>2
  <2> QED
    BY <1>3, <1>4, <2>1 DEF RemoveAt
<1> QED
  BY <1>6, <1>7, <1>8 DEF Without, w, Around

\* What is left without an element.
LEMMA LeftWithout ==
  ASSUME NEW S, NEW s \in Seq(S), NoRepeat(s), NEW e
  PROVE  /\ Without(s, e) \in Seq(S) /\ NoRepeat(Without(s, e))
         /\ ToSet(Without(s, e)) = ToSet(s) \ {e}
         /\ e \notin ToSet(s) => Without(s, e) = s
<1>1. CASE e \notin ToSet(s)
  <2>1. Without(s, e) = s
    BY <1>1, ListSet DEF Without
  <2> QED
    BY <1>1, <2>1
<1>2. CASE e \in ToSet(s)
  <2>1. PICK p \in Seq(S), q \in Seq(S) : s = Around(p, e, q)
    BY <1>2, Parted
  <2>2. e \in S
    BY <1>2, Parted
  <2>3. Without(s, e) = p \o q
    BY <2>1, <2>2, TakenOut
  <2>4. ToSet(s) = ToSet(p) \cup {e} \cup ToSet(q)
    <3>1. ToSet(Around(p, e, q)) = ToSet(p) \cup {e} \cup ToSet(q)
      BY <2>2, JoinedAround
    <3> QED
      BY <2>1, <3>1
  <2>5. /\ NoRepeat(p) /\ NoRepeat(q) /\ ToSet(p) \cap ToSet(q) = {}
        /\ e \notin ToSet(p) \cup ToSet(q)
    BY <2>1, <2>2, JoinedAround
  <2>6. p \o q \in Seq(S) /\ ToSet(p \o q) = ToSet(p) \cup ToSet(q) /\ NoRepeat(p \o q)
    BY <2>5, Joined
  <2> QED
    BY <1>2, <2>3, <2>4, <2>5, <2>6
<1> QED
  BY <1>1, <1>2

\* Taking an element out of two joined lists takes it out of each.
LEMMA WithoutJoined ==
  ASSUME NEW S, NEW u \in Seq(S), NEW v \in Seq(S), NoRepeat(u \o v), NEW e
  PROVE  Without(u \o v, e) = Without(u, e) \o Without(v, e)
<1>1. /\ NoRepeat(u) /\ NoRepeat(v) /\ ToSet(u) \cap ToSet(v) = {}
      /\ u \o v \in Seq(S) /\ ToSet(u \o v) = ToSet(u) \cup ToSet(v)
  BY Joined
<1>2. CASE e \in ToSet(u)
  <2>1. PICK p \in Seq(S), q \in Seq(S) : u = Around(p, e, q)
    BY <1>2, Parted
  <2>2. e \in S
    BY <1>2, Parted
  <2>3. Without(u, e) = p \o q
    BY <1>1, <2>1, <2>2, TakenOut
  <2>4. Without(v, e) = v
    BY <1>1, <1>2, LeftWithout
  <2>5. q \o v \in Seq(S) /\ u \o v = Around(p, e, q \o v)
    <3>1. Above(p, e, q, v)
      BY <2>2, MoreAbove
    <3>2. q \o v \in Seq(S)
      BY ConcatProperties
    <3> QED
      BY <2>1, <3>1, <3>2, Zenon DEF Above
  <2> DEFINE r == q \o v
  <2>9. NoRepeat(Around(p, e, r)) /\ r \in Seq(S)
    BY <2>5
  <2> HIDE DEF r
  <2>6. Without(Around(p, e, r), e) = p \o r
    BY <2>2, <2>9, TakenOut
  <2>7. Without(u \o v, e) = p \o (q \o v)
    BY <2>5, <2>6 DEF r
  <2>8. Assoc(p, q, v)
    BY Associates
  <2> QED
    BY <2>3, <2>4, <2>7, <2>8 DEF Assoc
<1>3. CASE e \in ToSet(v)
  <2>1. PICK p \in Seq(S), q \in Seq(S) : v = Around(p, e, q)
    BY <1>3, Parted
  <2>2. e \in S
    BY <1>3, Parted
  <2>3. Without(v, e) = p \o q
    BY <1>1, <2>1, <2>2, TakenOut
  <2>4. Without(u, e) = u
    BY <1>1, <1>3, LeftWithout
  <2>5. u \o p \in Seq(S) /\ u \o v = Around(u \o p, e, q)
    <3>1. Below(p, e, q, u)
      BY <2>2, MoreBelow
    <3>2. u \o p \in Seq(S)
      BY ConcatProperties
    <3> QED
      BY <2>1, <3>1, <3>2, Zenon DEF Below
  <2> DEFINE r == u \o p
  <2>9. NoRepeat(Around(r, e, q)) /\ r \in Seq(S)
    BY <2>5
  <2> HIDE DEF r
  <2>6. Without(Around(r, e, q), e) = r \o q
    BY <2>2, <2>9, TakenOut
  <2>7. Without(u \o v, e) = (u \o p) \o q
    BY <2>5, <2>6 DEF r
  <2>8. Assoc(u, p, q)
    BY Associates
  <2> QED
    BY <2>3, <2>4, <2>7, <2>8 DEF Assoc
<1>4. CASE e \notin ToSet(u) \cup ToSet(v)
  <2>1. Without(u, e) = u /\ Without(v, e) = v
    BY <1>1, <1>4, LeftWithout
  <2>2. Without(u \o v, e) = u \o v
    BY <1>1, <1>4, LeftWithout
  <2> QED
    BY <2>1, <2>2
<1> QED
  BY <1>2, <1>3, <1>4

\* A new element inserted in a list.
LEMMA Inserted ==
  ASSUME NEW S, NEW s \in Seq(S), NoRepeat(s), NEW e \in S, e \notin ToSet(s),
         NEW i \in 1 .. Len(s) + 1
  PROVE  /\ InsertAt(s, i, e) \in Seq(S) /\ NoRepeat(InsertAt(s, i, e))
         /\ ToSet(InsertAt(s, i, e)) = ToSet(s) \cup {e}
<1> DEFINE p == SubSeq(s, 1, i - 1)
           q == SubSeq(s, i, Len(s))
<1>1. Len(s) \in Nat /\ i \in Nat /\ \A k \in 1 .. Len(s) : s[k] \in S
  BY LenProperties, ElementOfSeq
<1>2. p \in Seq(S)
  BY <1>1, SubSeqProperties
<1>3. q \in Seq(S)
  BY <1>1, SubSeqProperties
<1>4. p \o q = s
  <2>1. /\ 1 \in 1 .. Len(s) + 1 /\ i - 1 \in 1 - 1 .. Len(s) /\ Len(s) \in i - 1 .. Len(s)
        /\ (i - 1) + 1 = i
    BY <1>1
  <2>2. p \o q = SubSeq(s, 1, Len(s))
    BY <2>1, ConcatAdjacentSubSeq
  <2> QED
    BY <2>2, SubSeqFull
<1>5. InsertAt(s, i, e) = Around(p, e, q)
  BY DEF InsertAt, Around
<1> HIDE DEF p, q
<1>6. NoRepeat(p) /\ NoRepeat(q) /\ ToSet(p) \cap ToSet(q) = {} /\ ToSet(s) = ToSet(p) \cup ToSet(q)
  <2>1. NoRepeat(p \o q)
    BY <1>4
  <2>2. /\ NoRepeat(p) /\ NoRepeat(q) /\ ToSet(p) \cap ToSet(q) = {}
        /\ ToSet(p \o q) = ToSet(p) \cup ToSet(q)
    BY <1>2, <1>3, <2>1, Joined, Zenon
  <2> QED
    BY <1>4, <2>2
<1>7. ToSet(Around(p, e, q)) = ToSet(p) \cup {e} \cup ToSet(q) /\ Around(p, e, q) \in Seq(S)
  BY <1>2, <1>3, JoinedAround
<1>8. NoRepeat(Around(p, e, q))
  BY <1>2, <1>3, <1>6, JoinedAround
<1> QED
  BY <1>5, <1>6, <1>7, <1>8

-----------------------------------------------------------------------------
(* The order upstream *)

Stackable == Surfaces \cup {Bg, Indicator}

\* A part m of the stack that is in its final order, what is still to be placed
\* under and over it, and the indicator.
Layered(b, m, a) == (b \o m) \o (a \o <<Indicator>>)

\* Placing moves a subsurface that is there and adds one that is not.
LEMMA PlacedWithout ==
  ASSUME NEW S, NEW s \in Seq(S), NoRepeat(s), NEW e \in S
  PROVE  Without(Placed(s, e), e) = Without(s, e)
<1>1. CASE Contains(s, e)
  BY <1>1 DEF Placed
<1>2. CASE ~Contains(s, e)
  <2>1. e \notin ToSet(s) /\ Without(s, e) = s
    BY <1>2, ListSet DEF Without
  <2> DEFINE n == << >>
  <2>2. n \in Seq(S) /\ s \o n = s /\ ToSet(n) = {} /\ NoRepeat(n)
    <3>1. n \in Seq(S) /\ s \o n = s
      BY ConcatEmptySeq, EmptySeq
    <3>2. ToSet(n) = {} /\ NoRepeat(n)
      BY DEF ToSet, NoRepeat, IsInjective
    <3> QED
      BY <3>1, <3>2
  <2>3. s \o <<e>> \in Seq(S) /\ (s \o <<e>>) \o << >> = s \o <<e>>
    <3>1. s \o <<e>> \in Seq(S)
      BY <2>2, JoinedAround
    <3> QED
      BY <3>1, ConcatEmptySeq
  <2>4. Around(s, e, n) = s \o <<e>>
    BY <2>3 DEF Around
  <2> HIDE DEF n
  <2>5. Without(Around(s, e, n), e) = s
    <3>1. /\ NoRepeat(s) /\ NoRepeat(n) /\ ToSet(s) \cap ToSet(n) = {}
          /\ e \notin ToSet(s) \cup ToSet(n) /\ n \in Seq(S)
      BY <2>1, <2>2
    <3>2. NoRepeat(Around(s, e, n))
      BY <3>1, JoinedAround
    <3> QED
      BY <2>2, <3>2, TakenOut
  <2>6. Placed(s, e) = s \o <<e>>
    BY <1>2, AppendIsConcat DEF Placed
  <2> QED
    BY <2>1, <2>4, <2>5, <2>6
<1> QED
  BY <1>1, <1>2

\* A list without an element that is not in its middle.
LEMMA LayeredWithout ==
  ASSUME SubsurfacesAssumption, NEW b \in Seq(Surfaces), NEW a \in Seq(Surfaces),
         NEW m \in Seq(Stackable), NoRepeat(Layered(b, m, a)), NEW e \in Surfaces, e \notin ToSet(m)
  PROVE  /\ Without(b, e) \in Seq(Surfaces) /\ ToSet(Without(b, e)) = ToSet(b) \ {e}
         /\ Without(a, e) \in Seq(Surfaces) /\ ToSet(Without(a, e)) = ToSet(a) \ {e}
         /\ Without(Layered(b, m, a), e) = Layered(Without(b, e), m, Without(a, e))
         /\ NoRepeat(Layered(Without(b, e), m, Without(a, e)))
         /\ Layered(Without(b, e), m, Without(a, e)) \in Seq(Stackable)
         /\ e \notin ToSet(Layered(Without(b, e), m, Without(a, e)))
<1> DEFINE U == Stackable
           t == <<Indicator>>
           u == b \o m
           v == a \o t
<1>1. /\ b \in Seq(U) /\ a \in Seq(U) /\ m \in Seq(U) /\ e \in U /\ Indicator \in U
      /\ e # Indicator /\ e # Bg
  <2>1. Surfaces \subseteq U
    BY DEF Stackable
  <2>2. e # Indicator /\ e # Bg /\ Indicator \in U
    BY DEF SubsurfacesAssumption, Stackable
  <2> QED
    BY <2>1, <2>2, SeqMonotonic
<1>2. t \in Seq(U) /\ ToSet(t) = {Indicator} /\ NoRepeat(t)
  BY <1>1, OneLink
<1> HIDE DEF U, t
<1>3. u \in Seq(U) /\ v \in Seq(U)
  BY <1>1, <1>2, Joined
<1>4. /\ Layered(b, m, a) = u \o v /\ u \o v \in Seq(U)
  BY <1>3, ConcatProperties DEF Layered, t
<1> HIDE DEF u, v
<1>5. NoRepeat(u \o v)
  BY <1>4
<1>6. NoRepeat(u) /\ NoRepeat(v)
  BY <1>3, <1>5, Joined
<1>7. NoRepeat(b) /\ NoRepeat(m) /\ NoRepeat(a)
  BY <1>1, <1>2, <1>6, Joined DEF u, v
<1>8. Without(m, e) = m /\ Without(t, e) = t
  BY <1>1, <1>2, <1>7, LeftWithout
<1>9. Without(u, e) = Without(b, e) \o m
  <2>1. NoRepeat(b \o m)
    BY <1>6 DEF u
  <2>2. Without(b \o m, e) = Without(b, e) \o Without(m, e)
    BY <1>1, <2>1, WithoutJoined
  <2> QED
    BY <1>8, <2>2 DEF u
<1>10. Without(v, e) = Without(a, e) \o t
  BY <1>1, <1>2, <1>6, <1>8, WithoutJoined DEF v
<1>11. Without(u \o v, e) = Without(u, e) \o Without(v, e)
  BY <1>3, <1>5, WithoutJoined
<1>12. Without(Layered(b, m, a), e) = Layered(Without(b, e), m, Without(a, e))
  BY <1>4, <1>9, <1>10, <1>11 DEF Layered, t
<1>13. /\ Without(b, e) \in Seq(Surfaces) /\ ToSet(Without(b, e)) = ToSet(b) \ {e}
       /\ Without(a, e) \in Seq(Surfaces) /\ ToSet(Without(a, e)) = ToSet(a) \ {e}
  BY <1>7, LeftWithout
<1>14. /\ NoRepeat(Without(u \o v, e)) /\ e \notin ToSet(Without(u \o v, e))
       /\ Without(u \o v, e) \in Seq(U)
  <2> DEFINE w == u \o v
  <2>1. w \in Seq(U) /\ NoRepeat(w)
    BY <1>4, <1>5
  <2> HIDE DEF w
  <2>2. NoRepeat(Without(w, e)) /\ Without(w, e) \in Seq(U) /\ e \notin ToSet(Without(w, e))
    BY <2>1, LeftWithout
  <2> QED
    BY <2>2 DEF w
<1> QED
  BY <1>4, <1>12, <1>13, <1>14 DEF U

\* wl_subsurface_place_above the top of the middle part makes e its new top.
LEMMA MovedAbove ==
  ASSUME SubsurfacesAssumption, NEW b \in Seq(Surfaces), NEW a \in Seq(Surfaces),
         NEW m \in Seq(Stackable), m # << >>, NEW st, st = Layered(b, m, a),
         NoRepeat(st), st \in Seq(Stackable),
         NEW e \in Surfaces, e \notin ToSet(m), NEW ref, ref = m[Len(m)]
  PROVE  /\ PlacedAbove(Placed(st, e), e, ref) = Layered(Without(b, e), m \o <<e>>, Without(a, e))
         /\ NoRepeat(PlacedAbove(Placed(st, e), e, ref))
         /\ PlacedAbove(Placed(st, e), e, ref) \in Seq(Stackable)
<1> DEFINE U == Stackable
           bb == Without(b, e)
           aa == Without(a, e)
           l == <<e>>
           u == bb \o m
           v == aa \o <<Indicator>>
           w == Without(Placed(st, e), e)
<1>1. /\ bb \in Seq(U) /\ aa \in Seq(U) /\ e \in U /\ Indicator \in U
  <2>1. Surfaces \subseteq U /\ Indicator \in U
    BY DEF Stackable
  <2>2. bb \in Seq(Surfaces) /\ aa \in Seq(Surfaces)
    BY LayeredWithout
  <2> QED
    BY <2>1, <2>2, SeqMonotonic
<1>2. w = u \o v /\ NoRepeat(w) /\ e \notin ToSet(w)
  <2>1. w = Without(st, e)
    <3>1. e \in U
      BY <1>1
    <3> QED
      BY <3>1, PlacedWithout
  <2>2. /\ Without(st, e) = Layered(bb, m, aa) /\ NoRepeat(Layered(bb, m, aa))
        /\ e \notin ToSet(Layered(bb, m, aa))
    <3> HIDE DEF w
    <3> QED
      BY LayeredWithout
  <2> QED
    BY <2>1, <2>2 DEF Layered
<1>3. u \in Seq(U) /\ v \in Seq(U)
  <2>1. <<Indicator>> \in Seq(U)
    BY <1>1, OneLink
  <2>2. m \in Seq(U)
    OBVIOUS
  <2> HIDE DEF U, aa, bb
  <2> QED
    BY <1>1, <2>1, <2>2, ConcatProperties
<1>4. u # << >> /\ u[Len(u)] = ref
  <2>1. m \in Seq(U)
    OBVIOUS
  <2>2. /\ Len(u) = Len(bb) + Len(m) /\ Len(bb) \in Nat /\ Len(m) \in Nat /\ Len(m) # 0
        /\ \A i \in 1 .. Len(bb) + Len(m) : u[i] = IF i <= Len(bb) THEN bb[i] ELSE m[i - Len(bb)]
    BY <1>1, <2>1, ConcatProperties, LenProperties, EmptySeq
  <2>3. /\ Len(u) \in 1 .. Len(bb) + Len(m) /\ ~(Len(u) <= Len(bb)) /\ Len(u) - Len(bb) = Len(m)
        /\ Len(u) # 0
    BY <2>2
  <2>4. u[Len(u)] = m[Len(m)]
    BY <2>2, <2>3
  <2>5. u # << >>
    BY <2>3, EmptySeq
  <2> QED
    BY <2>4, <2>5
<1>5. PlacedAbove(Placed(st, e), e, ref) = InsertAt(w, IndexOf(w, ref) + 1, e)
  BY DEF PlacedAbove
<1> HIDE DEF U, u, v, w, bb, aa, l
<1>6. InsertAt(w, IndexOf(w, ref) + 1, e) = (u \o l) \o v
  <2>1. NoRepeat(u \o v)
    BY <1>2
  <2>2. OverLast(u, e, v)
    BY <1>1, <1>3, <1>4, <2>1, PlacedBetween
  <2> QED
    BY <1>2, <1>4, <2>2, Zenon DEF OverLast, l
<1>7. u \o l = bb \o (m \o l)
  <2>1. l \in Seq(U) /\ m \in Seq(U)
    BY <1>1, OneLink DEF l, U
  <2>2. Assoc(bb, m, l)
    BY <1>1, <2>1, Associates
  <2> QED
    BY <2>2 DEF Assoc, u
<1>8. (u \o l) \o v = Layered(bb, m \o l, aa)
  BY <1>7 DEF Layered, v
<1>9. NoRepeat((u \o l) \o v) /\ (u \o l) \o v \in Seq(U)
  <2>1. Around(u, e, v) = (u \o l) \o v
    BY DEF Around, l
  <2>2. /\ NoRepeat(u) /\ NoRepeat(v) /\ ToSet(u) \cap ToSet(v) = {}
        /\ e \notin ToSet(u) \cup ToSet(v)
    BY <1>2, <1>3, Joined
  <2>3. NoRepeat(Around(u, e, v)) /\ Around(u, e, v) \in Seq(U)
    BY <1>1, <1>3, <2>2, JoinedAround
  <2> QED
    BY <2>1, <2>3
<1> QED
  BY <1>5, <1>6, <1>8, <1>9 DEF U, bb, aa, l

\* The stack, seen from its bottom.
Upwards(b, m, a) == b \o (m \o (a \o <<Indicator>>))

\* Both views of a stack, also when a part l of the lower ones is taken to the middle.
LEMMA LayeredUpwards ==
  ASSUME NEW S, NEW b, NEW l, NEW m, NEW a,
         b \in Seq(S), l \in Seq(S), m \in Seq(S), a \in Seq(S), Indicator \in S
  PROVE  Layered(b, m, a) = Upwards(b, m, a) /\ Upwards(b \o l, m, a) = Layered(b, l \o m, a)
<1> DEFINE v == a \o <<Indicator>>
           y == b \o l
<1>1. v \in Seq(S) /\ y \in Seq(S)
  BY OneLink, ConcatProperties
<1>2. Assoc(b, l, m)
  BY Associates
<1> HIDE DEF v, y
<1>3. Assoc(b, m, v)
  BY <1>1, Associates
<1>4. Assoc(y, m, v)
  BY <1>1, Associates
<1> QED
  BY <1>2, <1>3, <1>4 DEF Assoc, Layered, Upwards, v, y

\* wl_subsurface_place_below the bottom of the middle part makes e its new bottom.
LEMMA MovedBelow ==
  ASSUME SubsurfacesAssumption, NEW b \in Seq(Surfaces), NEW a \in Seq(Surfaces),
         NEW m \in Seq(Stackable), m # << >>, NEW st, st = Layered(b, m, a),
         NoRepeat(st), st \in Seq(Stackable),
         NEW e \in Surfaces, e \notin ToSet(m), NEW ref, ref = m[1]
  PROVE  /\ PlacedBelow(Placed(st, e), e, ref) = Layered(Without(b, e), <<e>> \o m, Without(a, e))
         /\ NoRepeat(PlacedBelow(Placed(st, e), e, ref))
         /\ PlacedBelow(Placed(st, e), e, ref) \in Seq(Stackable)
<1> DEFINE U == Stackable
           bb == Without(b, e)
           aa == Without(a, e)
           l == <<e>>
           v == aa \o <<Indicator>>
           x == m \o v
           w == Without(Placed(st, e), e)
<1>1. /\ bb \in Seq(U) /\ aa \in Seq(U) /\ e \in U /\ Indicator \in U
  <2>1. Surfaces \subseteq U /\ Indicator \in U
    BY DEF Stackable
  <2>2. bb \in Seq(Surfaces) /\ aa \in Seq(Surfaces)
    BY LayeredWithout
  <2> QED
    BY <2>1, <2>2, SeqMonotonic
<1>2. w = Layered(bb, m, aa) /\ NoRepeat(w) /\ e \notin ToSet(w)
  <2>1. w = Without(st, e)
    <3>1. e \in U
      BY <1>1
    <3> QED
      BY <3>1, PlacedWithout
  <2>2. /\ Without(st, e) = Layered(bb, m, aa) /\ NoRepeat(Layered(bb, m, aa))
        /\ e \notin ToSet(Layered(bb, m, aa))
    <3> HIDE DEF w
    <3> QED
      BY LayeredWithout
  <2> QED
    BY <2>1, <2>2 DEF Layered
<1>3. m \in Seq(U) /\ v \in Seq(U) /\ l \in Seq(U) /\ x \in Seq(U)
  <2>1. <<Indicator>> \in Seq(U) /\ l \in Seq(U)
    BY <1>1, OneLink
  <2>2. m \in Seq(U)
    OBVIOUS
  <2>3. v \in Seq(U)
    BY <1>1, <2>1, ConcatProperties
  <2> HIDE DEF v
  <2> QED
    BY <2>1, <2>2, <2>3, ConcatProperties
<1>4. x # << >> /\ x[1] = ref
  <2>1. /\ Len(x) = Len(m) + Len(v) /\ Len(v) \in Nat /\ Len(m) \in Nat /\ Len(m) # 0
        /\ \A i \in 1 .. Len(m) + Len(v) : x[i] = IF i <= Len(m) THEN m[i] ELSE v[i - Len(m)]
    BY <1>3, ConcatProperties, LenProperties, EmptySeq
  <2>2. 1 \in 1 .. Len(m) + Len(v) /\ 1 <= Len(m) /\ Len(x) # 0
    BY <2>1
  <2>3. x[1] = m[1]
    BY <2>1, <2>2
  <2>4. x # << >>
    BY <2>2, EmptySeq
  <2> QED
    BY <2>3, <2>4
<1>5. PlacedBelow(Placed(st, e), e, ref) = InsertAt(w, IndexOf(w, ref), e)
  BY DEF PlacedBelow
<1> HIDE DEF U, v, w, bb, aa, l
<1>6. Layered(bb, m, aa) = bb \o x /\ (bb \o l) \o x = Layered(bb, l \o m, aa)
  <2>1. bb \in Seq(U) /\ l \in Seq(U) /\ m \in Seq(U) /\ aa \in Seq(U) /\ Indicator \in U
    BY <1>1, <1>3
  <2>2. Layered(bb, m, aa) = Upwards(bb, m, aa) /\ Upwards(bb \o l, m, aa) = Layered(bb, l \o m, aa)
    BY <2>1, LayeredUpwards
  <2> QED
    BY <2>2 DEF Upwards, v
<1> HIDE DEF x
<1>7. InsertAt(w, IndexOf(w, ref), e) = (bb \o l) \o x
  <2>1. NoRepeat(bb \o x)
    BY <1>2, <1>6
  <2>2. UnderFirst(bb, e, x)
    BY <1>1, <1>3, <1>4, <2>1, PlacedBetween
  <2> QED
    BY <1>2, <1>4, <1>6, <2>2, Zenon DEF UnderFirst, l
<1>8. (bb \o l) \o x = Layered(bb, l \o m, aa)
  BY <1>6
<1>10. NoRepeat((bb \o l) \o x) /\ (bb \o l) \o x \in Seq(U)
  <2>1. Around(bb, e, x) = (bb \o l) \o x
    BY DEF Around, l
  <2>2. /\ NoRepeat(bb) /\ NoRepeat(x) /\ ToSet(bb) \cap ToSet(x) = {}
        /\ e \notin ToSet(bb) \cup ToSet(x)
    BY <1>1, <1>2, <1>3, <1>6, Joined
  <2>3. NoRepeat(Around(bb, e, x)) /\ Around(bb, e, x) \in Seq(U)
    BY <1>1, <1>3, <2>2, JoinedAround
  <2> QED
    BY <2>1, <2>3
<1> QED
  BY <1>5, <1>7, <1>8, <1>10 DEF U, bb, aa, l

\* The stacks with a middle part in its final order, where only others of C
\* are still to be placed.
Settled(m, C) ==
  {st \in Seq(Stackable) : NoRepeat(st) /\
     \E b \in Seq(Surfaces), a \in Seq(Surfaces) :
       st = Layered(b, m, a) /\ ToSet(b) \cup ToSet(a) \subseteq C \ ToSet(m)}

\* One more subsurface over the middle part.
LEMMA SettledAbove ==
  ASSUME SubsurfacesAssumption, NEW m \in Seq(Stackable), m # << >>, NEW C, NEW st \in Settled(m, C),
         NEW e \in Surfaces, e \notin ToSet(m), NEW ref, ref = m[Len(m)]
  PROVE  PlacedAbove(Placed(st, e), e, ref) \in Settled(m \o <<e>>, C)
<1>1. PICK b \in Seq(Surfaces), a \in Seq(Surfaces) :
        st = Layered(b, m, a) /\ ToSet(b) \cup ToSet(a) \subseteq C \ ToSet(m)
  BY DEF Settled
<1>2. NoRepeat(st) /\ st \in Seq(Stackable)
  BY DEF Settled
<1> DEFINE p == PlacedAbove(Placed(st, e), e, ref)
           bb == Without(b, e)
           aa == Without(a, e)
<1>3. /\ bb \in Seq(Surfaces) /\ ToSet(bb) = ToSet(b) \ {e}
      /\ aa \in Seq(Surfaces) /\ ToSet(aa) = ToSet(a) \ {e}
  BY <1>1, <1>2, LayeredWithout
<1>4. p = Layered(bb, m \o <<e>>, aa) /\ NoRepeat(p) /\ p \in Seq(Stackable)
  BY <1>1, <1>2, MovedAbove
<1>5. ToSet(m \o <<e>>) = ToSet(m) \cup {e}
  <2> DEFINE l == <<e>>
  <2>1. e \in Stackable
    BY DEF Stackable
  <2>2. l \in Seq(Stackable) /\ ToSet(l) = {e}
    BY <2>1, OneLink
  <2> HIDE DEF l
  <2>3. ToSet(m \o l) = ToSet(m) \cup ToSet(l)
    BY <2>2, Joined
  <2> QED
    BY <2>2, <2>3 DEF l
<1>6. ToSet(bb) \cup ToSet(aa) \subseteq C \ ToSet(m \o <<e>>)
  BY <1>1, <1>3, <1>5
<1> HIDE DEF p, bb, aa
<1>7. p \in Settled(m \o <<e>>, C)
  BY <1>3, <1>4, <1>6 DEF Settled
<1> QED
  BY <1>7 DEF p

\* One more subsurface under the middle part.
LEMMA SettledBelow ==
  ASSUME SubsurfacesAssumption, NEW m \in Seq(Stackable), m # << >>, NEW C, NEW st \in Settled(m, C),
         NEW e \in Surfaces, e \notin ToSet(m), NEW ref, ref = m[1]
  PROVE  PlacedBelow(Placed(st, e), e, ref) \in Settled(<<e>> \o m, C)
<1>1. PICK b \in Seq(Surfaces), a \in Seq(Surfaces) :
        st = Layered(b, m, a) /\ ToSet(b) \cup ToSet(a) \subseteq C \ ToSet(m)
  BY DEF Settled
<1>2. NoRepeat(st) /\ st \in Seq(Stackable)
  BY DEF Settled
<1> DEFINE p == PlacedBelow(Placed(st, e), e, ref)
           bb == Without(b, e)
           aa == Without(a, e)
<1>3. /\ bb \in Seq(Surfaces) /\ ToSet(bb) = ToSet(b) \ {e}
      /\ aa \in Seq(Surfaces) /\ ToSet(aa) = ToSet(a) \ {e}
  BY <1>1, <1>2, LayeredWithout
<1>4. p = Layered(bb, <<e>> \o m, aa) /\ NoRepeat(p) /\ p \in Seq(Stackable)
  BY <1>1, <1>2, MovedBelow
<1>5. ToSet(<<e>> \o m) = ToSet(m) \cup {e}
  <2> DEFINE l == <<e>>
  <2>1. e \in Stackable
    BY DEF Stackable
  <2>2. l \in Seq(Stackable) /\ ToSet(l) = {e}
    BY <2>1, OneLink
  <2> HIDE DEF l
  <2>3. ToSet(l \o m) = ToSet(m) \cup ToSet(l)
    BY <2>2, Joined
  <2> QED
    BY <2>2, <2>3 DEF l
<1>6. ToSet(bb) \cup ToSet(aa) \subseteq C \ ToSet(<<e>> \o m)
  BY <1>1, <1>3, <1>5
<1> HIDE DEF p, bb, aa
<1>7. p \in Settled(<<e>> \o m, C)
  BY <1>3, <1>4, <1>6 DEF Settled
<1> QED
  BY <1>7 DEF p

\* The background and the first k upper subsurfaces.
Upper(l, k) == [i \in 1 .. k + 1 |-> IF i = 1 THEN Bg ELSE l[i - 1]]

\* The last k lower subsurfaces, under what is over them.
Lower(l, over, k) == [i \in 1 .. k + Len(over) |-> IF i <= k THEN l[Len(l) - k + i] ELSE over[i - k]]

\* A function of the positions is a list.
LEMMA FunctionIsSeq ==
  ASSUME NEW S, NEW n \in Nat, NEW f \in [1 .. n -> S]
  PROVE  f \in Seq(S) /\ Len(f) = n /\ DOMAIN f = 1 .. n
<1>1. f \in Seq(S)
  BY SeqDef
<1> QED
  BY <1>1, LenProperties

\* Each step of the walk over the upper subsurfaces adds one on top.
LEMMA UpperStep ==
  ASSUME SubsurfacesAssumption, NEW l \in Seq(Surfaces), NEW k \in 0 .. Len(l)
  PROVE  /\ Upper(l, k) \in Seq(Stackable) /\ Len(Upper(l, k)) = k + 1 /\ Upper(l, k) # << >>
         /\ ToSet(Upper(l, k)) = {Bg} \cup {l[i] : i \in 1 .. k}
         /\ Upper(l, k)[1] = Bg
         /\ k # Len(l) => /\ Upper(l, k + 1) = Upper(l, k) \o <<l[k + 1]>>
                          /\ Upper(l, k)[k + 1] = Before(l, k + 1)
<1> DEFINE m == Upper(l, k)
<1>1. Len(l) \in Nat /\ k \in Nat /\ \A i \in 1 .. Len(l) : l[i] \in Stackable
  BY LenProperties, ElementOfSeq DEF Stackable
<1>2. m \in Seq(Stackable) /\ Len(m) = k + 1
  <2>1. m \in [1 .. k + 1 -> Stackable]
    <3>1. Bg \in Stackable
      BY DEF Stackable
    <3> QED
      BY <1>1, <3>1 DEF Upper
  <2> HIDE DEF m
  <2> QED
    BY <1>1, <2>1, FunctionIsSeq
<1>3. \A i \in 1 .. k + 1 : m[i] = IF i = 1 THEN Bg ELSE l[i - 1]
  BY DEF Upper
<1>4. m # << >>
  BY <1>1, <1>2, EmptySeq
<1>5. ToSet(m) = {Bg} \cup {l[i] : i \in 1 .. k}
  <2>1. ToSet(m) = {m[i] : i \in 1 .. k + 1}
    BY <1>2, ListSet
  <2> HIDE DEF m
  <2>2. ASSUME NEW i \in 1 .. k + 1 PROVE m[i] \in {Bg} \cup {l[j] : j \in 1 .. k}
    <3>1. i # 1 => i - 1 \in 1 .. k
      BY <1>1
    <3> QED
      BY <1>3, <3>1
  <2>3. ASSUME NEW i \in 1 .. k PROVE l[i] \in {m[j] : j \in 1 .. k + 1}
    <3>1. i + 1 \in 1 .. k + 1 /\ i + 1 # 1 /\ (i + 1) - 1 = i
      BY <1>1
    <3>2. m[i + 1] = l[i]
      BY <1>3, <3>1
    <3> QED
      BY <3>1, <3>2
  <2>4. Bg \in {m[j] : j \in 1 .. k + 1}
    <3>1. 1 \in 1 .. k + 1 /\ m[1] = Bg
      BY <1>1, <1>3
    <3> QED
      BY <3>1
  <2> QED
    BY <2>1, <2>2, <2>3, <2>4
<1>6. m[1] = Bg
  BY <1>1, <1>3
<1>7. ASSUME k # Len(l) PROVE m[k + 1] = Before(l, k + 1)
  BY <1>1, <1>3 DEF Before
<1>8. ASSUME k # Len(l) PROVE Upper(l, k + 1) = m \o <<l[k + 1]>>
  <2> DEFINE e == l[k + 1]
             n == Upper(l, k + 1)
  <2>1. e \in Stackable /\ k + 1 \in 1 .. Len(l)
    BY <1>1, <1>8
  <2>2. n \in Seq(Stackable) /\ Len(n) = k + 2
    <3>1. n \in [1 .. k + 2 -> Stackable]
      <4>1. Bg \in Stackable
        BY DEF Stackable
      <4>2. n = [i \in 1 .. k + 2 |-> IF i = 1 THEN Bg ELSE l[i - 1]]
        BY <1>1 DEF Upper
      <4> QED
        BY <1>1, <2>1, <4>1, <4>2
    <3> HIDE DEF n
    <3> QED
      BY <1>1, <3>1, FunctionIsSeq
  <2>3. \A i \in 1 .. k + 2 : n[i] = IF i = 1 THEN Bg ELSE l[i - 1]
    BY <1>1 DEF Upper
  <2> HIDE DEF m, n, e
  <2> DEFINE c == m \o <<e>>
  <2>4. <<e>> \in Seq(Stackable) /\ Len(<<e>>) = 1 /\ <<e>>[1] = e
    BY <2>1, OneLink
  <2>5. /\ c \in Seq(Stackable) /\ Len(c) = k + 2
        /\ \A i \in 1 .. k + 2 : c[i] = IF i <= k + 1 THEN m[i] ELSE <<e>>[i - (k + 1)]
    <3>1. /\ c \in Seq(Stackable) /\ Len(c) = Len(m) + Len(<<e>>)
          /\ \A i \in 1 .. Len(m) + Len(<<e>>) : c[i] = IF i <= Len(m) THEN m[i] ELSE <<e>>[i - Len(m)]
      BY <1>2, <2>4, ConcatProperties
    <3>2. Len(m) + Len(<<e>>) = k + 2 /\ Len(m) = k + 1
      BY <1>1, <1>2, <2>4
    <3> QED
      BY <3>1, <3>2
  <2> HIDE DEF c
  <2>6. ASSUME NEW i \in 1 .. k + 2 PROVE n[i] = c[i]
    <3>1. CASE i <= k + 1
      <4>1. i \in 1 .. k + 1
        BY <1>1, <3>1
      <4> QED
        BY <1>3, <2>3, <2>5, <3>1, <4>1
    <3>2. CASE ~(i <= k + 1)
      <4>1. i = k + 2 /\ i - (k + 1) = 1 /\ i # 1 /\ i - 1 = k + 1
        BY <1>1, <3>2
      <4>2. c[i] = e
        BY <2>4, <2>5, <3>2, <4>1
      <4>3. n[i] = l[k + 1]
        BY <2>3, <4>1
      <4> QED
        BY <4>2, <4>3 DEF e
    <3> QED
      BY <3>1, <3>2
  <2>7. n = c
    BY <2>2, <2>5, <2>6, SeqEqual
  <2> QED
    BY <2>7 DEF n, c, e, m
<1> QED
  BY <1>2, <1>4, <1>5, <1>6, <1>7, <1>8

\* Each step of the walk over the lower subsurfaces adds one at the bottom.
LEMMA LowerStep ==
  ASSUME SubsurfacesAssumption, NEW l \in Seq(Surfaces), NEW over \in Seq(Stackable), over # << >>,
         NEW k \in 0 .. Len(l)
  PROVE  /\ Lower(l, over, k) \in Seq(Stackable) /\ Lower(l, over, k) # << >>
         /\ ToSet(Lower(l, over, k)) = ToSet(over) \cup {l[i] : i \in Len(l) - k + 1 .. Len(l)}
         /\ Lower(l, over, k)[1] = IF k = 0 THEN over[1] ELSE l[Len(l) - k + 1]
         /\ k # Len(l) => Lower(l, over, k + 1) = <<l[Len(l) - k]>> \o Lower(l, over, k)
<1> DEFINE m == Lower(l, over, k)
           N == Len(l)
           M == Len(over)
<1>1. /\ N \in Nat /\ k \in Nat /\ M \in Nat /\ M # 0 /\ k <= N
      /\ \A i \in 1 .. N : l[i] \in Stackable
      /\ \A i \in 1 .. M : over[i] \in Stackable
  BY LenProperties, ElementOfSeq, EmptySeq DEF Stackable
<1>2. m \in Seq(Stackable) /\ Len(m) = k + M
  <2>1. m \in [1 .. k + M -> Stackable]
    <3>1. ASSUME NEW i \in 1 .. k + M PROVE (IF i <= k THEN l[N - k + i] ELSE over[i - k]) \in Stackable
      <4>1. CASE i <= k
        <5>1. N - k + i \in 1 .. N
          BY <1>1, <4>1
        <5> QED
          BY <1>1, <4>1, <5>1
      <4>2. CASE ~(i <= k)
        <5>1. i - k \in 1 .. M
          BY <1>1, <4>2
        <5> QED
          BY <1>1, <4>2, <5>1
      <4> QED
        BY <4>1, <4>2
    <3> QED
      BY <3>1 DEF Lower
  <2>2. k + M \in Nat
    BY <1>1
  <2> HIDE DEF m
  <2> QED
    BY <2>1, <2>2, FunctionIsSeq
<1>3. \A i \in 1 .. k + M : m[i] = IF i <= k THEN l[N - k + i] ELSE over[i - k]
  BY DEF Lower
<1>4. m # << >>
  <2>1. Len(m) # 0
    BY <1>1, <1>2
  <2> QED
    BY <2>1, EmptySeq
<1>5. ToSet(m) = ToSet(over) \cup {l[i] : i \in N - k + 1 .. N}
  <2>1. ToSet(m) = {m[i] : i \in 1 .. k + M} /\ ToSet(over) = {over[i] : i \in 1 .. M}
    BY <1>2, ListSet
  <2> HIDE DEF m, N, M
  <2>2. ASSUME NEW i \in 1 .. k + M PROVE m[i] \in {over[j] : j \in 1 .. M} \cup {l[j] : j \in N - k + 1 .. N}
    <3>1. i <= k => N - k + i \in N - k + 1 .. N
      BY <1>1
    <3>2. ~(i <= k) => i - k \in 1 .. M
      BY <1>1
    <3> QED
      BY <1>3, <3>1, <3>2
  <2>3. ASSUME NEW i \in N - k + 1 .. N PROVE l[i] \in {m[j] : j \in 1 .. k + M}
    <3> DEFINE j == i - (N - k)
    <3>1. j \in 1 .. k + M /\ j <= k /\ N - k + j = i
      BY <1>1
    <3> HIDE DEF j
    <3>2. m[j] = l[i]
      BY <1>3, <3>1
    <3> QED
      BY <3>1, <3>2
  <2>4. ASSUME NEW i \in 1 .. M PROVE over[i] \in {m[j] : j \in 1 .. k + M}
    <3>1. k + i \in 1 .. k + M /\ ~(k + i <= k) /\ (k + i) - k = i
      BY <1>1
    <3>2. m[k + i] = over[i]
      BY <1>3, <3>1
    <3> QED
      BY <3>1, <3>2
  <2> QED
    BY <2>1, <2>2, <2>3, <2>4
<1>6. m[1] = IF k = 0 THEN over[1] ELSE l[N - k + 1]
  <2>1. 1 \in 1 .. k + M /\ (1 <= k <=> k # 0) /\ (k = 0 => 1 - k = 1)
    BY <1>1
  <2> HIDE DEF m, N, M
  <2> QED
    BY <1>3, <2>1
<1>7. ASSUME k # N PROVE Lower(l, over, k + 1) = <<l[N - k]>> \o m
  <2> DEFINE e == l[N - k]
             n == Lower(l, over, k + 1)
             t == <<e>>
             c == t \o m
  <2>1. N - k \in 1 .. N /\ e \in Stackable
    <3>1. N - k \in 1 .. N
      BY <1>1, <1>7
    <3> QED
      BY <1>1, <3>1
  <2>2. \A i \in 1 .. (k + 1) + M : n[i] = IF i <= k + 1 THEN l[N - (k + 1) + i] ELSE over[i - (k + 1)]
    BY DEF Lower
  <2>3. t \in Seq(Stackable) /\ Len(t) = 1 /\ t[1] = e
    BY <2>1, OneLink
  <2>4. n = [i \in 1 .. (k + 1) + M |-> n[i]]
    BY DEF Lower
  <2> HIDE DEF m, n, e, t
  <2>5. /\ c \in Seq(Stackable) /\ Len(c) = (k + 1) + M
        /\ \A i \in 1 .. (k + 1) + M : c[i] = IF i <= 1 THEN t[i] ELSE m[i - 1]
    <3>0. c = t \o m /\ m \in Seq(Stackable) /\ t \in Seq(Stackable)
      BY <1>2, <2>3
    <3> HIDE DEF c
    <3>1. /\ c \in Seq(Stackable) /\ Len(c) = Len(t) + Len(m)
          /\ \A i \in 1 .. Len(t) + Len(m) : c[i] = IF i <= Len(t) THEN t[i] ELSE m[i - Len(t)]
      <4>1. c \in Seq(Stackable) /\ IsJoint(c, t, m)
        BY <3>0, JoinedAt
      <4> QED
        BY <4>1 DEF IsJoint
    <3>2. Len(t) + Len(m) = (k + 1) + M /\ Len(t) = 1
      BY <1>1, <1>2, <2>3
    <3> QED
      BY <3>1, <3>2
  <2> HIDE DEF c, N, M
  <2>6. ASSUME NEW i \in 1 .. (k + 1) + M PROVE n[i] = c[i]
    <3>1. CASE i = 1
      <4>1. i <= k + 1 /\ N - (k + 1) + i = N - k /\ i <= 1
        BY <1>1, <3>1
      <4>2. c[i] = t[1]
        BY <2>5, <3>1, <4>1
      <4>3. n[i] = l[N - k]
        BY <2>2, <4>1
      <4> QED
        BY <2>3, <4>2, <4>3 DEF e
    <3>2. CASE i # 1
      <4>1. /\ i - 1 \in 1 .. k + M /\ ~(i <= 1) /\ (i - 1 <= k <=> i <= k + 1)
            /\ N - k + (i - 1) = N - (k + 1) + i /\ (i - 1) - k = i - (k + 1)
        BY <1>1, <3>2
      <4>2. c[i] = m[i - 1]
        BY <2>5, <4>1
      <4>3. m[i - 1] = IF i - 1 <= k THEN l[N - k + (i - 1)] ELSE over[(i - 1) - k]
        BY <1>3, <4>1
      <4>4. n[i] = IF i <= k + 1 THEN l[N - (k + 1) + i] ELSE over[i - (k + 1)]
        BY <2>2
      <4> QED
        BY <4>1, <4>2, <4>3, <4>4
    <3> QED
      BY <3>1, <3>2
  <2>7. c \in [1 .. (k + 1) + M -> Stackable]
    BY <2>5, LenProperties
  <2>8. n = c
    BY <2>4, <2>6, <2>7
  <2> QED
    BY <2>8 DEF n, c, e, m, N, t
<1> QED
  BY <1>2, <1>4, <1>5, <1>6, <1>7

\* The upper subsurfaces, placed one over the other over the background.
LEMMA StackedAbove ==
  ASSUME SubsurfacesAssumption, NEW l \in Seq(Surfaces), NoRepeat(l), NEW C, NEW st \in Settled(<<Bg>>, C)
  PROVE  StackAbove(st, l) \in Settled(<<Bg>> \o l, C)
<1> DEFINE N == Len(l)
           X == Seq(Stackable)
           V(k, x) == PlacedAbove(Placed(x, l[k]), l[k], Before(l, k))
           Walk(f) == [k \in 0 .. N |-> IF k = 0 THEN st ELSE V(k, f[k - 1])]
           Q(k) == Settled(Upper(l, k), C)
           g == CHOOSE f : f = Walk(f)
<1>1. N \in Nat /\ \A i \in 1 .. N : l[i] \in Surfaces
  BY LenProperties, ElementOfSeq
<1>2. st \in Q(0)
  <2>1. Upper(l, 0) = <<Bg>>
    <3>1. Bg \in Stackable
      BY DEF Stackable
    <3>2. 0 \in 0 .. Len(l)
      BY <1>1
    <3>3. Upper(l, 0) \in Seq(Stackable) /\ Len(Upper(l, 0)) = 1 /\ Upper(l, 0)[1] = Bg
      <4>1. Upper(l, 0) \in Seq(Stackable) /\ Len(Upper(l, 0)) = 0 + 1 /\ Upper(l, 0)[1] = Bg
        BY <3>2, UpperStep, Zenon
      <4> QED
        BY <4>1
    <3>4. <<Bg>> \in Seq(Stackable) /\ Len(<<Bg>>) = 1 /\ <<Bg>>[1] = Bg
      BY <3>1, OneLink
    <3>5. \A i \in 1 .. 1 : Upper(l, 0)[i] = <<Bg>>[i]
      BY <3>3, <3>4
    <3> QED
      BY <3>3, <3>4, <3>5, SeqEqual
  <2> QED
    BY <2>1
<1>3. ASSUME NEW k \in 1 .. N, NEW x \in Q(k - 1) PROVE V(k, x) \in Q(k)
  <2> DEFINE m == Upper(l, k - 1)
             e == l[k]
  <2>1. k - 1 \in 0 .. Len(l) /\ k - 1 # Len(l) /\ (k - 1) + 1 = k /\ e \in Surfaces
    BY <1>1
  <2>2. /\ m \in Seq(Stackable) /\ Len(m) = k /\ m # << >>
        /\ ToSet(m) = {Bg} \cup {l[i] : i \in 1 .. k - 1}
        /\ Upper(l, k) = m \o <<e>> /\ m[k] = Before(l, k)
    BY <2>1, UpperStep
  <2>3. e \notin ToSet(m)
    <3>1. e # Bg
      BY <2>1 DEF SubsurfacesAssumption
    <3>2. \A i \in 1 .. k - 1 : i \in 1 .. N /\ i # k
      BY <1>1
    <3>3. \A i, j \in 1 .. N : l[i] = l[j] => i = j
      BY ListSet
    <3> QED
      BY <2>2, <3>1, <3>2, <3>3
  <2>4. x \in Settled(m, C)
    OBVIOUS
  <2>5. Before(l, k) = m[Len(m)]
    BY <2>2
  <2> HIDE DEF m, e
  <2>6. PlacedAbove(Placed(x, e), e, Before(l, k)) \in Settled(m \o <<e>>, C)
    BY <2>1, <2>2, <2>3, <2>4, <2>5, SettledAbove
  <2> QED
    BY <2>2, <2>6 DEF e
<1>4. \A k \in 0 .. N : Q(k) \subseteq X
  BY DEF Settled
<1>5. StackAbove(st, l) = g[N]
  BY DEF StackAbove
<1> HIDE DEF V, Q, X
<1>6. \E f : f = Walk(f)
  <2> DEFINE step == [k \in 1 .. N |-> [x \in X |-> IF V(k, x) \in X THEN V(k, x) ELSE x]]
  <2>1. step \in Steps(N, X) /\ st \in X /\ N \in Nat
    BY <1>1, <1>2, <1>4 DEF Steps
  <2> HIDE DEF step, N
  <2>0. PICK f : Follows(f, N, X, st, step)
    BY <2>1, StepsExist
  <2>2. f \in [0 .. N -> X] /\ f[0] = st /\ \A k \in 1 .. N : f[k] = step[k][f[k - 1]]
    BY <2>0 DEF Follows
  <2>3. \A k \in 1 .. N, x \in X : step[k][x] = IF V(k, x) \in X THEN V(k, x) ELSE x
    BY DEF step
  <2> DEFINE T == {k \in 0 .. N : f[k] \in Q(k)}
  <2>4. 0 \in T
    BY <1>2, <2>1, <2>2
  <2>5. \A k \in 1 .. N : k - 1 \in T => f[k] = V(k, f[k - 1]) /\ k \in T
    <3> SUFFICES ASSUME NEW k \in 1 .. N, k - 1 \in T PROVE f[k] = V(k, f[k - 1]) /\ k \in T
      OBVIOUS
    <3>1. k - 1 \in 0 .. N /\ f[k - 1] \in X /\ k \in 0 .. N
      BY <2>1, <2>2
    <3>2. V(k, f[k - 1]) \in Q(k)
      BY <1>3
    <3>3. V(k, f[k - 1]) \in X
      BY <1>4, <3>1, <3>2
    <3>4. f[k] = V(k, f[k - 1])
      BY <2>2, <2>3, <3>1, <3>3
    <3> QED
      BY <3>1, <3>2, <3>4
  <2>6. 0 .. N \subseteq T
    <3> HIDE DEF T
    <3> QED
      BY <2>1, <2>4, <2>5, UpTo
  <2>7. \A k \in 0 .. N : f[k] = IF k = 0 THEN st ELSE V(k, f[k - 1])
    <3> SUFFICES ASSUME NEW k \in 0 .. N, k # 0 PROVE f[k] = V(k, f[k - 1])
      BY <2>2
    <3>1. k \in 1 .. N /\ k - 1 \in 0 .. N
      BY <2>1
    <3> HIDE DEF T
    <3> QED
      BY <2>5, <2>6, <3>1
  <2>8. f = Walk(f)
    BY <2>2, <2>7
  <2> HIDE DEF Walk
  <2> QED
    BY <2>8
<1>7. g = Walk(g)
  <2> HIDE DEF Walk
  <2> QED
    BY <1>6
<1>8. \A k \in 0 .. N : g[k] = IF k = 0 THEN st ELSE V(k, g[k - 1])
  <2> HIDE DEF g
  <2> QED
    BY <1>7
<1> HIDE DEF g, N, Walk
<1> DEFINE T == {k \in 0 .. N : g[k] \in Q(k)}
<1>9. 0 \in T
  BY <1>1, <1>2, <1>8
<1>10. \A k \in 1 .. N : k - 1 \in T => k \in T
  <2> SUFFICES ASSUME NEW k \in 1 .. N, k - 1 \in T PROVE k \in T
    OBVIOUS
  <2>1. k \in 0 .. N /\ k # 0
    BY <1>1
  <2>2. V(k, g[k - 1]) \in Q(k)
    BY <1>3
  <2> QED
    BY <1>8, <2>1, <2>2
<1>11. g[N] \in Q(N)
  <2>1. 0 .. N \subseteq T
    <3> HIDE DEF T
    <3> QED
      BY <1>1, <1>9, <1>10, UpTo
  <2>2. N \in 0 .. N
    BY <1>1
  <2> QED
    BY <2>1, <2>2
<1>12. Upper(l, N) = <<Bg>> \o l
  <2> DEFINE t == <<Bg>>
             c == t \o l
  <2>1. N \in 0 .. Len(l) /\ N = Len(l)
    BY <1>1 DEF N
  <2>2. Upper(l, N) \in Seq(Stackable) /\ Len(Upper(l, N)) = N + 1
    BY <2>1, UpperStep
  <2>3. \A i \in 1 .. N + 1 : Upper(l, N)[i] = IF i = 1 THEN Bg ELSE l[i - 1]
    BY DEF Upper
  <2>4. t \in Seq(Stackable) /\ Len(t) = 1 /\ t[1] = Bg
    <3>1. Bg \in Stackable
      BY DEF Stackable
    <3> QED
      BY <3>1, OneLink
  <2>5. l \in Seq(Stackable)
    <3>1. Surfaces \subseteq Stackable
      BY DEF Stackable
    <3> QED
      BY <3>1, SeqMonotonic
  <2>6. c = t \o l
    OBVIOUS
  <2> HIDE DEF t, c
  <2>7. /\ c \in Seq(Stackable) /\ Len(c) = N + 1
        /\ \A i \in 1 .. N + 1 : c[i] = IF i <= 1 THEN t[i] ELSE l[i - 1]
    <3>0. t \in Seq(Stackable)
      BY <2>4
    <3>1. /\ c \in Seq(Stackable) /\ Len(c) = Len(t) + Len(l)
          /\ \A i \in 1 .. Len(t) + Len(l) : c[i] = IF i <= Len(t) THEN t[i] ELSE l[i - Len(t)]
      <4>1. c \in Seq(Stackable) /\ IsJoint(c, t, l)
        BY <2>5, <2>6, <3>0, JoinedAt
      <4> QED
        BY <4>1 DEF IsJoint
    <3>2. Len(t) + Len(l) = N + 1 /\ Len(t) = 1
      BY <1>1, <2>1, <2>4
    <3> QED
      BY <3>1, <3>2
  <2>8. \A i \in 1 .. N + 1 : (i <= 1 <=> i = 1)
    BY <1>1
  <2>9. \A i \in 1 .. N + 1 : Upper(l, N)[i] = c[i]
    BY <2>3, <2>4, <2>7, <2>8
  <2>10. Upper(l, N) = c
    BY <2>2, <2>7, <2>9, SeqEqual
  <2> QED
    BY <2>10 DEF t, c
<1> QED
  BY <1>5, <1>11, <1>12 DEF Q

\* The lower subsurfaces, placed one under the other under the background.
LEMMA StackedUnder ==
  ASSUME SubsurfacesAssumption, NEW l \in Seq(Surfaces), NoRepeat(l),
         NEW over \in Seq(Stackable), over # << >>, over[1] = Bg, ToSet(l) \cap ToSet(over) = {},
         NEW C, NEW st \in Settled(over, C)
  PROVE  StackBelow(st, l) \in Settled(l \o over, C)
<1> DEFINE N == Len(l)
           M == Len(over)
           X == Seq(Stackable)
           r == Reverse(l)
           V(k, x) == PlacedBelow(Placed(x, r[k]), r[k], Before(r, k))
           Walk(f) == [k \in 0 .. N |-> IF k = 0 THEN st ELSE V(k, f[k - 1])]
           Q(k) == Settled(Lower(l, over, k), C)
           g == CHOOSE f : f = Walk(f)
<1>1. N \in Nat /\ M \in Nat /\ \A i \in 1 .. N : l[i] \in Surfaces
  BY LenProperties, ElementOfSeq
<1>0. Len(r) = N /\ \A k \in 1 .. N : r[k] = l[N - k + 1]
  <2>1. r \in [1 .. N -> Surfaces]
    <3>1. \A k \in 1 .. N : (N - k) + 1 \in 1 .. N
      BY <1>1
    <3> QED
      BY <1>1, <3>1 DEF Reverse
  <2>2. Len(r) = N
    <3> HIDE DEF r, N
    <3> QED
      BY <1>1, <2>1, FunctionIsSeq
  <2> QED
    BY <2>2 DEF Reverse
<1>2. st \in Q(0)
  <2> DEFINE m == Lower(l, over, 0)
  <2>1. m = [i \in 1 .. 0 + M |-> IF i <= 0 THEN l[N - 0 + i] ELSE over[i - 0]]
    BY DEF Lower
  <2>2. m = [i \in 1 .. M |-> over[i]]
    <3>1. 0 + M = M /\ \A i \in 1 .. M : ~(i <= 0) /\ i - 0 = i
      BY <1>1
    <3> HIDE DEF m, M, N
    <3> QED
      BY <2>1, <3>1
  <2>3. over = [i \in 1 .. M |-> over[i]]
    <3>1. over \in [1 .. M -> Stackable]
      BY LenProperties
    <3> QED
      BY <3>1
  <2> QED
    BY <2>2, <2>3
<1>3. ASSUME NEW k \in 1 .. N, NEW x \in Q(k - 1) PROVE V(k, x) \in Q(k)
  <2> DEFINE m == Lower(l, over, k - 1)
             e == r[k]
  <2>1. /\ k - 1 \in 0 .. Len(l) /\ k - 1 # Len(l) /\ (k - 1) + 1 = k
        /\ e = l[N - (k - 1)] /\ N - (k - 1) = N - k + 1 /\ N - k + 1 \in 1 .. N
    BY <1>0, <1>1
  <2>2. e \in Surfaces
    BY <1>1, <2>1
  <2>3. /\ m \in Seq(Stackable) /\ m # << >>
        /\ ToSet(m) = ToSet(over) \cup {l[i] : i \in N - (k - 1) + 1 .. N}
        /\ m[1] = IF k - 1 = 0 THEN over[1] ELSE l[N - (k - 1) + 1]
    BY <2>1, LowerStep
  <2>4. Lower(l, over, k) = <<e>> \o m
    <3>1. Lower(l, over, (k - 1) + 1) = <<l[N - (k - 1)]>> \o m
      BY <2>1, LowerStep
    <3> QED
      BY <2>1, <3>1
  <2>5. Before(r, k) = m[1]
    <3>1. CASE k = 1
      BY <2>3, <3>1 DEF Before
    <3>2. CASE k # 1
      <4>1. k - 1 \in 1 .. N /\ N - (k - 1) + 1 = N - (k - 1) + 1 /\ k - 1 # 0
        BY <3>2
      <4>2. r[k - 1] = l[N - (k - 1) + 1]
        BY <1>0, <4>1
      <4> QED
        BY <2>3, <3>2, <4>1, <4>2 DEF Before
    <3> QED
      BY <3>1, <3>2
  <2>6. e \notin ToSet(m)
    <3>1. ToSet(l) = {l[i] : i \in 1 .. N} /\ \A i, j \in 1 .. N : l[i] = l[j] => i = j
      BY ListSet
    <3>2. \A i \in N - (k - 1) + 1 .. N : i \in 1 .. N /\ i # N - k + 1
      BY <1>1
    <3>3. e = l[N - k + 1] /\ N - k + 1 \in 1 .. N
      BY <2>1
    <3>4. e \in ToSet(l)
      BY <3>1, <3>3
    <3>5. e \notin {l[i] : i \in N - (k - 1) + 1 .. N}
      <4> HIDE DEF e, N
      <4> QED
        BY <3>1, <3>2, <3>3
    <3> QED
      BY <2>3, <3>4, <3>5
  <2>7. x \in Settled(m, C)
    OBVIOUS
  <2> HIDE DEF m, e, N, r
  <2>8. PlacedBelow(Placed(x, e), e, Before(r, k)) \in Settled(<<e>> \o m, C)
    BY <2>2, <2>3, <2>5, <2>6, <2>7, SettledBelow
  <2> QED
    BY <2>4, <2>8 DEF e
<1>4. \A k \in 0 .. N : Q(k) \subseteq X
  BY DEF Settled
<1>5. StackBelow(st, l) = g[N]
  BY <1>0 DEF StackBelow, StackedBelow
<1> HIDE DEF V, Q, X, r
<1>6. \E f : f = Walk(f)
  <2> DEFINE step == [k \in 1 .. N |-> [x \in X |-> IF V(k, x) \in X THEN V(k, x) ELSE x]]
  <2>1. step \in Steps(N, X) /\ st \in X /\ N \in Nat
    BY <1>1, <1>2, <1>4 DEF Steps
  <2> HIDE DEF step, N
  <2>0. PICK f : Follows(f, N, X, st, step)
    BY <2>1, StepsExist
  <2>2. f \in [0 .. N -> X] /\ f[0] = st /\ \A k \in 1 .. N : f[k] = step[k][f[k - 1]]
    BY <2>0 DEF Follows
  <2>3. \A k \in 1 .. N, x \in X : step[k][x] = IF V(k, x) \in X THEN V(k, x) ELSE x
    BY DEF step
  <2> DEFINE T == {k \in 0 .. N : f[k] \in Q(k)}
  <2>4. 0 \in T
    BY <1>2, <2>1, <2>2
  <2>5. \A k \in 1 .. N : k - 1 \in T => f[k] = V(k, f[k - 1]) /\ k \in T
    <3> SUFFICES ASSUME NEW k \in 1 .. N, k - 1 \in T PROVE f[k] = V(k, f[k - 1]) /\ k \in T
      OBVIOUS
    <3>1. k - 1 \in 0 .. N /\ f[k - 1] \in X /\ k \in 0 .. N
      BY <2>1, <2>2
    <3>2. V(k, f[k - 1]) \in Q(k)
      BY <1>3
    <3>3. V(k, f[k - 1]) \in X
      BY <1>4, <3>1, <3>2
    <3>4. f[k] = V(k, f[k - 1])
      BY <2>2, <2>3, <3>1, <3>3
    <3> QED
      BY <3>1, <3>2, <3>4
  <2>6. 0 .. N \subseteq T
    <3> HIDE DEF T
    <3> QED
      BY <2>1, <2>4, <2>5, UpTo
  <2>7. \A k \in 0 .. N : f[k] = IF k = 0 THEN st ELSE V(k, f[k - 1])
    <3> SUFFICES ASSUME NEW k \in 0 .. N, k # 0 PROVE f[k] = V(k, f[k - 1])
      BY <2>2
    <3>1. k \in 1 .. N /\ k - 1 \in 0 .. N
      BY <2>1
    <3> HIDE DEF T
    <3> QED
      BY <2>5, <2>6, <3>1
  <2>8. f = Walk(f)
    BY <2>2, <2>7
  <2> HIDE DEF Walk
  <2> QED
    BY <2>8
<1>7. g = Walk(g)
  <2> HIDE DEF Walk
  <2> QED
    BY <1>6
<1>8. \A k \in 0 .. N : g[k] = IF k = 0 THEN st ELSE V(k, g[k - 1])
  <2> HIDE DEF g
  <2> QED
    BY <1>7
<1> HIDE DEF g, N, Walk
<1> DEFINE T == {k \in 0 .. N : g[k] \in Q(k)}
<1>9. 0 \in T
  BY <1>1, <1>2, <1>8
<1>10. \A k \in 1 .. N : k - 1 \in T => k \in T
  <2> SUFFICES ASSUME NEW k \in 1 .. N, k - 1 \in T PROVE k \in T
    OBVIOUS
  <2>1. k \in 0 .. N /\ k # 0
    BY <1>1
  <2>2. V(k, g[k - 1]) \in Q(k)
    BY <1>3
  <2> QED
    BY <1>8, <2>1, <2>2
<1>11. g[N] \in Q(N)
  <2>1. 0 .. N \subseteq T
    <3> HIDE DEF T
    <3> QED
      BY <1>1, <1>9, <1>10, UpTo
  <2>2. N \in 0 .. N
    BY <1>1
  <2> QED
    BY <2>1, <2>2
<1>12. Lower(l, over, N) = l \o over
  <2> DEFINE m == Lower(l, over, N)
             c == l \o over
  <2>0. N = Len(l)
    BY DEF N
  <2>1. \A i \in 1 .. N + M : m[i] = IF i <= N THEN l[Len(l) - N + i] ELSE over[i - N]
    BY DEF Lower
  <2>2. m = [i \in 1 .. N + M |-> m[i]]
    BY DEF Lower
  <2>3. l \in Seq(Stackable)
    <3>1. Surfaces \subseteq Stackable
      BY DEF Stackable
    <3> QED
      BY <3>1, SeqMonotonic
  <2>4. /\ c \in Seq(Stackable) /\ Len(c) = N + M
        /\ \A i \in 1 .. N + M : c[i] = IF i <= N THEN l[i] ELSE over[i - N]
    BY <2>0, <2>3, ConcatProperties
  <2> HIDE DEF m, c, M
  <2>5. c \in [1 .. N + M -> Stackable]
    BY <2>4, LenProperties
  <2>6. \A i \in 1 .. N + M : Len(l) - N + i = i
    BY <1>1, <2>0
  <2>7. \A i \in 1 .. N + M : m[i] = c[i]
    BY <2>1, <2>4, <2>6
  <2>8. m = c
    BY <2>2, <2>5, <2>7
  <2> QED
    BY <2>8 DEF m, c
<1> QED
  BY <1>5, <1>11, <1>12 DEF Q

\* The children of the background surface, bottom to top.
Shown(b, a) == b \o <<Bg>> \o a \o <<Indicator>>

\* The stack after a commit, parted around the background.
LEMMA LayeredStack ==
  ASSUME NEW S, NEW b, NEW a, b \in Seq(S), a \in Seq(S), Bg \in S, Indicator \in S
  PROVE  Shown(b, a) = Layered(b, <<Bg>>, a)
<1> DEFINE h == b \o <<Bg>>
           t == <<Indicator>>
<1>1. h \in Seq(S) /\ t \in Seq(S)
  BY OneLink, ConcatProperties
<1> HIDE DEF h, t
<1>2. Assoc(h, a, t)
  BY <1>1, Associates
<1> QED
  BY <1>2 DEF Assoc, h, t, Layered, Shown

\* The same with the indicator set apart.
LEMMA AroundBackground ==
  ASSUME NEW S, NEW b, NEW a, b \in Seq(S), a \in Seq(S), Bg \in S, Indicator \in S
  PROVE  Shown(b, a) = (b \o (<<Bg>> \o a)) \o <<Indicator>>
<1> DEFINE g == <<Bg>>
<1>1. g \in Seq(S)
  BY OneLink
<1> HIDE DEF g
<1>2. Assoc(b, g, a)
  BY <1>1, Associates
<1> QED
  BY <1>2 DEF Assoc, g, Shown

\* A commit repeats the pending order upstream, whatever order was there.
LEMMA Restacked ==
  ASSUME SubsurfacesAssumption, NEW l \in Seq(Surfaces), NEW k \in Seq(Surfaces),
         NoRepeat(l), NoRepeat(k), ToSet(l) \cap ToSet(k) = {},
         NEW b \in Seq(Surfaces), NEW a \in Seq(Surfaces), NEW st, st = Shown(b, a), NoRepeat(st),
         ToSet(b) \cup ToSet(a) \subseteq ToSet(l) \cup ToSet(k),
         NEW new, new = StackBelow(StackAbove(st, l), k)
  PROVE  /\ new = Shown(k, l) /\ new \in Seq(Stackable) /\ NoRepeat(new)
         /\ ToSet(new) = ToSet(k) \cup ToSet(l) \cup {Bg, Indicator}
<1> DEFINE U == Stackable
           C == ToSet(l) \cup ToSet(k)
           g == <<Bg>>
           over == g \o l
           m == k \o over
<1>1. /\ l \in Seq(U) /\ k \in Seq(U) /\ b \in Seq(U) /\ a \in Seq(U) /\ Bg \in U /\ Indicator \in U
      /\ Bg \notin Surfaces /\ ToSet(l) \subseteq Surfaces /\ ToSet(k) \subseteq Surfaces
  <2>1. Surfaces \subseteq U /\ Bg \in U /\ Indicator \in U
    BY DEF Stackable
  <2>2. Bg \notin Surfaces
    BY DEF SubsurfacesAssumption
  <2>3. ToSet(l) \subseteq Surfaces /\ ToSet(k) \subseteq Surfaces
    BY ListSet
  <2> QED
    BY <2>1, <2>2, <2>3, SeqMonotonic
<1>2. g \in Seq(U) /\ Len(g) = 1 /\ g[1] = Bg /\ ToSet(g) = {Bg} /\ NoRepeat(g)
  BY <1>1, OneLink
<1>3. st \in Settled(g, C)
  <2>1. st = Layered(b, g, a)
    BY <1>1, LayeredStack
  <2>2. st \in Seq(U)
    <3> DEFINE t == <<Indicator>>
               p == b \o g
               q == a \o t
    <3>1. t \in Seq(U)
      BY <1>1, OneLink
    <3> HIDE DEF t, g
    <3>2. p \in Seq(U) /\ q \in Seq(U)
      BY <1>1, <1>2, <3>1, ConcatProperties
    <3> HIDE DEF p, q
    <3>3. p \o q \in Seq(U)
      BY <3>2, ConcatProperties
    <3> QED
      BY <2>1, <3>3 DEF Layered, p, q, t
  <2>3. ToSet(b) \cup ToSet(a) \subseteq C \ ToSet(g)
    BY <1>1, <1>2
  <2> HIDE DEF g, C
  <2> QED
    BY <2>1, <2>2, <2>3 DEF Settled
<1>4. StackAbove(st, l) \in Settled(over, C)
  BY <1>3, StackedAbove
<1> HIDE DEF g
<1>5. over \in Seq(U) /\ ToSet(over) = {Bg} \cup ToSet(l) /\ over # << >> /\ over[1] = Bg
  <2>1. /\ over \in Seq(U) /\ Len(over) = 1 + Len(l) /\ Len(l) \in Nat
        /\ \A i \in 1 .. 1 + Len(l) : over[i] = IF i <= 1 THEN g[i] ELSE l[i - 1]
    <3>1. /\ over \in Seq(U) /\ Len(over) = Len(g) + Len(l) /\ Len(l) \in Nat
          /\ \A i \in 1 .. Len(g) + Len(l) : over[i] = IF i <= Len(g) THEN g[i] ELSE l[i - Len(g)]
      <4>1. g \in Seq(U) /\ l \in Seq(U)
        BY <1>1, <1>2
      <4> HIDE DEF U
      <4>2. Len(l) \in Nat
        BY <4>1, LenProperties
      <4>3. over \in Seq(U) /\ Len(over) = Len(g) + Len(l)
        BY <4>1, ConcatProperties
      <4>4. \A i \in 1 .. Len(g) + Len(l) : over[i] = IF i <= Len(g) THEN g[i] ELSE l[i - Len(g)]
        BY <4>1, ConcatProperties
      <4> QED
        BY <4>2, <4>3, <4>4
    <3> HIDE DEF over
    <3> QED
      BY <1>2, <3>1
  <2>2. over[1] = Bg
    <3>1. 1 \in 1 .. 1 + Len(l) /\ 1 <= 1
      BY <2>1
    <3> HIDE DEF over
    <3> QED
      BY <1>2, <2>1, <3>1
  <2>3. over # << >>
    <3>1. Len(over) # 0
      BY <2>1
    <3> HIDE DEF over
    <3> QED
      BY <3>1, EmptySeq
  <2>4. ToSet(over) = ToSet(g) \cup ToSet(l)
    BY <1>1, <1>2, Joined
  <2> QED
    BY <1>2, <2>1, <2>2, <2>3, <2>4
<1>6. new \in Settled(m, C)
  <2>1. ToSet(k) \cap ToSet(over) = {}
    BY <1>1, <1>5
  <2> HIDE DEF over, C
  <2>2. StackBelow(StackAbove(st, l), k) \in Settled(k \o over, C)
    BY <1>4, <1>5, <2>1, StackedUnder
  <2> QED
    BY <2>2
<1>7. m \in Seq(U) /\ ToSet(m) = ToSet(k) \cup ToSet(l) \cup {Bg}
  <2> HIDE DEF over
  <2>1. m \in Seq(U) /\ ToSet(m) = ToSet(k) \cup ToSet(over)
    BY <1>1, <1>5, Joined
  <2> QED
    BY <1>5, <2>1
<1> HIDE DEF m
<1>8. PICK bb \in Seq(Surfaces), aa \in Seq(Surfaces) :
        new = Layered(bb, m, aa) /\ ToSet(bb) \cup ToSet(aa) \subseteq C \ ToSet(m)
  BY <1>6 DEF Settled
<1>9. NoRepeat(new) /\ new \in Seq(U)
  BY <1>6 DEF Settled
<1>10. bb = << >> /\ aa = << >>
  <2>1. ToSet(bb) = {} /\ ToSet(aa) = {}
    BY <1>7, <1>8
  <2> QED
    BY <2>1, ListSet
<1> DEFINE t == <<Indicator>>
<1>11. new = m \o t /\ t \in Seq(U) /\ ToSet(t) = {Indicator}
  <2>1. t \in Seq(U) /\ ToSet(t) = {Indicator}
    BY <1>1, OneLink
  <2>2. << >> \o m = m
    BY <1>7, ConcatEmptySeq
  <2>3. << >> \o t = t
    BY <2>1, ConcatEmptySeq
  <2> QED
    BY <1>8, <1>10, <2>1, <2>2, <2>3 DEF Layered
<1>13. new = Shown(k, l)
  <2>1. Shown(k, l) = (k \o (<<Bg>> \o l)) \o <<Indicator>>
    BY <1>1, AroundBackground
  <2> QED
    BY <1>11, <2>1 DEF m, g
<1>14. ToSet(new) = ToSet(k) \cup ToSet(l) \cup {Bg, Indicator}
  <2> HIDE DEF t
  <2>1. ToSet(m \o t) = ToSet(m) \cup ToSet(t)
    BY <1>7, <1>11, Joined
  <2> QED
    BY <1>7, <1>11, <2>1
<1> QED
  BY <1>9, <1>13, <1>14

-----------------------------------------------------------------------------
(* The tree of surfaces *)

\* No surface descends from itself.
Grounded == \A T \in SUBSET Surfaces : T # {} => \E s \in T : parent[s] \notin T

\* The tree: the layer surface has no parent, and what has a parent or a
\* wl_subsurface is allocated.
TreeInv ==
  /\ parent \in [Surfaces -> Surfaces \cup {NULL}] /\ parent[Layer] = NULL
  /\ handle \in [Surfaces -> {"none", "live", "freed"}]
  /\ \A s \in Surfaces : parent[s] # NULL \/ handle[s] # "none" => s \in alive
  /\ Grounded

\* The walk of subcompositor_get_subsurface, step by step.
LEMMA RootSteps ==
  ASSUME SubsurfacesAssumption, TreeInv, NEW N, N = Cardinality(Surfaces)
  PROVE  /\ N \in Nat
         /\ \A n \in 0 .. N, s \in Surfaces :
              /\ RootAt[n][s] \in Surfaces \cup {NULL}
              /\ RootAt[n][s] = IF parent[s] = NULL \/ n = 0 THEN s
                                ELSE IF parent[s] \notin alive THEN NULL
                                ELSE RootAt[n - 1][parent[s]]
<1> DEFINE X == [Surfaces -> Surfaces \cup {NULL}]
           W(n, r) == [s \in Surfaces |-> IF parent[s] = NULL \/ n = 0 THEN s
                                          ELSE IF parent[s] \notin alive THEN NULL
                                          ELSE r[parent[s]]]
           Walk(f) == [n \in 0 .. N |-> W(n, f[n - 1])]
           start == [s \in Surfaces |-> s]
           step == [n \in 1 .. N |-> [r \in X |-> W(n, r)]]
<1>1. N \in Nat /\ parent \in X
  BY FS_CardinalityType DEF SubsurfacesAssumption, TreeInv
<1>2. start \in X /\ \A r : W(0, r) = start
  BY <1>1
<1>3. \A n \in 1 .. N, r \in X : W(n, r) \in X /\ step[n][r] = W(n, r)
  <2>1. ASSUME NEW n \in 1 .. N, NEW r \in X PROVE W(n, r) \in X
    <3>1. ASSUME NEW s \in Surfaces, parent[s] # NULL PROVE r[parent[s]] \in Surfaces \cup {NULL}
      BY <1>1, <3>1
    <3> QED
      BY <3>1
  <2> HIDE DEF W, X
  <2> QED
    BY <2>1
<1>4. step \in Steps(N, X)
  <2> HIDE DEF W, X
  <2>1. \A n \in 1 .. N, r \in X : W(n, r) \in X
    BY <1>3
  <2> QED
    BY <2>1 DEF Steps
<1> HIDE DEF step, start, W, X
<1>5. PICK f : Follows(f, N, X, start, step)
  BY <1>1, <1>2, <1>4, StepsExist
<1>6. f \in [0 .. N -> X] /\ f[0] = start /\ \A n \in 1 .. N : f[n] = step[n][f[n - 1]]
  BY <1>5 DEF Follows
<1>7. f = Walk(f)
  <2>1. ASSUME NEW n \in 0 .. N PROVE f[n] = W(n, f[n - 1])
    <3>1. CASE n = 0
      BY <1>2, <1>6, <3>1
    <3>2. CASE n # 0
      <4>1. n \in 1 .. N /\ n - 1 \in 0 .. N
        BY <1>1, <3>2
      <4>2. f[n - 1] \in X
        BY <1>6, <4>1
      <4> QED
        BY <1>3, <1>6, <4>1, <4>2
    <3> QED
      BY <3>1, <3>2
  <2> QED
    BY <1>6, <2>1
<1>8. RootAt = Walk(RootAt)
  <2>1. RootAt = CHOOSE h : h = Walk(h)
    BY DEF RootAt, W
  <2> HIDE DEF Walk
  <2> QED
    BY <1>7, <2>1
<1>9. \A n \in 0 .. N : RootAt[n] = W(n, RootAt[n - 1])
  <2> DEFINE h == RootAt
  <2>1. h = [n \in 0 .. N |-> W(n, h[n - 1])]
    BY <1>8
  <2> HIDE DEF h
  <2>2. \A n \in 0 .. N : h[n] = W(n, h[n - 1])
    BY <2>1
  <2> QED
    BY <2>2 DEF h
<1> DEFINE T == {n \in 0 .. N : RootAt[n] \in X}
<1>10. 0 .. N \subseteq T
  <2>1. 0 \in T
    <3>1. 0 \in 0 .. N
      BY <1>1
    <3> QED
      BY <1>2, <1>9, <3>1
  <2>2. \A n \in 1 .. N : n - 1 \in T => n \in T
    <3> SUFFICES ASSUME NEW n \in 1 .. N, n - 1 \in T PROVE n \in T
      OBVIOUS
    <3>1. n \in 0 .. N
      BY <1>1
    <3>2. W(n, RootAt[n - 1]) \in X
      BY <1>3
    <3> QED
      BY <1>9, <3>1, <3>2
  <2> HIDE DEF T
  <2> QED
    BY <1>1, <2>1, <2>2, UpTo
<1>11. ASSUME NEW n \in 0 .. N, NEW s \in Surfaces
       PROVE  /\ RootAt[n][s] \in Surfaces \cup {NULL}
              /\ RootAt[n][s] = IF parent[s] = NULL \/ n = 0 THEN s
                                ELSE IF parent[s] \notin alive THEN NULL
                                ELSE RootAt[n - 1][parent[s]]
  <2> DEFINE h == RootAt
  <2>1. h[n] \in X /\ h[n] = W(n, h[n - 1])
    BY <1>9, <1>10
  <2> HIDE DEF h
  <2>2. h[n][s] \in Surfaces \cup {NULL}
    BY <2>1 DEF X
  <2>3. h[n][s] = IF parent[s] = NULL \/ n = 0 THEN s
                  ELSE IF parent[s] \notin alive THEN NULL
                  ELSE h[n - 1][parent[s]]
    BY <2>1 DEF W
  <2> QED
    BY <2>2, <2>3 DEF h
<1> QED
  BY <1>1, <1>11

\* The walk ends at a surface that has no parent, if it meets no freed one.
LEMMA RootEnds ==
  ASSUME SubsurfacesAssumption, TreeInv, NEW s \in Surfaces, Root(s) # NULL
  PROVE  Root(s) \in Surfaces /\ parent[Root(s)] = NULL
<1> DEFINE N == Cardinality(Surfaces)
           H(n) == {x \in Surfaces : RootAt[n][x] = NULL \/ parent[RootAt[n][x]] = NULL}
<1>1. /\ N \in Nat
      /\ \A n \in 0 .. N, x \in Surfaces :
           /\ RootAt[n][x] \in Surfaces \cup {NULL}
           /\ RootAt[n][x] = IF parent[x] = NULL \/ n = 0 THEN x
                             ELSE IF parent[x] \notin alive THEN NULL
                             ELSE RootAt[n - 1][parent[x]]
  BY RootSteps
<1>2. /\ IsFiniteSet(Surfaces) /\ Layer \in Surfaces
      /\ \A x \in Surfaces : parent[x] \in Surfaces \cup {NULL}
      /\ \A T \in SUBSET Surfaces : T # {} => \E x \in T : parent[x] \notin T
      /\ parent[Layer] = NULL /\ NULL \notin Surfaces
  BY DEF SubsurfacesAssumption, TreeInv, Grounded
<1> HIDE DEF N
<1>3. H(0) = {x \in Surfaces : parent[x] = NULL}
  <2>1. 0 \in 0 .. N
    BY <1>1
  <2>2. \A x \in Surfaces : RootAt[0][x] = x
    BY <1>1, <2>1
  <2> QED
    BY <1>2, <2>2
<1>4. ASSUME NEW n \in 1 .. N, NEW x \in Surfaces
      PROVE  x \in H(n) <=> \/ parent[x] = NULL \/ parent[x] \notin alive
                            \/ parent[x] \in H(n - 1)
  <2>1. n \in 0 .. N /\ n - 1 \in 0 .. N /\ n # 0
    BY <1>1
  <2>2. CASE parent[x] = NULL
    BY <1>1, <2>1, <2>2
  <2>3. CASE parent[x] # NULL /\ parent[x] \notin alive
    BY <1>1, <2>1, <2>3
  <2>4. CASE parent[x] # NULL /\ parent[x] \in alive
    <3>1. RootAt[n][x] = RootAt[n - 1][parent[x]] /\ parent[x] \in Surfaces
      BY <1>1, <1>2, <2>1, <2>4
    <3> QED
      BY <2>4, <3>1
  <2> QED
    BY <2>2, <2>3, <2>4
<1> HIDE DEF H
<1> DEFINE A == {n \in 0 .. N : n = 0 \/ H(n - 1) \subseteq H(n)}
<1>5. 0 .. N \subseteq A
  <2>1. 0 \in A
    BY <1>1
  <2>2. \A n \in 1 .. N : n - 1 \in A => n \in A
    <3> SUFFICES ASSUME NEW n \in 1 .. N, n - 1 \in A PROVE H(n - 1) \subseteq H(n)
      BY <1>1
    <3>1. CASE n = 1
      <4>1. n - 1 = 0
        BY <3>1
      <4> QED
        BY <1>3, <1>4, <4>1
    <3>2. CASE n # 1
      <4>1. n - 1 \in 1 .. N /\ n - 1 # 0
        BY <1>1, <3>2
      <4>2. H((n - 1) - 1) \subseteq H(n - 1)
        BY <4>1
      <4>3. ASSUME NEW x \in H(n - 1) PROVE x \in H(n)
        <5>1. x \in Surfaces
          BY <4>3 DEF H
        <5>2. parent[x] = NULL \/ parent[x] \notin alive \/ parent[x] \in H((n - 1) - 1)
          BY <1>4, <4>1, <4>3, <5>1
        <5> QED
          BY <1>4, <4>2, <5>1, <5>2
      <4> QED
        BY <4>3
    <3> QED
      BY <3>1, <3>2
  <2> HIDE DEF A
  <2> QED
    BY <1>1, <2>1, <2>2, UpTo
<1>6. \A n \in 0 .. N : /\ H(n) \subseteq Surfaces /\ IsFiniteSet(H(n))
                        /\ Cardinality(H(n)) \in Nat /\ Cardinality(H(n)) <= N
                        /\ Cardinality(H(n)) = N => H(n) = Surfaces
  <2> TAKE n \in 0 .. N
  <2>1. H(n) \in SUBSET Surfaces
    BY DEF H
  <2>2. /\ IsFiniteSet(H(n)) /\ Cardinality(H(n)) <= N
        /\ (N = Cardinality(H(n)) => Surfaces = H(n))
    BY <1>2, <2>1, FS_Subset DEF N
  <2>3. Cardinality(H(n)) \in Nat
    BY <2>2, FS_CardinalityType
  <2> QED
    BY <2>1, <2>2, <2>3
<1> DEFINE B == {n \in 0 .. N : H(n) = Surfaces \/ Cardinality(H(n)) >= n + 1}
<1>7. 0 .. N \subseteq B
  <2>1. 0 \in B
    <3>1. 0 \in 0 .. N /\ Layer \in H(0)
      BY <1>1, <1>2, <1>3
    <3>2. Cardinality(H(0)) # 0
      BY <1>6, <3>1, FS_EmptySet
    <3>3. Cardinality(H(0)) \in Nat
      BY <1>6, <3>1
    <3> QED
      BY <3>1, <3>2, <3>3
  <2>2. \A n \in 1 .. N : n - 1 \in B => n \in B
    <3> SUFFICES ASSUME NEW n \in 1 .. N, n - 1 \in B, H(n) # Surfaces PROVE Cardinality(H(n)) >= n + 1
      BY <1>1
    <3>1. n \in 0 .. N /\ n - 1 \in 0 .. N /\ n \in Nat
      BY <1>1
    <3>2. H(n - 1) \subseteq H(n) /\ H(n) \subseteq Surfaces
      BY <1>1, <1>5, <1>6, <3>1
    <3>3. PICK x \in Surfaces \ H(n - 1) : parent[x] \notin Surfaces \ H(n - 1)
      <4>1. Surfaces \ H(n - 1) # {} /\ Surfaces \ H(n - 1) \in SUBSET Surfaces
        BY <3>2
      <4> QED
        BY <1>2, <4>1
    <3>4. x \in H(n)
      BY <1>2, <1>4, <3>3
    <3>5. Cardinality(H(n - 1) \cup {x}) = Cardinality(H(n - 1)) + 1
      <4> DEFINE h == H(n - 1)
      <4>1. IsFiniteSet(h) /\ x \notin h
        BY <1>6, <3>1, <3>3
      <4> HIDE DEF h
      <4>2. Cardinality(h \cup {x}) = Cardinality(h) + 1
        BY <4>1, FS_AddElement
      <4> QED
        BY <4>2 DEF h
    <3>6. Cardinality(H(n - 1) \cup {x}) <= Cardinality(H(n))
      <4>1. H(n - 1) \cup {x} \in SUBSET H(n) /\ IsFiniteSet(H(n))
        BY <1>6, <3>1, <3>2, <3>4
      <4> QED
        BY <4>1, FS_Subset
    <3>7. Cardinality(H(n - 1)) >= n
      <4>1. H(n - 1) # Surfaces
        BY <3>2
      <4>2. Cardinality(H(n - 1)) >= (n - 1) + 1
        BY <4>1
      <4> QED
        BY <3>1, <4>2
    <3>8. Cardinality(H(n - 1)) \in Nat /\ Cardinality(H(n)) \in Nat
      BY <1>6, <3>1
    <3> QED
      BY <3>1, <3>5, <3>6, <3>7, <3>8
  <2> HIDE DEF B
  <2> QED
    BY <1>1, <2>1, <2>2, UpTo
<1>8. H(N) = Surfaces
  <2>1. N \in B /\ N \in 0 .. N
    BY <1>1, <1>7
  <2>2. Cardinality(H(N)) <= N /\ Cardinality(H(N)) \in Nat
    BY <1>6, <2>1
  <2> QED
    BY <1>1, <2>1, <2>2
<1>9. Root(s) = RootAt[N][s]
  BY DEF Root, N
<1>10. s \in H(N) /\ N \in 0 .. N
  BY <1>1, <1>8
<1> QED
  BY <1>1, <1>9, <1>10 DEF H

\* A surface that is in a tree stays in it, up to the root.
LEMMA RootInside ==
  ASSUME SubsurfacesAssumption, TreeInv, NEW T \in SUBSET Surfaces,
         \A x \in T : parent[x] = NULL \/ parent[x] \in T, NEW s \in T
  PROVE  Root(s) \in T \cup {NULL}
<1> DEFINE N == Cardinality(Surfaces)
           A == {n \in 0 .. N : \A x \in T : RootAt[n][x] \in T \cup {NULL}}
<1>1. /\ N \in Nat
      /\ \A n \in 0 .. N, x \in Surfaces :
           RootAt[n][x] = IF parent[x] = NULL \/ n = 0 THEN x
                          ELSE IF parent[x] \notin alive THEN NULL
                          ELSE RootAt[n - 1][parent[x]]
  BY RootSteps
<1> HIDE DEF N
<1>2. 0 .. N \subseteq A
  <2>1. 0 \in A
    <3>1. 0 \in 0 .. N
      BY <1>1
    <3> QED
      BY <1>1, <3>1
  <2>2. \A n \in 1 .. N : n - 1 \in A => n \in A
    <3> SUFFICES ASSUME NEW n \in 1 .. N, n - 1 \in A, NEW x \in T PROVE RootAt[n][x] \in T \cup {NULL}
      BY <1>1
    <3>1. n \in 0 .. N /\ n # 0 /\ x \in Surfaces
      BY <1>1
    <3>2. \A y \in T : RootAt[n - 1][y] \in T \cup {NULL}
      OBVIOUS
    <3> QED
      BY <1>1, <3>1, <3>2
  <2> HIDE DEF A
  <2> QED
    BY <1>1, <2>1, <2>2, UpTo
<1>3. N \in A
  BY <1>1, <1>2
<1> QED
  BY <1>3 DEF Root, N

\* The test of subcompositor_get_subsurface keeps surfaces from descending from
\* themselves.
LEMMA AdoptionGrounded ==
  ASSUME SubsurfacesAssumption, TreeInv, NEW c \in Surfaces, NEW p \in Surfaces,
         parent[c] = NULL, Root(p) \notin {c, NULL}, parent' = [parent EXCEPT ![c] = p]
  PROVE  Grounded'
<1>1. \A x \in Surfaces : parent'[x] = IF x = c THEN p ELSE parent[x]
  BY DEF TreeInv
<1>2. ASSUME NEW T \in SUBSET Surfaces, T # {}, \A x \in T : parent'[x] \in T
      PROVE  FALSE
  <2>1. CASE c \notin T
    <3>1. \A x \in T : parent[x] \in T
      BY <1>1, <1>2, <2>1
    <3> QED
      BY <1>2, <3>1 DEF TreeInv, Grounded
  <2>2. CASE c \in T
    <3>1. p \in T /\ \A x \in T : x # c => parent[x] \in T
      BY <1>1, <1>2, <2>2
    <3>2. \A x \in T : parent[x] = NULL \/ parent[x] \in T
      BY <3>1
    <3>3. Root(p) \in T
      BY <3>1, <3>2, RootInside
    <3>4. parent[Root(p)] = NULL
      BY RootEnds
    <3>5. parent[Root(p)] \in T /\ NULL \notin Surfaces
      BY <3>1, <3>3 DEF SubsurfacesAssumption
    <3> QED
      BY <3>4, <3>5
  <2> QED
    BY <2>1, <2>2
<1> QED
  BY <1>2 DEF Grounded

\* Trees have no cycles that the walk would follow.
LEMMA TreeAcyclic ==
  ASSUME SubsurfacesAssumption, TreeInv, SubsTypeOK
  PROVE  Acyclic
<1>1. alive \subseteq Surfaces
  BY DEF SubsTypeOK
<1> QED
  BY <1>1, RootEnds DEF Acyclic

-----------------------------------------------------------------------------
(* What the handlers keep *)

ListOK(l) == l \in [Surfaces -> Seq(Surfaces)] /\ \A s \in Surfaces : NoRepeat(l[s])
AllListsOK == ListOK(above) /\ ListOK(below) /\ ListOK(cabove) /\ ListOK(cbelow)

SetsOK ==
  /\ odd \in {{}, Oddities}
  /\ alive \subseteq Surfaces /\ orphans \subseteq Surfaces
  /\ inert \subseteq alive /\ ext \subseteq alive
  /\ left \subseteq Surfaces /\ leaving \in BOOLEAN
  /\ crash \in Crashes \cup {NULL}

StackOK ==
  /\ stack \in Seq(ext \cup {Bg, Indicator}) /\ NoRepeat(stack)
  /\ ToSet(stack) = ext \cup {Bg, Indicator}
  /\ stack = Shown(cbelow[Layer], cabove[Layer])

\* The lists of p hold its subsurfaces.
Listed(p) ==
  /\ ToSet(above[p]) \cup ToSet(below[p]) = Children(p)
  /\ ToSet(above[p]) \cap ToSet(below[p]) = {}
  /\ ToSet(cabove[p]) \cup ToSet(cbelow[p]) \subseteq Children(p) \cap ext
  /\ ToSet(cabove[p]) \cap ToSet(cbelow[p]) = {}

\* The inductive invariant: it holds of the lists after an invalid access too.
ListsIInv == SetsOK /\ TreeInv /\ AllListsOK /\ (\A p \in Surfaces : Listed(p)) /\ StackOK

\* The inductive invariant implies the one the run checks.
LEMMA ListsIInvImplies ==
  ASSUME SubsurfacesAssumption, ListsIInv PROVE ListsInv
<1>1. SubsTypeOK
  <2>1. odd \in {{}, Oddities} /\ leaving \in BOOLEAN
    BY Zenon DEF ListsIInv, SetsOK
  <2>2. /\ alive \subseteq Surfaces /\ orphans \subseteq Surfaces
        /\ inert \subseteq alive /\ ext \subseteq alive
        /\ left \subseteq Surfaces /\ crash \in Crashes \cup {NULL}
    BY DEF ListsIInv, SetsOK
  <2>3. /\ parent \in [Surfaces -> Surfaces \cup {NULL}]
        /\ handle \in [Surfaces -> {"none", "live", "freed"}]
    BY DEF ListsIInv, TreeInv
  <2>4. \A l \in {above, below, cabove, cbelow} :
          l \in [Surfaces -> Seq(Surfaces)] /\ \A s \in Surfaces : NoRepeat(l[s])
    BY Zenon DEF ListsIInv, AllListsOK, ListOK
  <2>5. /\ stack \in Seq(ext \cup {Bg, Indicator}) /\ NoRepeat(stack)
        /\ ToSet(stack) = ext \cup {Bg, Indicator}
    BY DEF ListsIInv, StackOK
  <2> QED
    BY <2>1, <2>2, <2>3, <2>4, <2>5, Zenon DEF SubsTypeOK
<1>2. ListsAgree
  BY DEF ListsIInv, ListsAgree, Listed
<1>3. Acyclic
  BY <1>1, TreeAcyclic DEF ListsIInv
<1>4. StackFollows
  BY DEF ListsIInv, StackOK, StackFollows, Shown
<1> QED
  BY <1>1, <1>2, <1>3, <1>4 DEF ListsInv

\* A step of surfaces that come, or of the client, or an invalid access.
LEMMA QuietKeeps ==
  ASSUME ListsIInv, SetsOK', alive \subseteq alive', UNCHANGED <<parent, handle, links, ext, stack>>
  PROVE  ListsIInv'
<1>1. TreeInv'
  BY DEF ListsIInv, TreeInv, Grounded
<1>2. AllListsOK' /\ (\A p \in Surfaces : Listed(p))'
  <2>1. UNCHANGED <<above, below, cabove, cbelow>>
    BY DEF links
  <2>2. AllListsOK'
    BY <2>1 DEF ListsIInv, AllListsOK, ListOK
  <2>3. (\A p \in Surfaces : Listed(p))'
    BY <2>1 DEF ListsIInv, Listed, Children
  <2> QED
    BY <2>2, <2>3
<1>3. StackOK'
  BY DEF ListsIInv, StackOK, links
<1> QED
  BY <1>1, <1>2, <1>3 DEF ListsIInv

\* New pending lists of p, which hold the same subsurfaces.
LEMMA ReorderKeeps ==
  ASSUME ListsIInv, SetsOK', UNCHANGED <<alive, parent, handle, cabove, cbelow, ext, stack>>,
         NEW p \in Surfaces, NEW a \in Seq(Surfaces), NEW b \in Seq(Surfaces),
         NoRepeat(a), NoRepeat(b), ToSet(a) \cup ToSet(b) = Children(p), ToSet(a) \cap ToSet(b) = {},
         above' = [above EXCEPT ![p] = a], below' = [below EXCEPT ![p] = b]
  PROVE  ListsIInv'
<1>1. TreeInv'
  BY DEF ListsIInv, TreeInv, Grounded
<1>2. AllListsOK'
  BY DEF ListsIInv, AllListsOK, ListOK
<1>3. ASSUME NEW q \in Surfaces PROVE Listed(q)'
  <2>1. above'[q] = (IF q = p THEN a ELSE above[q]) /\ below'[q] = (IF q = p THEN b ELSE below[q])
    BY DEF ListsIInv, AllListsOK, ListOK
  <2>2. Listed(q) /\ Children(q)' = Children(q)
    BY DEF ListsIInv, Children
  <2> QED
    BY <2>1, <2>2 DEF Listed
<1>4. StackOK'
  BY DEF ListsIInv, StackOK
<1> QED
  BY <1>1, <1>2, <1>3, <1>4 DEF ListsIInv

\* A new subsurface is the last above its parent.
LEMMA AdoptionKeeps ==
  ASSUME SubsurfacesAssumption, ListsIInv, SetsOK', UNCHANGED <<alive, below, cabove, cbelow, ext, stack>>,
         NEW c \in alive, NEW p \in Surfaces, c # Layer, parent[c] = NULL, Root(p) \notin {c, NULL},
         handle' = [handle EXCEPT ![c] = "live"], parent' = [parent EXCEPT ![c] = p],
         above' = [above EXCEPT ![p] = Append(@, c)]
  PROVE  ListsIInv'
<1>1. c \in Surfaces /\ NULL \notin Surfaces
  BY DEF ListsIInv, SetsOK, SubsurfacesAssumption
<1>2. TreeInv'
  <2>1. Grounded'
    BY <1>1, AdoptionGrounded DEF ListsIInv
  <2>2. parent' \in [Surfaces -> Surfaces \cup {NULL}] /\ parent'[Layer] = NULL
    BY <1>1 DEF ListsIInv, TreeInv, SubsurfacesAssumption
  <2>3. handle' \in [Surfaces -> {"none", "live", "freed"}]
    BY <1>1 DEF ListsIInv, TreeInv
  <2>4. \A s \in Surfaces : parent'[s] # NULL \/ handle'[s] # "none" => s \in alive'
    BY <1>1 DEF ListsIInv, TreeInv
  <2> QED
    BY <2>1, <2>2, <2>3, <2>4 DEF TreeInv
<1> DEFINE a == above[p] \o <<c>>
<1>3. above[p] \in Seq(Surfaces) /\ NoRepeat(above[p]) /\ above \in [Surfaces -> Seq(Surfaces)]
  BY DEF ListsIInv, AllListsOK, ListOK
<1>4. c \notin ToSet(above[p]) \cup ToSet(below[p])
  BY <1>1 DEF ListsIInv, Listed, Children
<1>5. a \in Seq(Surfaces) /\ NoRepeat(a) /\ ToSet(a) = ToSet(above[p]) \cup {c}
  <2> DEFINE l == <<c>>
             o == above[p]
  <2>1. l \in Seq(Surfaces) /\ ToSet(l) = {c} /\ NoRepeat(l) /\ o \in Seq(Surfaces) /\ NoRepeat(o)
    BY <1>1, <1>3, OneLink
  <2>2. ToSet(o) \cap {c} = {}
    BY <1>4
  <2> HIDE DEF l, o
  <2>3. o \o l \in Seq(Surfaces) /\ ToSet(o \o l) = ToSet(o) \cup {c}
    BY <2>1, Joined
  <2>4. NoRepeat(o \o l)
    BY <2>1, <2>2, Joined
  <2> QED
    BY <2>3, <2>4 DEF l, o
<1>6. Append(above[p], c) = a
  BY <1>1, <1>3, AppendIsConcat
<1> HIDE DEF a
<1>7. above' = [above EXCEPT ![p] = a]
  BY <1>6
<1>8. AllListsOK'
  <2>1. above' \in [Surfaces -> Seq(Surfaces)]
    BY <1>3, <1>5, <1>7
  <2>2. ASSUME NEW q \in Surfaces PROVE NoRepeat(above'[q])
    <3>1. above'[q] = a \/ above'[q] = above[q]
      BY <1>3, <1>7
    <3>2. NoRepeat(a) /\ NoRepeat(above[q])
      BY <1>5 DEF ListsIInv, AllListsOK, ListOK
    <3> QED
      BY <3>1, <3>2
  <2>3. ListOK(below) /\ ListOK(cabove) /\ ListOK(cbelow)
    BY Zenon DEF ListsIInv, AllListsOK
  <2> QED
    BY <2>1, <2>2, <2>3 DEF ListOK, AllListsOK
<1>9. ASSUME NEW q \in Surfaces PROVE Listed(q)'
  <2>1. Listed(q)
    BY DEF ListsIInv
  <2>2. Children(q)' = IF q = p THEN Children(q) \cup {c} ELSE Children(q)
    BY <1>1 DEF Children, ListsIInv, TreeInv
  <2>3. above'[q] = IF q = p THEN a ELSE above[q]
    BY <1>3, <1>7
  <2>4. CASE q = p
    <3> DEFINE x == above[p]
               y == above'[q]
    <3>1. y = a /\ ToSet(y) = ToSet(x) \cup {c} /\ c \notin ToSet(x) \cup ToSet(below[p])
      BY <1>4, <1>5, <2>3, <2>4
    <3> HIDE DEF x, y
    <3>2. /\ ToSet(x) \cup ToSet(below[p]) = Children(p) /\ ToSet(x) \cap ToSet(below[p]) = {}
          /\ ToSet(cabove[p]) \cup ToSet(cbelow[p]) \subseteq Children(p) \cap ext
          /\ ToSet(cabove[p]) \cap ToSet(cbelow[p]) = {}
      BY <2>1, <2>4 DEF Listed, x
    <3>3. /\ ToSet(y) \cup ToSet(below[p]) = Children(p)' /\ ToSet(y) \cap ToSet(below[p]) = {}
          /\ ToSet(cabove[p]) \cup ToSet(cbelow[p]) \subseteq Children(p)' \cap ext
      BY <2>2, <2>4, <3>1, <3>2
    <3> QED
      BY <2>4, <3>2, <3>3 DEF Listed, y
  <2>5. CASE q # p
    <3>1. above'[q] = above[q] /\ Children(q)' = Children(q)
      BY <2>2, <2>3, <2>5
    <3> QED
      BY <2>1, <3>1 DEF Listed
  <2> QED
    BY <2>4, <2>5
<1>10. StackOK'
  BY DEF ListsIInv, StackOK
<1> QED
  BY <1>2, <1>8, <1>9, <1>10 DEF ListsIInv

\* Next to an element of the list.
LEMMA InsertedNear ==
  ASSUME NEW S, NEW l \in Seq(S), NoRepeat(l), NEW e \in S, e \notin ToSet(l),
         NEW sib \in ToSet(l), NEW i, i = IndexOf(l, sib) \/ i = IndexOf(l, sib) + 1
  PROVE  /\ InsertAt(l, i, e) \in Seq(S) /\ NoRepeat(InsertAt(l, i, e))
         /\ ToSet(InsertAt(l, i, e)) = ToSet(l) \cup {e}
<1>1. PICK j \in 1 .. Len(l) : l[j] = sib
  BY ListSet
<1>2. IndexOf(l, sib) = j
  BY <1>1, Indexed
<1>3. i \in 1 .. Len(l) + 1
  BY <1>1, <1>2, LenProperties
<1> QED
  BY <1>3, Inserted

\* The lists of the parent of s without s.
Siblings(p, s, a, b) ==
  /\ p \in Surfaces /\ p \notin Children(p) /\ s \in Children(p)
  /\ a \in Seq(Surfaces) /\ NoRepeat(a) /\ b \in Seq(Surfaces) /\ NoRepeat(b)
  /\ ToSet(a) \cup ToSet(b) = Children(p) \ {s} /\ ToSet(a) \cap ToSet(b) = {}
  /\ \A e : (Contains(a, e) <=> e \in ToSet(a)) /\ (Contains(b, e) <=> e \in ToSet(b))

\* Taking s out leaves its siblings, each once.
LEMMA SiblingsLeft ==
  ASSUME SubsurfacesAssumption, ListsIInv, NEW s \in Surfaces, parent[s] # NULL
  PROVE  Siblings(parent[s], s, Without(above[parent[s]], s), Without(below[parent[s]], s))
<1> DEFINE p == parent[s]
           a == Without(above[p], s)
           b == Without(below[p], s)
<1>1. p \in Surfaces /\ s \in Children(p)
  BY DEF ListsIInv, TreeInv, Children
<1>2. p \notin Children(p)
  <2>1. {p} \in SUBSET Surfaces
    BY <1>1
  <2>2. parent[p] # p
    BY <2>1 DEF ListsIInv, TreeInv, Grounded
  <2> QED
    BY <2>2 DEF Children
<1>3. /\ above[p] \in Seq(Surfaces) /\ NoRepeat(above[p]) /\ below[p] \in Seq(Surfaces) /\ NoRepeat(below[p])
  BY <1>1 DEF ListsIInv, AllListsOK, ListOK
<1>4. a \in Seq(Surfaces) /\ NoRepeat(a) /\ ToSet(a) = ToSet(above[p]) \ {s}
  BY <1>3, LeftWithout
<1>5. b \in Seq(Surfaces) /\ NoRepeat(b) /\ ToSet(b) = ToSet(below[p]) \ {s}
  BY <1>3, LeftWithout
<1>6. ToSet(above[p]) \cup ToSet(below[p]) = Children(p) /\ ToSet(above[p]) \cap ToSet(below[p]) = {}
  BY <1>1 DEF ListsIInv, Listed
<1>7. \A e : (Contains(a, e) <=> e \in ToSet(a)) /\ (Contains(b, e) <=> e \in ToSet(b))
  BY <1>4, <1>5, ListSet
<1> HIDE DEF p, a, b
<1>8. Siblings(p, s, a, b)
  BY <1>1, <1>2, <1>4, <1>5, <1>6, <1>7 DEF Siblings
<1> QED
  BY <1>8 DEF p, a, b

\* nested_subsurface_place_above.
LEMMA PlaceAboveKeeps ==
  ASSUME SubsurfacesAssumption, ListsIInv, NEW s \in Surfaces, NEW sib \in Surfaces,
         PlaceAbove(s, sib), UNCHANGED odd
  PROVE  ListsIInv'
<1> DEFINE p == parent[s]
           a == Without(above[p], s)
           b == Without(below[p], s)
           an == IF sib = p THEN <<s>> \o a
                 ELSE IF Contains(a, sib) THEN InsertAt(a, IndexOf(a, sib) + 1, s) ELSE a
           bn == IF Contains(b, sib) THEN InsertAt(b, IndexOf(b, sib) + 1, s) ELSE b
           freed == p \notin alive /\ \E l \in {a, b} : l # <<>> /\ sib = Last(l)
<1>1. /\ p # NULL /\ s # sib /\ (sib = p \/ parent[sib] = p) /\ crash = NULL
      /\ UNCHANGED <<alive, parent, handle, orphans, inert, cabove, cbelow, ext, stack, left, leaving>>
  BY DEF PlaceAbove, Served
<1>2. CASE FreedPending(s) \/ freed
  <2>1. crash' = "freed_list" /\ UNCHANGED <<above, below>>
    BY <1>2 DEF PlaceAbove
  <2>2. SetsOK'
    <3>1. odd' \in {{}, Oddities} /\ leaving' \in BOOLEAN
      BY <1>1, Zenon DEF ListsIInv, SetsOK
    <3>2. crash' \in Crashes \cup {NULL}
      BY <2>1 DEF Crashes
    <3> QED
      BY <1>1, <3>1, <3>2 DEF ListsIInv, SetsOK
  <2> QED
    BY <1>1, <2>1, <2>2, QuietKeeps DEF links
<1>3. CASE ~(FreedPending(s) \/ freed)
  <2>1. /\ above' = [above EXCEPT ![p] = an] /\ below' = [below EXCEPT ![p] = bn] /\ crash' = crash
    BY <1>3 DEF PlaceAbove
  <2>2. SetsOK'
    BY <1>1, <2>1 DEF ListsIInv, SetsOK
  <2>3. Siblings(p, s, a, b)
    BY <1>1, SiblingsLeft, Zenon
  <2> HIDE DEF freed, a, b, p
  <2>4. sib # p => sib \in Children(p) \ {s}
    BY <1>1 DEF Children
  <2>5. /\ an \in Seq(Surfaces) /\ NoRepeat(an) /\ bn \in Seq(Surfaces) /\ NoRepeat(bn)
        /\ ToSet(an) \cup ToSet(bn) = Children(p) /\ ToSet(an) \cap ToSet(bn) = {}
    <3>1. CASE sib = p
      <4> DEFINE l == <<s>>
      <4>1. l \in Seq(Surfaces) /\ ToSet(l) = {s} /\ NoRepeat(l) /\ ToSet(l) \cap ToSet(a) = {}
        BY <2>3, OneLink DEF Siblings
      <4> HIDE DEF l
      <4>2. l \o a \in Seq(Surfaces) /\ ToSet(l \o a) = ToSet(l) \cup ToSet(a)
        BY <2>3, <4>1, Joined DEF Siblings
      <4>3. NoRepeat(l \o a)
        BY <2>3, <4>1, Joined DEF Siblings
      <4>4. an = l \o a /\ bn = b
        BY <2>3, <3>1 DEF l, Siblings
      <4> HIDE DEF an, bn
      <4> QED
        BY <2>3, <4>1, <4>2, <4>3, <4>4 DEF Siblings
    <3>2. CASE sib # p /\ sib \in ToSet(a)
      <4> DEFINE n == InsertAt(a, IndexOf(a, sib) + 1, s)
      <4>1. n \in Seq(Surfaces) /\ NoRepeat(n) /\ ToSet(n) = ToSet(a) \cup {s}
        <5>1. s \notin ToSet(a)
          BY <2>3 DEF Siblings
        <5> QED
          BY <2>3, <3>2, <5>1, InsertedNear DEF Siblings
      <4>2. an = n /\ bn = b
        BY <2>3, <3>2 DEF Siblings
      <4> HIDE DEF an, bn, n
      <4> QED
        BY <2>3, <4>1, <4>2 DEF Siblings
    <3>3. CASE sib # p /\ sib \in ToSet(b)
      <4> DEFINE n == InsertAt(b, IndexOf(b, sib) + 1, s)
      <4>1. n \in Seq(Surfaces) /\ NoRepeat(n) /\ ToSet(n) = ToSet(b) \cup {s}
        <5>1. s \notin ToSet(b)
          BY <2>3 DEF Siblings
        <5> QED
          BY <2>3, <3>3, <5>1, InsertedNear DEF Siblings
      <4>2. an = a /\ bn = n
        BY <2>3, <3>3 DEF Siblings
      <4> HIDE DEF an, bn, n
      <4> QED
        BY <2>3, <4>1, <4>2 DEF Siblings
    <3>4. sib = p \/ sib \in ToSet(a) \/ sib \in ToSet(b)
      BY <2>3, <2>4 DEF Siblings
    <3> HIDE DEF an, bn
    <3> QED
      BY <3>1, <3>2, <3>3, <3>4
  <2> HIDE DEF an, bn
  <2>6. p \in Surfaces
    BY <2>3 DEF Siblings
  <2> QED
    BY <1>1, <2>1, <2>2, <2>5, <2>6, ReorderKeeps
<1> QED
  BY <1>2, <1>3

\* nested_subsurface_place_below.
LEMMA PlaceBelowKeeps ==
  ASSUME SubsurfacesAssumption, ListsIInv, NEW s \in Surfaces, NEW sib \in Surfaces,
         PlaceBelow(s, sib), UNCHANGED odd
  PROVE  ListsIInv'
<1> DEFINE p == parent[s]
           a == Without(above[p], s)
           b == Without(below[p], s)
           an == IF Contains(a, sib) THEN InsertAt(a, IndexOf(a, sib), s) ELSE a
           bn == IF sib = p THEN Append(b, s)
                 ELSE IF Contains(b, sib) THEN InsertAt(b, IndexOf(b, sib), s) ELSE b
           freed == p \notin alive /\ \E l \in {a, b} : l # <<>> /\ sib = Head(l)
<1>1. /\ p # NULL /\ s # sib /\ (sib = p \/ parent[sib] = p) /\ crash = NULL
      /\ UNCHANGED <<alive, parent, handle, orphans, inert, cabove, cbelow, ext, stack, left, leaving>>
  BY DEF PlaceBelow, Served
<1>2. CASE FreedPending(s) \/ freed
  <2>1. crash' = "freed_list" /\ UNCHANGED <<above, below>>
    BY <1>2 DEF PlaceBelow
  <2>2. SetsOK'
    <3>1. odd' \in {{}, Oddities} /\ leaving' \in BOOLEAN
      BY <1>1, Zenon DEF ListsIInv, SetsOK
    <3>2. crash' \in Crashes \cup {NULL}
      BY <2>1 DEF Crashes
    <3> QED
      BY <1>1, <3>1, <3>2 DEF ListsIInv, SetsOK
  <2> QED
    BY <1>1, <2>1, <2>2, QuietKeeps DEF links
<1>3. CASE ~(FreedPending(s) \/ freed)
  <2>1. /\ above' = [above EXCEPT ![p] = an] /\ below' = [below EXCEPT ![p] = bn] /\ crash' = crash
    BY <1>3 DEF PlaceBelow
  <2>2. SetsOK'
    BY <1>1, <2>1 DEF ListsIInv, SetsOK
  <2>3. Siblings(p, s, a, b)
    BY <1>1, SiblingsLeft, Zenon
  <2> HIDE DEF freed, a, b, p
  <2>4. sib # p => sib \in Children(p) \ {s}
    BY <1>1 DEF Children
  <2>5. /\ an \in Seq(Surfaces) /\ NoRepeat(an) /\ bn \in Seq(Surfaces) /\ NoRepeat(bn)
        /\ ToSet(an) \cup ToSet(bn) = Children(p) /\ ToSet(an) \cap ToSet(bn) = {}
    <3>1. CASE sib = p
      <4> DEFINE l == <<s>>
      <4>1. l \in Seq(Surfaces) /\ ToSet(l) = {s} /\ NoRepeat(l) /\ ToSet(b) \cap ToSet(l) = {}
        BY <2>3, OneLink DEF Siblings
      <4> HIDE DEF l
      <4>2. b \o l \in Seq(Surfaces) /\ ToSet(b \o l) = ToSet(b) \cup ToSet(l)
        BY <2>3, <4>1, Joined DEF Siblings
      <4>3. NoRepeat(b \o l)
        BY <2>3, <4>1, Joined DEF Siblings
      <4>4. an = a
        BY <2>3, <3>1 DEF Siblings
      <4>5. bn = b \o l
        BY <2>3, <3>1, AppendIsConcat DEF l, Siblings
      <4> HIDE DEF an, bn
      <4> QED
        BY <2>3, <4>1, <4>2, <4>3, <4>4, <4>5 DEF Siblings
    <3>2. CASE sib # p /\ sib \in ToSet(a)
      <4> DEFINE n == InsertAt(a, IndexOf(a, sib), s)
      <4>1. n \in Seq(Surfaces) /\ NoRepeat(n) /\ ToSet(n) = ToSet(a) \cup {s}
        <5>1. s \notin ToSet(a)
          BY <2>3 DEF Siblings
        <5> QED
          BY <2>3, <3>2, <5>1, InsertedNear DEF Siblings
      <4>2. an = n /\ bn = b
        BY <2>3, <3>2 DEF Siblings
      <4> HIDE DEF an, bn, n
      <4> QED
        BY <2>3, <4>1, <4>2 DEF Siblings
    <3>3. CASE sib # p /\ sib \in ToSet(b)
      <4> DEFINE n == InsertAt(b, IndexOf(b, sib), s)
      <4>1. n \in Seq(Surfaces) /\ NoRepeat(n) /\ ToSet(n) = ToSet(b) \cup {s}
        <5>1. s \notin ToSet(b)
          BY <2>3 DEF Siblings
        <5> QED
          BY <2>3, <3>3, <5>1, InsertedNear DEF Siblings
      <4>2. an = a /\ bn = n
        BY <2>3, <3>3 DEF Siblings
      <4> HIDE DEF an, bn, n
      <4> QED
        BY <2>3, <4>1, <4>2 DEF Siblings
    <3>4. sib = p \/ sib \in ToSet(a) \/ sib \in ToSet(b)
      BY <2>3, <2>4 DEF Siblings
    <3> HIDE DEF an, bn
    <3> QED
      BY <3>1, <3>2, <3>3, <3>4
  <2> HIDE DEF an, bn
  <2>6. p \in Surfaces
    BY <2>3 DEF Siblings
  <2> QED
    BY <1>1, <2>1, <2>2, <2>5, <2>6, ReorderKeeps
<1> QED
  BY <1>2, <1>3

\* A list of surfaces is a list over the set of its elements.
LEMMA ListOver ==
  ASSUME NEW S, NEW s \in Seq(S), NEW R, ToSet(s) \subseteq R
  PROVE  s \in Seq(R)
<1> DEFINE n == Len(s)
<1>1. n \in Nat /\ s \in [1 .. n -> S]
  BY LenProperties
<1>2. \A i \in 1 .. n : s[i] \in R
  BY ListSet
<1> HIDE DEF n
<1>3. s \in [1 .. n -> R]
  BY <1>1, <1>2
<1> QED
  BY <1>1, <1>3, FunctionIsSeq

\* What the stack holds.
LEMMA ShownSet ==
  ASSUME SubsurfacesAssumption, NEW b \in Seq(Surfaces), NEW a \in Seq(Surfaces)
  PROVE  ToSet(Shown(b, a)) = ToSet(b) \cup ToSet(a) \cup {Bg, Indicator}
<1> DEFINE S == Surfaces \cup {Bg, Indicator}
           g == <<Bg>>
           i == <<Indicator>>
           t == a \o i
           h == b \o g
<1>1. ToSet(b) \subseteq S /\ ToSet(a) \subseteq S
  BY ListSet
<1>2. b \in Seq(S) /\ a \in Seq(S)
  BY <1>1, ListOver
<1>3. g \in Seq(S) /\ ToSet(g) = {Bg} /\ i \in Seq(S) /\ ToSet(i) = {Indicator}
  BY OneLink
<1> HIDE DEF g, i
<1>4. t \in Seq(S) /\ ToSet(t) = ToSet(a) \cup {Indicator}
  BY <1>2, <1>3, Joined
<1>5. h \in Seq(S) /\ ToSet(h) = ToSet(b) \cup {Bg}
  BY <1>2, <1>3, Joined
<1>6. Bg \in S /\ Indicator \in S
  OBVIOUS
<1> HIDE DEF S
<1>7. Shown(b, a) = Layered(b, g, a)
  BY <1>2, <1>6, LayeredStack DEF g
<1>8. Layered(b, g, a) = h \o t
  BY DEF Layered, h, t, i
<1> HIDE DEF h, t
<1>9. ToSet(h \o t) = ToSet(h) \cup ToSet(t)
  BY <1>4, <1>5, Joined
<1> QED
  BY <1>4, <1>5, <1>7, <1>8, <1>9

\* What is stacked upstream are subsurfaces of the layer surface.
LEMMA StackedChildren ==
  ASSUME SubsurfacesAssumption, ListsIInv
  PROVE  /\ ext = ToSet(cbelow[Layer]) \cup ToSet(cabove[Layer]) /\ ext \subseteq Children(Layer)
         /\ cbelow[Layer] \in Seq(Surfaces) /\ cabove[Layer] \in Seq(Surfaces)
<1> DEFINE b == cbelow[Layer]
           a == cabove[Layer]
<1>1. Layer \in Surfaces /\ ext \subseteq Surfaces /\ {Bg, Indicator} \cap Surfaces = {}
  BY DEF SubsurfacesAssumption, ListsIInv, SetsOK
<1>2. b \in Seq(Surfaces) /\ a \in Seq(Surfaces)
  BY <1>1 DEF ListsIInv, AllListsOK, ListOK
<1>3. ToSet(b) \subseteq Surfaces /\ ToSet(a) \subseteq Surfaces
  BY <1>2, ListSet
<1>4. stack = Shown(b, a) /\ ToSet(stack) = ext \cup {Bg, Indicator}
  BY DEF ListsIInv, StackOK
<1>5. ToSet(a) \cup ToSet(b) \subseteq Children(Layer)
  BY <1>1 DEF ListsIInv, Listed
<1> HIDE DEF a, b
<1>6. ToSet(stack) = ToSet(b) \cup ToSet(a) \cup {Bg, Indicator}
  BY <1>2, <1>4, ShownSet
<1>7. ext = ToSet(b) \cup ToSet(a)
  BY <1>1, <1>3, <1>4, <1>6
<1> QED
  BY <1>2, <1>5, <1>7 DEF a, b

\* A commit of the layer surface.
LEMMA CommitKeeps ==
  ASSUME SubsurfacesAssumption, ListsIInv, CommitLayer, UNCHANGED odd
  PROVE  ListsIInv'
<1>1. /\ UNCHANGED <<alive, parent, handle, orphans, inert, above, below, left, leaving, crash>>
      /\ ext' = ext \cup Children(Layer)
      /\ stack' = StackBelow(StackAbove(stack, above[Layer]), below[Layer])
  BY DEF CommitLayer
<1>2. Layer \in Surfaces /\ NULL \notin Surfaces
  BY DEF SubsurfacesAssumption
<1>3. /\ cabove' = [cabove EXCEPT ![Layer] = above[Layer]]
      /\ cbelow' = [cbelow EXCEPT ![Layer] = below[Layer]]
  BY DEF CommitLayer
<1>4. SetsOK'
  <2>1. Children(Layer) \subseteq alive
    BY <1>2 DEF Children, ListsIInv, TreeInv
  <2>2. odd' \in {{}, Oddities} /\ leaving' \in BOOLEAN
    BY <1>1, Zenon DEF ListsIInv, SetsOK
  <2> QED
    BY <1>1, <2>1, <2>2 DEF ListsIInv, SetsOK
<1>5. TreeInv'
  BY <1>1 DEF ListsIInv, TreeInv, Grounded
<1>6. \A q \in Surfaces : /\ cabove'[q] = IF q = Layer THEN above[q] ELSE cabove[q]
                          /\ cbelow'[q] = IF q = Layer THEN below[q] ELSE cbelow[q]
  BY <1>3 DEF ListsIInv, AllListsOK, ListOK
<1>7. AllListsOK'
  <2>1. ListOK(above) /\ ListOK(below) /\ ListOK(cabove) /\ ListOK(cbelow)
    BY Zenon DEF ListsIInv, AllListsOK
  <2>2. ListOK(cabove)'
    <3>1. cabove' \in [Surfaces -> Seq(Surfaces)]
      BY <1>2, <1>3, <2>1 DEF ListOK
    <3>2. \A q \in Surfaces : NoRepeat(cabove'[q])
      BY <1>6, <2>1 DEF ListOK
    <3> QED
      BY <3>1, <3>2 DEF ListOK
  <2>3. ListOK(cbelow)'
    <3>1. cbelow' \in [Surfaces -> Seq(Surfaces)]
      BY <1>2, <1>3, <2>1 DEF ListOK
    <3>2. \A q \in Surfaces : NoRepeat(cbelow'[q])
      BY <1>6, <2>1 DEF ListOK
    <3> QED
      BY <3>1, <3>2 DEF ListOK
  <2>4. ListOK(above)' /\ ListOK(below)'
    BY <1>1, <2>1 DEF ListOK
  <2> QED
    BY <2>2, <2>3, <2>4 DEF AllListsOK
<1>8. ASSUME NEW q \in Surfaces PROVE Listed(q)'
  <2>1. Listed(q) /\ Children(q)' = Children(q)
    BY <1>1 DEF ListsIInv, Children
  <2>2. CASE q = Layer
    <3>1. cabove'[q] = above[q] /\ cbelow'[q] = below[q]
      BY <1>6, <2>2
    <3> QED
      BY <1>1, <2>1, <2>2, <3>1 DEF Listed
  <2>3. CASE q # Layer
    <3>1. cabove'[q] = cabove[q] /\ cbelow'[q] = cbelow[q]
      BY <1>6, <2>3
    <3> QED
      BY <1>1, <2>1, <3>1 DEF Listed
  <2> QED
    BY <2>2, <2>3
<1>9. StackOK'
  <2> DEFINE l == above[Layer]
             k == below[Layer]
             b == cbelow[Layer]
             a == cabove[Layer]
             new == stack'
  <2>1. l \in Seq(Surfaces) /\ k \in Seq(Surfaces) /\ NoRepeat(l) /\ NoRepeat(k)
    BY <1>2 DEF ListsIInv, AllListsOK, ListOK
  <2>2. ToSet(l) \cup ToSet(k) = Children(Layer) /\ ToSet(l) \cap ToSet(k) = {}
    BY <1>2 DEF ListsIInv, Listed
  <2>3. /\ b \in Seq(Surfaces) /\ a \in Seq(Surfaces) /\ ext = ToSet(b) \cup ToSet(a)
        /\ ext \subseteq Children(Layer)
    BY StackedChildren
  <2>4. stack = Shown(b, a) /\ NoRepeat(stack)
    BY DEF ListsIInv, StackOK
  <2>5. new = StackBelow(StackAbove(stack, l), k)
    BY <1>1
  <2>6. cbelow'[Layer] = k /\ cabove'[Layer] = l
    BY <1>2, <1>6
  <2> HIDE DEF l, k, b, a, new
  <2>7. /\ new = Shown(k, l) /\ new \in Seq(Stackable) /\ NoRepeat(new)
        /\ ToSet(new) = ToSet(k) \cup ToSet(l) \cup {Bg, Indicator}
    <3>1. ToSet(b) \cup ToSet(a) \subseteq ToSet(l) \cup ToSet(k)
      BY <2>2, <2>3
    <3> QED
      BY <2>1, <2>2, <2>3, <2>4, <2>5, <3>1, Restacked
  <2>8. ToSet(new) = ext' \cup {Bg, Indicator}
    BY <1>1, <2>2, <2>3, <2>7
  <2>9. new \in Seq(ext' \cup {Bg, Indicator})
    BY <2>7, <2>8, ListOver
  <2> QED
    BY <2>6, <2>7, <2>8, <2>9 DEF StackOK, new
<1> QED
  BY <1>4, <1>5, <1>7, <1>8, <1>9 DEF ListsIInv

\* Destroying what a subsurface has: it leaves the lists of its parent, the tree
\* and the stack.
LEMMA PartsKeep ==
  ASSUME SubsurfacesAssumption, ListsIInv, SetsOK', NEW s \in Surfaces, Parts(s),
         handle' \in [Surfaces -> {"none", "live", "freed"}],
         \A x \in Surfaces : parent'[x] # NULL \/ handle'[x] # "none" => x \in alive'
  PROVE  ListsIInv'
<1>1. /\ above' = Unlinked(above, s) /\ below' = Unlinked(below, s)
      /\ cabove' = Unlinked(cabove, s) /\ cbelow' = Unlinked(cbelow, s)
      /\ parent' = [parent EXCEPT ![s] = NULL]
      /\ ext' = ext \ {s} /\ stack' = Without(stack, s)
  BY DEF Parts
<1>2. Layer \in Surfaces /\ NULL \notin Surfaces /\ Bg \notin Surfaces /\ Indicator \notin Surfaces
  BY DEF SubsurfacesAssumption
<1>3. \A x \in Surfaces : parent'[x] = IF x = s THEN NULL ELSE parent[x]
  BY <1>1 DEF ListsIInv, TreeInv
<1>4. TreeInv'
  <2>1. parent' \in [Surfaces -> Surfaces \cup {NULL}] /\ parent'[Layer] = NULL
    BY <1>1, <1>2 DEF ListsIInv, TreeInv
  <2>2. Grounded'
    <3> SUFFICES ASSUME NEW T \in SUBSET Surfaces, T # {} PROVE \E x \in T : parent'[x] \notin T
      BY DEF Grounded
    <3>1. PICK x \in T : parent[x] \notin T
      BY DEF ListsIInv, TreeInv, Grounded
    <3> QED
      BY <1>2, <1>3, <3>1
  <2> QED
    BY <2>1, <2>2 DEF TreeInv
<1>5. ASSUME NEW l, ListOK(l), NEW q \in Surfaces
      PROVE  /\ Unlinked(l, s)[q] \in Seq(Surfaces) /\ NoRepeat(Unlinked(l, s)[q])
             /\ ToSet(Unlinked(l, s)[q]) = IF q = parent[s] THEN ToSet(l[q]) \ {s} ELSE ToSet(l[q])
  <2> DEFINE x == l[q]
  <2>1. x \in Seq(Surfaces) /\ NoRepeat(x)
    BY <1>5 DEF ListOK
  <2>2. Unlinked(l, s)[q] = IF q = parent[s] THEN Without(x, s) ELSE x
    BY DEF Unlinked
  <2> HIDE DEF x
  <2>3. Without(x, s) \in Seq(Surfaces) /\ NoRepeat(Without(x, s)) /\ ToSet(Without(x, s)) = ToSet(x) \ {s}
    BY <2>1, LeftWithout
  <2>4. CASE q = parent[s]
    BY <2>2, <2>3, <2>4 DEF x
  <2>5. CASE q # parent[s]
    BY <2>1, <2>2, <2>5 DEF x
  <2> QED
    BY <2>4, <2>5
<1>6. ListOK(above) /\ ListOK(below) /\ ListOK(cabove) /\ ListOK(cbelow)
  BY Zenon DEF ListsIInv, AllListsOK
<1>7. AllListsOK'
  <2>1. ASSUME NEW l, ListOK(l) PROVE ListOK(Unlinked(l, s))
    <3> DEFINE u == Unlinked(l, s)
    <3>1. \A q \in Surfaces : u[q] \in Seq(Surfaces) /\ NoRepeat(u[q])
      BY <1>5, <2>1
    <3>2. u = [q \in Surfaces |-> u[q]]
      BY DEF Unlinked
    <3> HIDE DEF u
    <3>3. u \in [Surfaces -> Seq(Surfaces)]
      BY <3>1, <3>2
    <3>4. ListOK(u)
      BY <3>1, <3>3 DEF ListOK
    <3> QED
      BY <3>4 DEF u
  <2>2. ListOK(above') /\ ListOK(below') /\ ListOK(cabove') /\ ListOK(cbelow')
    BY <1>1, <1>6, <2>1, Zenon
  <2> QED
    BY <2>2 DEF AllListsOK, ListOK
<1>8. ASSUME NEW q \in Surfaces PROVE Listed(q)'
  <2> DEFINE R(x) == IF q = parent[s] THEN x \ {s} ELSE x
             A == ToSet(above[q])
             B == ToSet(below[q])
             CA == ToSet(cabove[q])
             CB == ToSet(cbelow[q])
  <2>1. ToSet(above'[q]) = R(A) /\ ToSet(below'[q]) = R(B)
    BY <1>1, <1>5, <1>6
  <2>2. ToSet(cabove'[q]) = R(CA) /\ ToSet(cbelow'[q]) = R(CB)
    BY <1>1, <1>5, <1>6
  <2>3. /\ A \cup B = Children(q) /\ A \cap B = {}
        /\ CA \cup CB \subseteq Children(q) \cap ext /\ CA \cap CB = {}
    BY DEF ListsIInv, Listed
  <2>4. Children(q)' = Children(q) \ {s} /\ (q # parent[s] => s \notin Children(q))
    BY <1>2, <1>3 DEF Children
  <2> HIDE DEF A, B, CA, CB
  <2>5. R(A) \cup R(B) = Children(q)' /\ R(A) \cap R(B) = {}
    BY <2>3, <2>4
  <2>6. R(CA) \cup R(CB) \subseteq Children(q)' \cap ext' /\ R(CA) \cap R(CB) = {}
    BY <1>1, <2>3, <2>4
  <2> HIDE DEF R
  <2> QED
    BY <2>1, <2>2, <2>5, <2>6 DEF Listed
<1>9. StackOK'
  <2> DEFINE b == cbelow[Layer]
             a == cabove[Layer]
             new == stack'
             g == <<Bg>>
  <2>1. /\ ext = ToSet(b) \cup ToSet(a) /\ ext \subseteq Children(Layer)
        /\ b \in Seq(Surfaces) /\ a \in Seq(Surfaces)
    BY StackedChildren
  <2>2. /\ stack \in Seq(ext \cup {Bg, Indicator}) /\ NoRepeat(stack)
        /\ ToSet(stack) = ext \cup {Bg, Indicator} /\ stack = Shown(b, a)
    BY DEF ListsIInv, StackOK
  <2>3. new = Without(stack, s)
    BY <1>1
  <2>4. /\ cbelow'[Layer] = IF parent[s] = Layer THEN Without(b, s) ELSE b
        /\ cabove'[Layer] = IF parent[s] = Layer THEN Without(a, s) ELSE a
    BY <1>1, <1>2 DEF Unlinked
  <2>5. parent[s] # Layer => s \notin ext
    BY <2>1 DEF Children
  <2>6. g \in Seq(Stackable) /\ ToSet(g) = {Bg}
    BY OneLink DEF Stackable
  <2>7. ext \subseteq Surfaces
    BY DEF ListsIInv, SetsOK
  <2> HIDE DEF b, a, new
  <2>8. /\ new \in Seq(ext \cup {Bg, Indicator}) /\ NoRepeat(new)
        /\ ToSet(new) = ToSet(stack) \ {s} /\ (s \notin ToSet(stack) => new = stack)
    BY <2>2, <2>3, LeftWithout
  <2>9. ToSet(new) = ext' \cup {Bg, Indicator}
    BY <1>1, <1>2, <2>2, <2>8
  <2>10. new \in Seq(ext' \cup {Bg, Indicator})
    BY <2>8, <2>9, ListOver
  <2>11. new = Shown(cbelow'[Layer], cabove'[Layer])
    <3>1. CASE parent[s] # Layer
      <4>1. s \notin ToSet(stack)
        BY <1>2, <2>2, <2>5, <3>1
      <4> QED
        BY <2>2, <2>4, <2>8, <3>1, <4>1
    <3>2. CASE parent[s] = Layer
      <4> DEFINE S == Surfaces \cup {Bg, Indicator}
      <4>1. ToSet(b) \subseteq S /\ ToSet(a) \subseteq S /\ Bg \in S /\ Indicator \in S
        BY <2>1, <2>7
      <4>2. b \in Seq(S) /\ a \in Seq(S)
        BY <2>1, <4>1, ListOver
      <4>3. Shown(b, a) = Layered(b, g, a)
        BY <4>1, <4>2, LayeredStack DEF g
      <4> DEFINE wb == Without(b, s)
                 wa == Without(a, s)
      <4> HIDE DEF g, S
      <4>4. /\ wb \in Seq(Surfaces) /\ ToSet(wb) = ToSet(b) \ {s}
            /\ wa \in Seq(Surfaces) /\ ToSet(wa) = ToSet(a) \ {s}
            /\ Without(Layered(b, g, a), s) = Layered(wb, g, wa)
        <5>1. NoRepeat(Layered(b, g, a)) /\ s \notin ToSet(g)
          BY <1>2, <2>2, <2>6, <4>3
        <5> QED
          BY <2>1, <2>6, <5>1, LayeredWithout
      <4> HIDE DEF wb, wa
      <4>5. wb \in Seq(S) /\ wa \in Seq(S)
        BY <4>1, <4>4, ListOver
      <4>6. Shown(wb, wa) = Layered(wb, g, wa)
        BY <4>1, <4>5, LayeredStack DEF g
      <4>7. new = Layered(wb, g, wa)
        BY <2>2, <2>3, <4>3, <4>4
      <4>8. cbelow'[Layer] = wb /\ cabove'[Layer] = wa
        BY <2>4, <3>2 DEF wb, wa
      <4> QED
        BY <4>6, <4>7, <4>8
    <3> QED
      BY <3>1, <3>2
  <2> QED
    BY <2>8, <2>9, <2>10, <2>11 DEF StackOK, new
<1> QED
  BY <1>4, <1>7, <1>8, <1>9 DEF ListsIInv

\* The flags after a step that leaves them alone.
LEMMA FlagsKeep ==
  ASSUME ListsIInv, UNCHANGED <<odd, leaving>>, crash' \in Crashes \cup {NULL, crash},
         alive' \subseteq Surfaces, orphans' \subseteq Surfaces, inert' \subseteq alive', ext' \subseteq alive',
         left' \subseteq Surfaces
  PROVE  SetsOK'
<1>1. odd' \in {{}, Oddities} /\ leaving' \in BOOLEAN
  BY Zenon DEF ListsIInv, SetsOK
<1>2. crash' \in Crashes \cup {NULL}
  BY DEF ListsIInv, SetsOK
<1> QED
  BY <1>1, <1>2 DEF SetsOK

\* subsurface_handle_resource_destroy.
LEMMA DestroySubsurfaceKeeps ==
  ASSUME SubsurfacesAssumption, ListsIInv, NEW s \in Surfaces, DestroySubsurface(s), UNCHANGED odd
  PROVE  ListsIInv'
<1>1. UNCHANGED <<alive, orphans, left, leaving>> /\ handle[s] = "live"
  BY DEF DestroySubsurface
<1>2. /\ alive \subseteq Surfaces /\ orphans \subseteq Surfaces /\ inert \subseteq alive /\ ext \subseteq alive
      /\ s \in alive /\ left \subseteq Surfaces
  BY <1>1 DEF ListsIInv, SetsOK, TreeInv
<1>3. CASE FreedList(s)
  <2>1. crash' = "freed_list" /\ UNCHANGED <<links, parent, ext, stack, handle, inert>>
    BY <1>3 DEF DestroySubsurface
  <2>2. SetsOK'
    BY <1>1, <1>2, <2>1, FlagsKeep DEF Crashes
  <2> QED
    BY <1>1, <2>1, <2>2, QuietKeeps
<1>4. CASE ~FreedList(s)
  <2>1. Parts(s) /\ handle' = [handle EXCEPT ![s] = "freed"] /\ inert' = inert \cup {s} /\ crash' = crash
    BY <1>4 DEF DestroySubsurface
  <2>2. ext' = ext \ {s} /\ parent' = [parent EXCEPT ![s] = NULL]
    BY <2>1 DEF Parts
  <2>3. SetsOK'
    BY <1>1, <1>2, <2>1, <2>2, FlagsKeep
  <2>4. handle' \in [Surfaces -> {"none", "live", "freed"}]
    BY <2>1 DEF ListsIInv, TreeInv
  <2>5. \A x \in Surfaces : parent'[x] # NULL \/ handle'[x] # "none" => x \in alive'
    BY <1>1, <1>2, <2>1, <2>2 DEF ListsIInv, TreeInv
  <2> QED
    BY <2>1, <2>3, <2>4, <2>5, PartsKeep
<1> QED
  BY <1>3, <1>4

\* surface_handle_resource_destroy.
LEMMA DestroySurfaceKeeps ==
  ASSUME SubsurfacesAssumption, ListsIInv, NEW s \in Surfaces, DestroySurface(s), UNCHANGED odd
  PROVE  ListsIInv'
<1>1. UNCHANGED leaving /\ s \in alive
  BY DEF DestroySurface
<1>2. /\ alive \subseteq Surfaces /\ orphans \subseteq Surfaces /\ inert \subseteq alive /\ ext \subseteq alive
      /\ left \subseteq Surfaces
  BY DEF ListsIInv, SetsOK
<1>3. CASE handle[s] = "freed" \/ FreedList(s)
  <2>1. /\ crash' \in {"freed_handle", "freed_list"}
        /\ UNCHANGED <<alive, links, parent, ext, stack, handle, inert, orphans, left>>
    BY <1>3 DEF DestroySurface
  <2>2. SetsOK'
    BY <1>1, <1>2, <2>1, FlagsKeep DEF Crashes
  <2> QED
    BY <2>1, <2>2, QuietKeeps
<1>4. CASE ~(handle[s] = "freed" \/ FreedList(s))
  <2>1. /\ Parts(s) /\ handle' = [handle EXCEPT ![s] = "none"] /\ crash' = crash
        /\ alive' = alive \ {s} /\ inert' = inert \ {s}
        /\ orphans' \in {orphans, orphans \cup {s}} /\ left' \in {left, left \cup {s}}
    BY <1>4 DEF DestroySurface
  <2>2. ext' = ext \ {s} /\ parent' = [parent EXCEPT ![s] = NULL]
    BY <2>1 DEF Parts
  <2>3. SetsOK'
    BY <1>1, <1>2, <2>1, <2>2, FlagsKeep
  <2>4. handle' \in [Surfaces -> {"none", "live", "freed"}]
    BY <2>1 DEF ListsIInv, TreeInv
  <2>5. \A x \in Surfaces : parent'[x] # NULL \/ handle'[x] # "none" => x \in alive'
    BY <1>1, <1>2, <2>1, <2>2 DEF ListsIInv, TreeInv
  <2> QED
    BY <2>1, <2>3, <2>4, <2>5, PartsKeep
<1> QED
  BY <1>3, <1>4

\* subcompositor_get_subsurface.
LEMMA GetSubsurfaceKeeps ==
  ASSUME SubsurfacesAssumption, ListsIInv, NEW c \in Surfaces, NEW p \in Surfaces,
         GetSubsurface(c, p), UNCHANGED odd
  PROVE  ListsIInv'
<1>1. /\ UNCHANGED <<alive, orphans, inert, below, cabove, cbelow, ext, stack, left, leaving>>
      /\ c \in alive /\ c # Layer /\ parent[c] = NULL /\ Root(p) # c
  BY DEF GetSubsurface
<1>2. /\ alive \subseteq Surfaces /\ orphans \subseteq Surfaces /\ inert \subseteq alive /\ ext \subseteq alive
      /\ left \subseteq Surfaces
  BY DEF ListsIInv, SetsOK
<1>3. CASE Root(p) = NULL
  <2>1. crash' = "freed_parent" /\ UNCHANGED <<handle, parent, above>>
    BY <1>3 DEF GetSubsurface
  <2>2. SetsOK'
    BY <1>1, <1>2, <2>1, FlagsKeep DEF Crashes
  <2> QED
    BY <1>1, <2>1, <2>2, QuietKeeps DEF links
<1>4. CASE Root(p) # NULL
  <2>1. /\ handle' = [handle EXCEPT ![c] = "live"] /\ parent' = [parent EXCEPT ![c] = p]
        /\ above' = [above EXCEPT ![p] = Append(@, c)] /\ crash' = crash
    BY <1>4 DEF GetSubsurface
  <2>2. SetsOK'
    BY <1>1, <1>2, <2>1, FlagsKeep
  <2>3. Root(p) \notin {c, NULL}
    BY <1>1, <1>4
  <2> QED
    BY <1>1, <2>1, <2>2, <2>3, AdoptionKeeps
<1> QED
  BY <1>3, <1>4

\* The steps that change no list, no parent and no handle.
LEMMA OthersKeep ==
  ASSUME SubsurfacesAssumption, ListsIInv, UNCHANGED odd,
         \/ \E s \in Surfaces : \/ CreateSurface(s) \/ UseOrphan(s) \/ CommitNested(s)
                              \/ DestroyOrphan(s) \/ PlaceBySelf(s)
         \/ ClientGoes \/ ClientGone
  PROVE  ListsIInv'
<1>1. UNCHANGED <<parent, handle, inert, links, ext, stack, left>>
  BY DEF CreateSurface, UseOrphan, CommitNested, DestroyOrphan, PlaceBySelf, ClientGoes, ClientGone
<1>2. /\ alive \subseteq Surfaces /\ orphans \subseteq Surfaces /\ inert \subseteq alive /\ ext \subseteq alive
      /\ left \subseteq Surfaces
  BY DEF ListsIInv, SetsOK
<1>3. alive \subseteq alive' /\ alive' \subseteq Surfaces /\ orphans' \subseteq Surfaces
  BY <1>2 DEF CreateSurface, UseOrphan, CommitNested, DestroyOrphan, PlaceBySelf, ClientGoes, ClientGone
<1>4. crash' \in Crashes \cup {NULL, crash}
  BY DEF CreateSurface, UseOrphan, CommitNested, DestroyOrphan, PlaceBySelf, ClientGoes, ClientGone, Crashes
<1>5. leaving' \in {leaving, TRUE, FALSE}
  BY DEF CreateSurface, UseOrphan, CommitNested, DestroyOrphan, PlaceBySelf, ClientGoes, ClientGone
<1>6. SetsOK'
  <2>1. odd' \in {{}, Oddities} /\ leaving' \in BOOLEAN
    BY <1>5, Zenon DEF ListsIInv, SetsOK
  <2>2. crash' \in Crashes \cup {NULL}
    BY <1>4 DEF ListsIInv, SetsOK
  <2> QED
    BY <1>1, <1>2, <1>3, <2>1, <2>2 DEF SetsOK
<1> QED
  BY <1>1, <1>3, <1>6, QuietKeeps

\* At the start there are no surfaces.
LEMMA ListsInit ==
  ASSUME SubsurfacesAssumption, SubsInit PROVE ListsIInv
<1> DEFINE e == << >>
<1>1. Layer \in Surfaces /\ NULL \notin Surfaces /\ Bg # Indicator
  BY DEF SubsurfacesAssumption
<1>2. e \in Seq(Surfaces) /\ ToSet(e) = {} /\ NoRepeat(e) /\ e = << >>
  BY ListSet, EmptySeq DEF ToSet, NoRepeat, IsInjective
<1> HIDE DEF e
<1>3. /\ above = [s \in Surfaces |-> e] /\ below = above /\ cabove = above /\ cbelow = above
  BY <1>2 DEF SubsInit
<1>4. SetsOK
  <2>1. odd \in {{}, Oddities} /\ leaving \in BOOLEAN
    BY Zenon DEF SubsInit
  <2> QED
    BY <2>1 DEF SubsInit, SetsOK
<1>5. TreeInv
  <2>1. \A s \in Surfaces : parent[s] = NULL /\ handle[s] = "none"
    BY DEF SubsInit
  <2>2. /\ parent \in [Surfaces -> Surfaces \cup {NULL}]
        /\ handle \in [Surfaces -> {"none", "live", "freed"}]
    BY DEF SubsInit
  <2>3. Grounded
    <3> SUFFICES ASSUME NEW T \in SUBSET Surfaces, T # {} PROVE \E s \in T : parent[s] \notin T
      BY DEF Grounded
    <3> QED
      BY <1>1, <2>1
  <2> QED
    BY <1>1, <2>1, <2>2, <2>3 DEF TreeInv
<1>6. AllListsOK
  <2>1. ListOK(above)
    BY <1>2, <1>3 DEF ListOK
  <2> QED
    BY <1>3, <2>1, Zenon DEF AllListsOK
<1>7. ASSUME NEW p \in Surfaces PROVE Listed(p)
  <2>1. above[p] = e /\ below[p] = e /\ cabove[p] = e /\ cbelow[p] = e
    BY <1>3
  <2>2. Children(p) = {}
    BY <1>1 DEF Children, SubsInit
  <2> QED
    BY <1>2, <2>1, <2>2 DEF Listed
<1>8. StackOK
  <2> DEFINE U == {Bg, Indicator}
             g == <<Bg>>
             i == <<Indicator>>
  <2>1. /\ g \in Seq(U) /\ ToSet(g) = {Bg} /\ NoRepeat(g)
        /\ i \in Seq(U) /\ ToSet(i) = {Indicator} /\ NoRepeat(i)
    BY OneLink
  <2>2. stack = g \o i /\ ext = {}
    <3> DEFINE w == <<Bg, Indicator>>
    <3>1. w \in Seq(U) /\ Len(w) = 2 /\ w[1] = Bg /\ w[2] = Indicator
      OBVIOUS
    <3>2. Len(g) = 1 /\ g[1] = Bg /\ Len(i) = 1 /\ i[1] = Indicator
      OBVIOUS
    <3>3. \A j \in 1 .. 2 : j = 1 \/ j = 2
      OBVIOUS
    <3>4. stack = w /\ ext = {}
      BY DEF SubsInit
    <3> HIDE DEF w, g, i, U
    <3>5. g \in Seq(U) /\ i \in Seq(U)
      BY <2>1
    <3> DEFINE v == g \o i
    <3>6. /\ v \in Seq(U) /\ Len(v) = Len(g) + Len(i)
          /\ \A j \in 1 .. Len(g) + Len(i) : v[j] = IF j <= Len(g) THEN g[j] ELSE i[j - Len(g)]
      BY <3>5, ConcatProperties
    <3> HIDE DEF v
    <3>7. /\ v \in Seq(U) /\ Len(v) = 2
          /\ \A j \in 1 .. 2 : v[j] = IF j <= 1 THEN g[j] ELSE i[j - 1]
      BY <3>2, <3>6
    <3>8. v[1] = Bg /\ v[2] = Indicator
      BY <3>2, <3>7
    <3>9. v = w
      BY <3>1, <3>3, <3>7, <3>8, SeqEqual
    <3> QED
      BY <3>4, <3>9 DEF v
  <2>3. Shown(e, e) = g \o i
    BY <1>2 DEF Shown
  <2> HIDE DEF g, i, U
  <2>4. g \o i \in Seq(U) /\ ToSet(g \o i) = ToSet(g) \cup ToSet(i)
    BY <2>1, Joined
  <2>5. NoRepeat(g \o i)
    BY <1>1, <2>1, Joined
  <2>6. cbelow[Layer] = e /\ cabove[Layer] = e
    BY <1>1, <1>3
  <2>7. ext \cup {Bg, Indicator} = U
    BY <2>2 DEF U
  <2>8. ToSet(stack) = U
    BY <2>1, <2>2, <2>4 DEF U
  <2> QED
    BY <2>2, <2>3, <2>4, <2>5, <2>6, <2>7, <2>8 DEF StackOK
<1> QED
  BY <1>4, <1>5, <1>6, <1>7, <1>8 DEF ListsIInv

\* Every step keeps the inductive invariant.
LEMMA ListsStep ==
  ASSUME SubsurfacesAssumption, ListsIInv, [SubsNext]_subsVars PROVE ListsIInv'
<1>1. CASE UNCHANGED subsVars
  <2>1. SetsOK'
    BY <1>1, Zenon DEF ListsIInv, SetsOK, subsVars
  <2> QED
    BY <1>1, <2>1, QuietKeeps DEF subsVars
<1>2. ASSUME SubsNext PROVE ListsIInv'
  <2>1. UNCHANGED odd
    BY <1>2 DEF SubsNext
  <2>2. ASSUME NEW s \in Surfaces, DestroySubsurface(s) PROVE ListsIInv'
    BY <2>1, <2>2, DestroySubsurfaceKeeps
  <2>3. ASSUME NEW s \in Surfaces, DestroySurface(s) PROVE ListsIInv'
    BY <2>1, <2>3, DestroySurfaceKeeps
  <2>4. ASSUME NEW s \in Surfaces, NEW t \in Surfaces, GetSubsurface(s, t) PROVE ListsIInv'
    BY <2>1, <2>4, GetSubsurfaceKeeps
  <2>5. ASSUME NEW s \in Surfaces, NEW t \in Surfaces, PlaceAbove(s, t) PROVE ListsIInv'
    BY <2>1, <2>5, PlaceAboveKeeps
  <2>6. ASSUME NEW s \in Surfaces, NEW t \in Surfaces, PlaceBelow(s, t) PROVE ListsIInv'
    BY <2>1, <2>6, PlaceBelowKeeps
  <2>7. CASE CommitLayer
    BY <2>1, <2>7, CommitKeeps
  <2>8. CASE \/ \E s \in Surfaces : \/ CreateSurface(s) \/ UseOrphan(s) \/ CommitNested(s)
                                   \/ DestroyOrphan(s) \/ PlaceBySelf(s)
             \/ ClientGoes \/ ClientGone
    BY <2>1, <2>8, OthersKeep
  <2> QED
    BY <1>2, <2>2, <2>3, <2>4, <2>5, <2>6, <2>7, <2>8 DEF SubsNext
<1> QED
  BY <1>1, <1>2

\* The subsurfaces of forward.c form trees, the pending and the committed lists
\* of each surface hold its children and nothing else, and upstream the children
\* of the background surface lie in the committed order around it with the
\* indicator on top, whatever a plugin does until the locker makes an invalid
\* access.
THEOREM SubsurfaceListsInvariant == SubsSpec => []ListsInv
<1> USE SubsurfacesAssumption
<1>1. SubsInit => ListsIInv
  BY ListsInit
<1>2. ListsIInv /\ [SubsNext]_subsVars => ListsIInv'
  BY ListsStep
<1>3. ListsIInv => ListsInv
  BY ListsIInvImplies
<1> QED
  BY <1>1, <1>2, <1>3, PTL DEF SubsSpec

-----------------------------------------------------------------------------
(* What the handlers of subsurfaces touch *)

\* While nothing freed has been used: of a plugin of no oddities only the layer
\* surface has subsurfaces; while it is served no parent and no handle is freed.
\* And for every plugin: a freed parent is one that left, which has subsurfaces
\* still, and so the client is not gone.
TraceOK ==
  /\ odd = {} => \A s \in Surfaces : parent[s] \in {NULL, Layer}
  /\ odd = {} /\ ~leaving =>
       \A s \in Surfaces : parent[s] \in alive \cup {NULL} /\ handle[s] # "freed"
  /\ \A s \in Surfaces : parent[s] \in alive \cup {NULL} \cup left
  /\ \A p \in left : p \in Surfaces \ alive /\ Children(p) # {}

\* The invalid accesses that a plugin of no oddities can be the cause of.
Explained == leaving /\ (left # {} \/ \E s \in Surfaces : handle[s] = "freed")

SubsIInv ==
  /\ ListsIInv
  /\ crash = NULL => TraceOK
  /\ odd = {} /\ crash # NULL => Explained

\* What the layer surface or another that has no parent asks for is not refused
\* as a loop nor sent through freed memory.
LEMMA RootOfParentless ==
  ASSUME SubsurfacesAssumption, TreeInv, NEW s \in Surfaces, parent[s] = NULL
  PROVE  Root(s) = s
<1> DEFINE N == Cardinality(Surfaces)
<1>1. N \in Nat /\ \A n \in 0 .. N : RootAt[n][s] = s
  BY RootSteps
<1>2. N \in 0 .. N
  BY <1>1
<1> QED
  BY <1>1, <1>2 DEF Root

\* A subsurface that is not linked to the head of a list of its parent lies
\* between two others.
LEMMA NotTheLast ==
  ASSUME SubsurfacesAssumption, ListsIInv, NEW s \in Surfaces, parent[s] \notin alive \cup {NULL},
         ~FreedList(s)
  PROVE  Children(parent[s]) \ {s} # {}
<1> DEFINE p == parent[s]
<1>1. p \in Surfaces /\ s \in Children(p)
  BY DEF ListsIInv, TreeInv, Children
<1>2. ~TouchesHead(above[p], s) /\ ~TouchesHead(below[p], s)
  BY DEF FreedList
<1>3. /\ above[p] \in Seq(Surfaces) /\ below[p] \in Seq(Surfaces)
      /\ ToSet(above[p]) \cup ToSet(below[p]) = Children(p)
  BY <1>1 DEF ListsIInv, AllListsOK, ListOK, Listed
<1> HIDE DEF p
<1>4. ASSUME NEW l \in Seq(Surfaces), s \in ToSet(l), ~TouchesHead(l, s)
      PROVE  \E c \in ToSet(l) : c # s
  <2>1. l # << >>
    BY <1>4 DEF ToSet
  <2>2. Head(l) # s
    BY <1>4, <2>1 DEF TouchesHead
  <2>3. Len(l) \in Nat /\ Len(l) # 0 /\ Head(l) = l[1]
    BY <2>1
  <2>4. 1 \in 1 .. Len(l)
    BY <2>3
  <2>5. l[1] \in ToSet(l)
    BY <2>4 DEF ToSet
  <2> QED
    BY <2>2, <2>3, <2>5
<1>5. s \in ToSet(above[p]) \/ s \in ToSet(below[p])
  BY <1>1, <1>3
<1>6. \E c \in Children(p) : c # s
  BY <1>2, <1>3, <1>4, <1>5
<1> QED
  BY <1>6 DEF p

\* Steps that change no parent, handle or surface that is allocated, but for new ones.
LEMMA QuietTrace ==
  ASSUME ListsIInv, TraceOK, UNCHANGED <<odd, parent, handle, left>>, alive \subseteq alive',
         \A p \in alive' \ alive : Children(p) = {},
         leaving' \/ ~leaving \/ alive = {}
  PROVE  TraceOK'
<1>1. \A p \in Surfaces : Children(p)' = Children(p)
  BY DEF Children
<1>2. alive = {} => \A s \in Surfaces : parent[s] = NULL /\ handle[s] = "none"
  BY DEF ListsIInv, TreeInv
<1>3. odd' = {} => \A s \in Surfaces : parent'[s] \in {NULL, Layer}
  BY DEF TraceOK
<1>4. odd' = {} /\ ~leaving' =>
        \A s \in Surfaces : parent'[s] \in alive' \cup {NULL} /\ handle'[s] # "freed"
  BY <1>2 DEF TraceOK
<1>5. \A s \in Surfaces : parent'[s] \in alive' \cup {NULL} \cup left'
  BY DEF TraceOK
<1>6. \A p \in left' : p \in Surfaces \ alive' /\ Children(p)' # {}
  BY <1>1 DEF TraceOK
<1> QED
  BY <1>3, <1>4, <1>5, <1>6 DEF TraceOK

\* Either destructor of a subsurface that touches no freed list.
LEMMA PartsTrace ==
  ASSUME SubsurfacesAssumption, ListsIInv, TraceOK, NEW s \in Surfaces, ~FreedList(s),
         parent' = [parent EXCEPT ![s] = NULL]
  PROVE  /\ \A t \in Surfaces : parent'[t] = IF t = s THEN NULL ELSE parent[t]
         /\ \A p \in left : Children(p)' # {}
         /\ \A p \in Surfaces \ {s} : Children(p)' = Children(p) \ {s}
         /\ Children(s)' = Children(s)
<1>1. \A t \in Surfaces : parent'[t] = IF t = s THEN NULL ELSE parent[t]
  BY DEF ListsIInv, TreeInv
<1>2. NULL \notin Surfaces
  BY DEF SubsurfacesAssumption
<1>3. \A p \in Surfaces : Children(p)' = Children(p) \ {s}
  BY <1>1, <1>2 DEF Children
<1>4. parent[s] # s
  <2>1. Grounded
    BY DEF ListsIInv, TreeInv
  <2>2. \E t \in {s} : parent[t] \notin {s}
    BY <2>1 DEF Grounded
  <2> QED
    BY <2>2
<1>5. Children(s)' = Children(s)
  BY <1>3, <1>4 DEF Children
<1>6. ASSUME NEW p \in left PROVE Children(p)' # {}
  <2>1. p \in Surfaces \ alive /\ Children(p) # {}
    BY DEF TraceOK
  <2>2. CASE parent[s] = p
    <3>1. Children(parent[s]) \ {s} # {}
      BY <1>2, <2>1, <2>2, NotTheLast
    <3> QED
      BY <1>3, <2>1, <2>2, <3>1
  <2>3. CASE parent[s] # p
    <3>1. s \notin Children(p)
      BY <2>3 DEF Children
    <3> QED
      BY <1>3, <2>1, <3>1
  <2> QED
    BY <2>2, <2>3
<1> QED
  BY <1>1, <1>3, <1>5, <1>6

\* A step before any invalid access explains the one it makes.
LEMMA TraceStep ==
  ASSUME SubsurfacesAssumption, ListsIInv, crash = NULL, TraceOK, SubsNext
  PROVE  /\ crash' = NULL => TraceOK'
         /\ odd' = {} /\ crash' # NULL => Explained'
<1> DEFINE Goal == /\ crash' = NULL => TraceOK'
                   /\ odd' = {} /\ crash' # NULL => Explained'
<1>0. odd' = odd /\ NULL \notin Surfaces /\ Layer \in Surfaces /\ parent[Layer] = NULL
  BY DEF SubsNext, SubsurfacesAssumption, ListsIInv, TreeInv
<1> USE CrashesAssumption
<1>1. ASSUME NEW s \in Surfaces,
             CreateSurface(s) \/ DestroyOrphan(s) \/ CommitLayer \/ ClientGoes \/ ClientGone
      PROVE  Goal
  <2>1. /\ crash' = NULL /\ UNCHANGED <<parent, handle, left>> /\ alive \subseteq alive'
        /\ \A p \in alive' \ alive : Children(p) = {}
        /\ leaving' \/ ~leaving \/ alive = {}
    BY <1>1 DEF CreateSurface, DestroyOrphan, CommitLayer, ClientGoes, ClientGone, Served
  <2> QED
    BY <1>0, <2>1, QuietTrace
<1>2. ASSUME NEW s \in Surfaces, UseOrphan(s) \/ PlaceBySelf(s) PROVE Goal
  <2>1. odd # {} /\ crash' # NULL
    BY <1>2 DEF UseOrphan, PlaceBySelf, Crashes
  <2> QED
    BY <1>0, <2>1
<1>3. ASSUME NEW s \in Surfaces, CommitNested(s) PROVE Goal
  <2>1. parent[s] # NULL /\ above[s] \o below[s] # << >> /\ crash' # NULL
    BY <1>3 DEF CommitNested, Crashes
  <2>2. /\ above[s] \in Seq(Surfaces) /\ below[s] \in Seq(Surfaces)
        /\ ToSet(above[s]) \cup ToSet(below[s]) = Children(s)
    BY DEF ListsIInv, AllListsOK, ListOK, Listed
  <2>3. Children(s) # {}
    <3>1. above[s] # << >> \/ below[s] # << >>
      BY <2>1, <2>2
    <3>2. ASSUME NEW l \in Seq(Surfaces), l # << >> PROVE ToSet(l) # {}
      <4>1. Len(l) \in Nat /\ Len(l) # 0
        BY <3>2
      <4>2. 1 \in 1 .. Len(l)
        BY <4>1
      <4>3. l[1] \in ToSet(l)
        BY <4>2 DEF ToSet
      <4> QED
        BY <4>3
    <3> QED
      BY <2>2, <3>1, <3>2
  <2>4. odd # {}
    BY <1>0, <2>1, <2>3 DEF TraceOK, Children
  <2> QED
    BY <1>0, <2>1, <2>4
<1>4. ASSUME NEW c \in Surfaces, NEW p \in Surfaces, GetSubsurface(c, p) PROVE Goal
  <2>1. /\ {c, p} \subseteq alive /\ parent[c] = NULL /\ (p = Layer \/ odd # {})
        /\ ~leaving /\ UNCHANGED <<alive, left, leaving>>
    BY <1>4 DEF GetSubsurface, Served
  <2>2. CASE Root(p) = NULL
    <3>1. crash' # NULL
      BY <1>4, <2>2 DEF GetSubsurface, Crashes
    <3>2. Root(Layer) = Layer
      BY <1>0, RootOfParentless DEF ListsIInv
    <3>3. odd # {}
      BY <1>0, <2>1, <2>2, <3>2
    <3> QED
      BY <1>0, <3>1, <3>3
  <2>3. CASE Root(p) # NULL
    <3>1. /\ handle' = [handle EXCEPT ![c] = "live"] /\ parent' = [parent EXCEPT ![c] = p]
          /\ crash' = crash
      BY <1>4, <2>3 DEF GetSubsurface
    <3>2. \A t \in Surfaces : /\ parent'[t] = IF t = c THEN p ELSE parent[t]
                             /\ handle'[t] = IF t = c THEN "live" ELSE handle[t]
      BY <3>1 DEF ListsIInv, TreeInv
    <3>3. \A q \in Surfaces : Children(q) \subseteq Children(q)'
      BY <1>0, <2>1, <3>2 DEF Children
    <3>4. TraceOK'
      BY <1>0, <2>1, <3>2, <3>3 DEF TraceOK
    <3> QED
      BY <3>1, <3>4
  <2> QED
    BY <2>2, <2>3
<1>5. ASSUME NEW s \in Surfaces, NEW t \in Surfaces, PlaceAbove(s, t) \/ PlaceBelow(s, t)
      PROVE  Goal
  <2>1. parent[s] # NULL /\ ~leaving /\ UNCHANGED <<alive, parent, handle, left, leaving>>
    BY <1>5 DEF PlaceAbove, PlaceBelow, Served
  <2>2. crash' = NULL => TraceOK'
    BY <1>0, <2>1, QuietTrace
  <2>3. odd = {} => parent[s] \in alive
    BY <2>1 DEF TraceOK
  <2>4. odd = {} => crash' = crash
    BY <1>5, <2>3 DEF PlaceAbove, PlaceBelow, FreedPending
  <2> QED
    BY <1>0, <2>2, <2>4
<1>6. ASSUME NEW s \in Surfaces, DestroySubsurface(s) PROVE Goal
  <2>1. /\ UNCHANGED <<alive, left, leaving>> /\ (leaving \/ odd # {})
    BY <1>6 DEF DestroySubsurface
  <2>2. CASE FreedList(s)
    <3>1. crash' # NULL /\ parent[s] \notin alive \cup {NULL}
      BY <1>6, <2>2 DEF DestroySubsurface, FreedList, Crashes
    <3>2. left # {}
      BY <3>1 DEF TraceOK
    <3> QED
      BY <1>0, <2>1, <3>1, <3>2 DEF Explained
  <2>3. CASE ~FreedList(s)
    <3>1. /\ parent' = [parent EXCEPT ![s] = NULL] /\ crash' = NULL
          /\ handle' = [handle EXCEPT ![s] = "freed"]
      BY <1>6, <2>3 DEF DestroySubsurface, Parts
    <3>2. /\ \A t \in Surfaces : parent'[t] = IF t = s THEN NULL ELSE parent[t]
          /\ \A p \in left : Children(p)' # {}
      BY <2>3, <3>1, PartsTrace
    <3>3. TraceOK'
      BY <1>0, <2>1, <3>2 DEF TraceOK
    <3> QED
      BY <3>1, <3>3
  <2> QED
    BY <2>2, <2>3
<1>7. ASSUME NEW s \in Surfaces, DestroySurface(s) PROVE Goal
  <2>1. s \in alive /\ leaving' = leaving /\ (Children(s) = {} \/ leaving \/ odd # {})
    BY <1>7 DEF DestroySurface
  <2>2. CASE handle[s] = "freed" \/ FreedList(s)
    <3>1. crash' # NULL /\ left' = left /\ handle' = handle
      BY <1>7, <2>2 DEF DestroySurface, Crashes
    <3>2. handle[s] = "freed" \/ parent[s] \notin alive \cup {NULL}
      BY <2>2 DEF FreedList
    <3>3. handle[s] = "freed" \/ left # {}
      BY <3>2 DEF TraceOK
    <3>4. odd = {} => leaving
      BY <3>2 DEF TraceOK
    <3> QED
      BY <1>0, <2>1, <3>1, <3>3, <3>4 DEF Explained
  <2>3. CASE ~(handle[s] = "freed" \/ FreedList(s))
    <3>1. /\ parent' = [parent EXCEPT ![s] = NULL] /\ crash' = NULL
          /\ handle' = [handle EXCEPT ![s] = "none"] /\ alive' = alive \ {s}
          /\ left' = IF Children(s) = {} THEN left ELSE left \cup {s}
      BY <1>7, <2>3 DEF DestroySurface, Parts
    <3>2. /\ \A t \in Surfaces : parent'[t] = IF t = s THEN NULL ELSE parent[t]
          /\ \A p \in left : Children(p)' # {}
          /\ Children(s)' = Children(s)
      BY <2>3, <3>1, PartsTrace
    <3>3. \A t \in Surfaces : handle'[t] = IF t = s THEN "none" ELSE handle[t]
      BY <3>1 DEF ListsIInv, TreeInv
    <3>4. \A t \in Surfaces : parent[t] = s => t \in Children(s)
      BY DEF Children
    <3>5. odd' = {} => \A t \in Surfaces : parent'[t] \in {NULL, Layer}
      BY <1>0, <3>2 DEF TraceOK
    <3>6. odd' = {} /\ ~leaving' =>
            \A t \in Surfaces : parent'[t] \in alive' \cup {NULL} /\ handle'[t] # "freed"
      BY <1>0, <2>1, <3>1, <3>2, <3>3, <3>4 DEF TraceOK
    <3>7. \A t \in Surfaces : parent'[t] \in alive' \cup {NULL} \cup left'
      BY <3>1, <3>2, <3>4 DEF TraceOK
    <3>8. \A p \in left' : p \in Surfaces \ alive' /\ Children(p)' # {}
      BY <3>1, <3>2 DEF TraceOK
    <3>9. TraceOK'
      BY <3>5, <3>6, <3>7, <3>8 DEF TraceOK
    <3> QED
      BY <3>1, <3>9
  <2> QED
    BY <2>2, <2>3
<1> QED
  BY <1>0, <1>1, <1>2, <1>3, <1>4, <1>5, <1>6, <1>7 DEF SubsNext

\* No handler of subsurfaces uses freed memory or a NULL pointer while it serves
\* a plugin that does not nest them and destroys each surface before its
\* wl_subsurface and before its parent.  wl_client_destroy makes one do so only
\* after it freed a parent before its subsurfaces or a wl_subsurface before its
\* surface; and of every plugin, a client of which a parent went first is never
\* destroyed to the end without such an access.
THEOREM SubsurfaceHandlersSafe == SubsSpec => []HandlersSafe
<1> USE SubsurfacesAssumption
<1>1. SubsInit => SubsIInv
  <2>1. SubsInit => TraceOK /\ crash = NULL
    BY DEF SubsInit, TraceOK
  <2> QED
    BY <2>1, ListsInit DEF SubsIInv
<1>2. SubsIInv /\ [SubsNext]_subsVars => SubsIInv'
  <2> SUFFICES ASSUME SubsIInv, [SubsNext]_subsVars PROVE SubsIInv'
    OBVIOUS
  <2>1. ListsIInv'
    BY ListsStep DEF SubsIInv
  <2>2. CASE UNCHANGED subsVars
    BY <2>1, <2>2 DEF subsVars, SubsIInv, TraceOK, Explained, Children
  <2>3. CASE SubsNext /\ crash = NULL
    BY <2>1, <2>3, TraceStep DEF SubsIInv
  <2>4. SubsNext => crash = NULL
    <3>1. ASSUME NEW s \in Surfaces,
                 \/ CreateSurface(s) \/ UseOrphan(s) \/ CommitNested(s) \/ PlaceBySelf(s)
                 \/ CommitLayer \/ ClientGoes \/ ClientGone
          PROVE  crash = NULL
      BY <3>1 DEF Served, CreateSurface, UseOrphan, CommitNested, PlaceBySelf, CommitLayer,
                  ClientGoes, ClientGone
    <3>2. ASSUME NEW s \in Surfaces,
                 DestroySubsurface(s) \/ DestroyOrphan(s) \/ DestroySurface(s)
          PROVE  crash = NULL
      BY <3>2 DEF DestroySubsurface, DestroyOrphan, DestroySurface
    <3>3. ASSUME NEW s \in Surfaces, NEW t \in Surfaces,
                 GetSubsurface(s, t) \/ PlaceAbove(s, t) \/ PlaceBelow(s, t)
          PROVE  crash = NULL
      BY <3>3 DEF Served, GetSubsurface, PlaceAbove, PlaceBelow
    <3> QED
      BY <3>1, <3>2, <3>3 DEF SubsNext, SubsurfacesAssumption
  <2> QED
    BY <2>2, <2>3, <2>4
<1>3. SubsIInv => HandlersSafe
  <2> SUFFICES ASSUME SubsIInv
               PROVE  /\ odd = {} /\ crash # NULL => Explained
                      /\ crash = NULL /\ alive = {} => left = {}
    BY DEF HandlersSafe, Explained
  <2>1. alive = {} => \A p \in Surfaces : Children(p) = {}
    BY DEF SubsIInv, ListsIInv, TreeInv, Children, SubsurfacesAssumption
  <2>2. crash = NULL => \A p \in left : p \in Surfaces /\ Children(p) # {}
    BY DEF SubsIInv, TraceOK
  <2> QED
    BY <2>1, <2>2 DEF SubsIInv
<1> QED
  BY <1>1, <1>2, <1>3, PTL DEF SubsSpec

=============================================================================
