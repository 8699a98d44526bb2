-------------------------- MODULE EventLoopProofs ---------------------------
(***************************************************************************)
(* Theorems about the event loop, for every set of descriptors and timers, *)
(* every delay and every growth of the array: its lists stay consistent,   *)
(* and it implements the abstract Loop.                                    *)
(***************************************************************************)
EXTENDS EventLoop, SequenceTheorems, WellFoundedInduction, TLAPS

FdRecords    == [fd : Fds, revents : {"none", "data", "nval"}]
EventRecords == [fd : Fds, removed : BOOLEAN]
TimerRecords == [id : Timers, left : -1 .. MaxDelay, removed : BOOLEAN]
Calls == {NoCall} \cup [kind : {"fd"}, of : Fds, fd : Fds] \cup [kind : {"timer"}, of : Timers]

-----------------------------------------------------------------------------
(* Numbers and sequences *)

\* Every nonempty set of natural numbers has a least element.
LEMMA LeastNatural ==
  ASSUME NEW T \in SUBSET Nat, T # {}
  PROVE  \E m \in T : \A n \in T : m <= n
<1> DEFINE R == {ss \in Nat \X Nat : ss[1] < ss[2]}
<1>1. IsWellFoundedOn(R, Nat)
  BY Zenon, NatLessThanWellFounded DEF OpToRel
<1> HIDE DEF R
<1>2. PICK m \in T : \A n \in T : ~(<<n, m>> \in R)
  BY <1>1, WFMin
<1>3. \A n \in T : ~(n < m)
  BY <1>2 DEF R
<1> QED
  BY <1>3

\* An entry taken out of a sequence.
LEMMA RemoveAtProperties ==
  ASSUME NEW S, NEW s \in Seq(S), NEW i \in 1 .. Len(s)
  PROVE  /\ RemoveAt(s, i) \in Seq(S) /\ Len(RemoveAt(s, i)) = Len(s) - 1
         /\ \A k \in 1 .. Len(s) - 1 : RemoveAt(s, i)[k] = IF k < i THEN s[k] ELSE s[k + 1]
<1> DEFINE a == SubSeq(s, 1, i - 1)
           b == SubSeq(s, i + 1, Len(s))
<1>0. Len(s) \in Nat /\ \A k \in 1 .. Len(s) : s[k] \in S
  BY LenProperties, ElementOfSeq
<1>1. a \in Seq(S) /\ Len(a) = i - 1 /\ \A k \in 1 .. i - 1 : a[k] = s[k]
  BY <1>0, SubSeqProperties
<1>2. b \in Seq(S) /\ Len(b) = Len(s) - i /\ \A k \in 1 .. Len(s) - i : b[k] = s[i + k]
  BY <1>0, SubSeqProperties
<1> HIDE DEF a, b
<1>3. RemoveAt(s, i) = a \o b
  BY DEF RemoveAt, a, b
<1>4. /\ a \o b \in Seq(S) /\ Len(a \o b) = Len(a) + Len(b)
      /\ \A k \in 1 .. Len(a) + Len(b) :
           (a \o b)[k] = IF k <= Len(a) THEN a[k] ELSE b[k - Len(a)]
  BY <1>1, <1>2, ConcatProperties
<1>5. ASSUME NEW k \in 1 .. Len(s) - 1
      PROVE  RemoveAt(s, i)[k] = IF k < i THEN s[k] ELSE s[k + 1]
  <2>1. k \in 1 .. Len(a) + Len(b)
    BY <1>0, <1>1, <1>2
  <2>2. CASE k < i
    BY <1>0, <1>1, <1>3, <1>4, <2>1, <2>2
  <2>3. CASE ~(k < i)
    <3>1. k - Len(a) \in 1 .. Len(s) - i /\ i + (k - Len(a)) = k + 1 /\ ~(k <= Len(a))
      BY <1>0, <1>1, <2>3
    <3> QED
      BY <1>2, <1>3, <1>4, <2>1, <2>3, <3>1
  <2> QED
    BY <2>2, <2>3
<1> QED
  BY <1>0, <1>1, <1>2, <1>3, <1>4, <1>5

\* A function on an initial segment is a sequence of that length.
LEMMA FunctionIsSeq ==
  ASSUME NEW S, NEW n \in Nat, NEW f \in [1 .. n -> S]
  PROVE  f \in Seq(S) /\ Len(f) = n /\ DOMAIN f = 1 .. n
<1>1. f \in Seq(S)
  BY SeqDef
<1> QED
  BY <1>1, LenProperties

-----------------------------------------------------------------------------
(* The list of timers *)

\* The list holds timers, each once.
TimerList(list) ==
  /\ list \in Seq(TimerRecords)
  /\ \A i, j \in DOMAIN list : list[i].id = list[j].id => i = j

LEMMA IdsOfRange ==
  ASSUME NEW list PROVE TimerIds(list) = {r.id : r \in Range(list)}
BY DEF TimerIds, Range

\* A timer that is in the list is found there.
LEMMA TimerFound ==
  ASSUME TimerList(timers), NEW t \in TimerIds(timers)
  PROVE  /\ Place(t) \in 1 .. Len(timers) /\ timers[Place(t)].id = t
         /\ TimerOf(t) \in TimerRecords /\ TimerOf(t).id = t /\ TimerOf(t) \in Range(timers)
         /\ \A r \in Range(timers) : r.id = t => r = TimerOf(t)
<1>0. DOMAIN timers = 1 .. Len(timers) /\ \A i \in 1 .. Len(timers) : timers[i] \in TimerRecords
  BY LenProperties, ElementOfSeq DEF TimerList
<1>1. \E i \in DOMAIN timers : timers[i].id = t
  BY DEF TimerIds
<1>2. Place(t) \in DOMAIN timers /\ timers[Place(t)].id = t
  BY <1>1 DEF Place
<1>3. \A i \in DOMAIN timers : timers[i].id = t => i = Place(t)
  BY <1>2 DEF TimerList
<1> QED
  BY <1>0, <1>2, <1>3 DEF TimerOf, Range

\* Freeing a timer takes it, and nothing else, out of the list.
LEMMA FreedTimer ==
  ASSUME TimerList(timers), NEW t \in TimerIds(timers)
  PROVE  TimerList(Without(t)) /\ Range(Without(t)) = {r \in Range(timers) : r.id # t}
<1> DEFINE i == Place(t)
           new == RemoveAt(timers, i)
           n == Len(timers)
<1>0. /\ timers \in Seq(TimerRecords) /\ n \in Nat /\ DOMAIN timers = 1 .. n
      /\ \A k \in 1 .. n : timers[k] \in TimerRecords
  BY LenProperties, ElementOfSeq DEF TimerList
<1>1. i \in 1 .. n /\ timers[i].id = t
  BY TimerFound
<1> HIDE DEF i
<1>2. /\ new \in Seq(TimerRecords) /\ Len(new) = n - 1
      /\ \A k \in 1 .. n - 1 : new[k] = IF k < i THEN timers[k] ELSE timers[k + 1]
  BY <1>0, <1>1, RemoveAtProperties
<1>3. DOMAIN new = 1 .. n - 1
  BY <1>2, LenProperties
<1>4. Without(t) = new
  BY DEF Without, i
<1> HIDE DEF new, n
<1>5. \A k, l \in 1 .. n : timers[k].id = timers[l].id => k = l
  BY <1>0 DEF TimerList
<1>6. ASSUME NEW k \in 1 .. n - 1, NEW l \in 1 .. n - 1, new[k].id = new[l].id PROVE k = l
  <2> DEFINE kk == IF k < i THEN k ELSE k + 1
             ll == IF l < i THEN l ELSE l + 1
  <2>1. kk \in 1 .. n /\ ll \in 1 .. n /\ new[k] = timers[kk] /\ new[l] = timers[ll]
    BY <1>0, <1>1, <1>2
  <2>2. kk = ll
    BY <1>5, <1>6, <2>1
  <2> QED
    BY <1>0, <1>1, <2>2
<1>7. TimerList(new)
  BY <1>2, <1>3, <1>6 DEF TimerList
<1>8. ASSUME NEW k \in 1 .. n - 1 PROVE \E l \in 1 .. n : timers[l].id # t /\ new[k] = timers[l]
  <2>1. CASE k < i
    <3>1. k \in 1 .. n /\ new[k] = timers[k] /\ k # i
      BY <1>0, <1>1, <1>2, <2>1
    <3> QED
      BY <1>1, <1>5, <3>1
  <2>2. CASE ~(k < i)
    <3>1. k + 1 \in 1 .. n /\ new[k] = timers[k + 1] /\ k + 1 # i
      BY <1>0, <1>1, <1>2, <2>2
    <3> QED
      BY <1>1, <1>5, <3>1
  <2> QED
    BY <2>1, <2>2
<1>9. ASSUME NEW l \in 1 .. n, timers[l].id # t PROVE \E k \in 1 .. n - 1 : new[k] = timers[l]
  <2>0. l # i
    BY <1>1, <1>9
  <2>1. CASE l < i
    <3>1. l \in 1 .. n - 1 /\ new[l] = timers[l]
      BY <1>0, <1>1, <1>2, <2>1
    <3> QED
      BY <3>1
  <2>2. CASE ~(l < i)
    <3>1. l - 1 \in 1 .. n - 1 /\ ~(l - 1 < i) /\ (l - 1) + 1 = l
      BY <1>0, <1>1, <2>0, <2>2
    <3>2. new[l - 1] = timers[l]
      BY <1>2, <3>1
    <3> QED
      BY <3>1, <3>2
  <2> QED
    BY <2>1, <2>2
<1>10. Range(new) = {r \in Range(timers) : r.id # t}
  <2>1. Range(new) = {new[k] : k \in 1 .. n - 1} /\ Range(timers) = {timers[k] : k \in 1 .. n}
    BY <1>0, <1>3 DEF Range
  <2>2. ASSUME NEW r \in Range(new) PROVE r \in Range(timers) /\ r.id # t
    BY <1>8, <2>1, <2>2
  <2>3. ASSUME NEW r \in Range(timers), r.id # t PROVE r \in Range(new)
    BY <1>9, <2>1, <2>3
  <2> QED
    BY <2>2, <2>3
<1> QED
  BY <1>4, <1>7, <1>10

\* A new timer is put before the others.
LEMMA InsertedTimer ==
  ASSUME TimerList(timers), NEW r \in TimerRecords, r.id \notin TimerIds(timers)
  PROVE  TimerList(<<r>> \o timers) /\ Range(<<r>> \o timers) = Range(timers) \cup {r}
<1> DEFINE new == <<r>> \o timers
           n == Len(timers)
<1>0. /\ timers \in Seq(TimerRecords) /\ n \in Nat /\ DOMAIN timers = 1 .. n
      /\ \A k, l \in 1 .. n : timers[k].id = timers[l].id => k = l
  BY LenProperties DEF TimerList
<1>1. <<r>> \in Seq(TimerRecords) /\ Len(<<r>>) = 1 /\ <<r>>[1] = r
  OBVIOUS
<1>2. /\ new \in Seq(TimerRecords) /\ Len(new) = 1 + n
      /\ \A k \in 1 .. 1 + n : new[k] = IF k <= 1 THEN <<r>>[k] ELSE timers[k - 1]
  BY <1>0, <1>1, ConcatProperties
<1>3. DOMAIN new = 1 .. n + 1
  BY <1>0, <1>2, LenProperties
<1>4. \A k \in 1 .. n + 1 : new[k] = IF k = 1 THEN r ELSE timers[k - 1]
  BY <1>0, <1>1, <1>2
<1> HIDE DEF new, n
<1>5. \A k \in 1 .. n : timers[k].id # r.id
  BY <1>0 DEF TimerIds
<1>6. ASSUME NEW k \in 1 .. n + 1, NEW l \in 1 .. n + 1, new[k].id = new[l].id PROVE k = l
  <2>1. CASE k = 1 /\ l = 1
    BY <2>1
  <2>2. CASE k # 1 /\ l = 1
    <3>1. k - 1 \in 1 .. n /\ new[k] = timers[k - 1] /\ new[l] = r
      BY <1>0, <1>4, <2>2
    <3> QED
      BY <1>5, <1>6, <3>1
  <2>3. CASE k = 1 /\ l # 1
    <3>1. l - 1 \in 1 .. n /\ new[l] = timers[l - 1] /\ new[k] = r
      BY <1>0, <1>4, <2>3
    <3> QED
      BY <1>5, <1>6, <3>1
  <2>4. CASE k # 1 /\ l # 1
    <3>1. /\ k - 1 \in 1 .. n /\ new[k] = timers[k - 1]
          /\ l - 1 \in 1 .. n /\ new[l] = timers[l - 1]
      BY <1>0, <1>4, <2>4
    <3>2. k - 1 = l - 1
      BY <1>0, <1>6, <3>1
    <3> QED
      BY <3>2
  <2> QED
    BY <2>1, <2>2, <2>3, <2>4
<1>7. TimerList(new)
  BY <1>2, <1>3, <1>6 DEF TimerList
<1>8. \A l \in 1 .. n : l + 1 \in 1 .. n + 1 /\ new[l + 1] = timers[l]
  BY <1>0, <1>4
<1>9. ASSUME NEW k \in 1 .. n + 1 PROVE new[k] = r \/ \E l \in 1 .. n : new[k] = timers[l]
  <2>1. k # 1 => k - 1 \in 1 .. n
    BY <1>0
  <2> QED
    BY <1>4, <2>1
<1>10. 1 \in 1 .. n + 1 /\ new[1] = r
  BY <1>0, <1>4
<1>11. Range(new) = Range(timers) \cup {r}
  <2>1. Range(new) = {new[k] : k \in 1 .. n + 1} /\ Range(timers) = {timers[k] : k \in 1 .. n}
    BY <1>0, <1>3 DEF Range
  <2>2. ASSUME NEW q \in Range(new) PROVE q \in Range(timers) \cup {r}
    BY <1>9, <2>1, <2>2
  <2>3. ASSUME NEW q \in Range(timers) \cup {r} PROVE q \in Range(new)
    BY <1>8, <1>10, <2>1, <2>3
  <2> QED
    BY <2>2, <2>3
<1> QED
  BY <1>7, <1>11 DEF new

\* Changing the timers of the list one by one, and not their addresses, keeps
\* it a list.
LEMMA ChangedTimers ==
  ASSUME TimerList(timers), NEW new,
         new = [i \in DOMAIN timers |-> new[i]],
         \A i \in DOMAIN timers : new[i] \in TimerRecords /\ new[i].id = timers[i].id
  PROVE  TimerList(new) /\ DOMAIN new = DOMAIN timers /\ TimerIds(new) = TimerIds(timers)
<1>0. Len(timers) \in Nat /\ DOMAIN timers = 1 .. Len(timers)
  BY LenProperties DEF TimerList
<1>1. new \in [1 .. Len(timers) -> TimerRecords]
  BY <1>0
<1>2. new \in Seq(TimerRecords) /\ DOMAIN new = DOMAIN timers
  BY <1>0, <1>1, FunctionIsSeq
<1> QED
  BY <1>2 DEF TimerList, TimerIds

-----------------------------------------------------------------------------
(* The array of descriptors and the list of callbacks *)

\* ArraysAligned, for its two sequences and a capacity.
Arrays(f, e, c) ==
  /\ f \in Seq(FdRecords) /\ e \in Seq(EventRecords) /\ c \in Nat
  /\ Len(f) = Len(e) /\ Len(f) <= c
  /\ \A i \in DOMAIN f : f[i].fd = e[i].fd
  /\ \A i, j \in DOMAIN f : f[i].fd = f[j].fd => i = j

LEMMA ArraysDomain ==
  ASSUME Arrays(fds, events, capacity)
  PROVE  /\ Len(fds) \in Nat /\ DOMAIN fds = 1 .. Len(fds) /\ DOMAIN events = 1 .. Len(fds)
         /\ \A i \in 1 .. Len(fds) : fds[i] \in FdRecords /\ events[i] \in EventRecords
         /\ Handlers \subseteq Fds
<1>1. /\ Len(fds) \in Nat /\ DOMAIN fds = 1 .. Len(fds) /\ DOMAIN events = 1 .. Len(fds)
      /\ \A i \in 1 .. Len(fds) : fds[i] \in FdRecords /\ events[i] \in EventRecords
  BY LenProperties, ElementOfSeq DEF Arrays
<1>2. Handlers \subseteq Fds
  BY <1>1 DEF Handlers, EventRecords
<1> QED
  BY <1>1, <1>2

\* loop_add_fd registers one more descriptor, at the end of both, and takes
\* room for it.
LEMMA AddedFd ==
  ASSUME EventLoopAssumption, Arrays(fds, events, capacity), NEW fd \in Fds, AddFd(fd)
  PROVE  /\ Arrays(fds', events', capacity') /\ Handlers' = Handlers \cup {fd}
         /\ DOMAIN fds' = 1 .. Len(fds) + 1
         /\ \A i \in 1 .. Len(fds) : fds'[i] = fds[i] /\ events'[i] = events[i]
         /\ fds'[Len(fds) + 1] = [fd |-> fd, revents |-> "none"]
<1> DEFINE n == Len(fds)
           e == [fd |-> fd, removed |-> FALSE]
           f == [fd |-> fd, revents |-> "none"]
<1>0. /\ n \in Nat /\ DOMAIN fds = 1 .. n /\ DOMAIN events = 1 .. n /\ Len(events) = n
      /\ fds \in Seq(FdRecords) /\ events \in Seq(EventRecords) /\ n <= capacity
      /\ capacity \in Nat
  BY ArraysDomain DEF Arrays
<1>1. e \in EventRecords /\ f \in FdRecords
  BY DEF EventRecords, FdRecords
<1>2. events' = Append(events, e) /\ fds' = Append(fds, f) /\ capacity' = Grown
  BY DEF AddFd
<1>3. /\ fds' \in Seq(FdRecords) /\ Len(fds') = n + 1 /\ DOMAIN fds' = 1 .. n + 1
      /\ \A i \in 1 .. n : fds'[i] = fds[i]
      /\ fds'[n + 1] = f
  BY <1>0, <1>1, <1>2, AppendProperties, LenProperties
<1>4. /\ events' \in Seq(EventRecords) /\ Len(events') = n + 1 /\ DOMAIN events' = 1 .. n + 1
      /\ \A i \in 1 .. n : events'[i] = events[i]
      /\ events'[n + 1] = e
  BY <1>0, <1>1, <1>2, AppendProperties, LenProperties
<1>5. capacity' \in Nat /\ n + 1 <= capacity'
  <2>1. CapStep \in Nat /\ CapStep > 0
    BY DEF EventLoopAssumption
  <2>2. capacity' = IF n = capacity THEN capacity + CapStep ELSE capacity
    BY <1>2 DEF Grown
  <2>3. n \in Nat /\ n <= capacity /\ capacity \in Nat
    BY <1>0
  <2> HIDE DEF n
  <2> QED
    BY <2>1, <2>2, <2>3
<1>6. \A i \in 1 .. n : fds[i].fd # fd
  BY <1>0 DEF AddFd, Listed
<1> HIDE DEF n, e, f
<1>7. \A i \in 1 .. n + 1 : i \in 1 .. n \/ i = n + 1
  BY <1>0
<1>8. f.fd = fd /\ e.fd = fd /\ ~e.removed
  BY DEF e, f
<1>9. \A i \in DOMAIN fds' : fds'[i].fd = events'[i].fd
  BY <1>0, <1>3, <1>4, <1>7, <1>8 DEF Arrays
<1>10. \A i, j \in DOMAIN fds' : fds'[i].fd = fds'[j].fd => i = j
  BY <1>0, <1>3, <1>6, <1>7, <1>8 DEF Arrays
<1>11. Handlers' = Handlers \cup {fd}
  <2>1. ASSUME NEW h \in Handlers' PROVE h \in Handlers \cup {fd}
    <3>1. PICK i \in 1 .. n + 1 : ~events'[i].removed /\ h = events'[i].fd
      BY <1>4, <2>1 DEF Handlers
    <3> QED
      BY <1>0, <1>4, <1>7, <1>8, <3>1 DEF Handlers
  <2>2. ASSUME NEW h \in Handlers PROVE h \in Handlers'
    <3>1. PICK i \in 1 .. n : ~events[i].removed /\ h = events[i].fd
      BY <1>0 DEF Handlers
    <3>2. i \in 1 .. n + 1 /\ ~events'[i].removed /\ h = events'[i].fd
      BY <1>0, <1>4, <3>1
    <3> QED
      BY <1>4, <3>2 DEF Handlers
  <2>3. fd \in Handlers'
    <3>1. n + 1 \in 1 .. n + 1
      BY <1>0
    <3> QED
      BY <1>4, <1>8, <3>1 DEF Handlers
  <2> QED
    BY <2>1, <2>2, <2>3
<1>12. Arrays(fds', events', capacity')
  BY <1>0, <1>3, <1>4, <1>5, <1>9, <1>10 DEF Arrays
<1> QED
  BY <1>3, <1>4, <1>11, <1>12 DEF n, f

\* loop_remove_fd unregisters the descriptor it is given, and only marks it.
LEMMA RemovedFd ==
  ASSUME Arrays(fds, events, capacity), NEW fd \in Handlers, RemoveFd(fd)
  PROVE  /\ Arrays(fds, events', capacity) /\ Handlers' = Handlers \ {fd}
         /\ DOMAIN events' = DOMAIN events
         /\ \A i \in DOMAIN events : ~events'[i].removed => ~events[i].removed /\ fds[i].fd # fd
<1> DEFINE n == Len(fds)
           i == CHOOSE i \in DOMAIN fds : fds[i].fd = fd
           marked == [fd |-> fd, removed |-> TRUE]
           new == [events EXCEPT ![i] = marked]
<1>0. /\ n \in Nat /\ DOMAIN fds = 1 .. n /\ DOMAIN events = 1 .. n /\ Len(events) = n
      /\ \A k \in 1 .. n : events[k] \in EventRecords
      /\ \A k \in 1 .. n : fds[k].fd = events[k].fd
      /\ \A k, l \in 1 .. n : fds[k].fd = fds[l].fd => k = l
  BY ArraysDomain DEF Arrays
<1>1. \E k \in DOMAIN fds : fds[k].fd = fd
  BY <1>0 DEF Handlers
<1>2. i \in 1 .. n /\ fds[i].fd = fd
  BY <1>0, <1>1
<1>3. events' = new
  BY DEF RemoveFd
<1> HIDE DEF i
<1>4. marked \in EventRecords /\ marked.fd = fd /\ marked.removed
  <2>1. events[i] \in EventRecords /\ events[i].fd = fd
    BY <1>0, <1>2
  <2> QED
    BY <2>1 DEF EventRecords
<1> HIDE DEF marked
<1>5. /\ new \in Seq(EventRecords) /\ Len(new) = n
      /\ \A k \in 1 .. n : new[k] = IF k = i THEN marked ELSE events[k]
  <2>1. events \in Seq(EventRecords) /\ i \in 1 .. Len(events)
    BY <1>0, <1>2 DEF Arrays
  <2> QED
    BY <1>0, <1>4, <2>1, ExceptSeq
<1>6. \A k \in 1 .. n : new[k].fd = events[k].fd /\ (new[k].removed <=> k = i \/ events[k].removed)
  <2>1. marked.fd = events[i].fd /\ marked.removed
    BY <1>0, <1>2, <1>4
  <2> HIDE DEF new, n
  <2> QED
    BY <1>5, <2>1
<1> HIDE DEF new, n
<1>8. DOMAIN new = 1 .. n
  BY <1>5, LenProperties
<1>9. Arrays(fds, new, capacity)
  BY <1>0, <1>5, <1>6, <1>8 DEF Arrays, n
<1>10. \A k \in 1 .. n : ~new[k].removed <=> ~events[k].removed /\ fds[k].fd # fd
  BY <1>0, <1>2, <1>6
<1>11. Handlers' = Handlers \ {fd}
  BY <1>0, <1>3, <1>6, <1>8, <1>10 DEF Handlers
<1> QED
  BY <1>0, <1>3, <1>8, <1>9, <1>10, <1>11

\* poll() writes what is ready into the array.
LEMMA PolledFds ==
  ASSUME Arrays(fds, events, capacity), PollReturns
  PROVE  /\ Arrays(fds', events, capacity) /\ DOMAIN fds' = DOMAIN fds
         /\ \A i \in DOMAIN fds :
              fds'[i].fd = fds[i].fd /\ (fds'[i].revents = "data" => fds[i].fd \in ready)
<1> DEFINE n == Len(fds)
<1>0. /\ n \in Nat /\ DOMAIN fds = 1 .. n /\ DOMAIN events = 1 .. n
      /\ \A k \in 1 .. n : fds[k] \in FdRecords
  BY ArraysDomain
<1>1. fds' = [i \in 1 .. n |-> [fds[i] EXCEPT !.revents = Revents(fds[i].fd)]]
  BY <1>0 DEF PollReturns
<1>2. \A i \in 1 .. n : fds'[i] = [fd |-> fds[i].fd, revents |-> Revents(fds[i].fd)]
  BY <1>0, <1>1 DEF FdRecords
<1>3. \A fd : Revents(fd) \in {"none", "data", "nval"} /\ (Revents(fd) = "data" => fd \in ready)
  BY DEF Revents
<1>4. ASSUME NEW i \in 1 .. n PROVE fds'[i] \in FdRecords /\ fds'[i].fd = fds[i].fd
  <2>1. fds[i].fd \in Fds
    BY <1>0 DEF FdRecords
  <2>2. Revents(fds[i].fd) \in {"none", "data", "nval"}
    BY <1>3
  <2>3. [fd |-> fds[i].fd, revents |-> Revents(fds[i].fd)] \in FdRecords
    BY <2>1, <2>2 DEF FdRecords
  <2>4. fds'[i] = [fd |-> fds[i].fd, revents |-> Revents(fds[i].fd)]
    BY <1>2
  <2> QED
    BY <2>3, <2>4
<1>5. fds' \in Seq(FdRecords) /\ Len(fds') = n /\ DOMAIN fds' = 1 .. n
  <2>1. fds' \in [1 .. n -> FdRecords]
    BY <1>1, <1>4
  <2> QED
    BY <1>0, <2>1, FunctionIsSeq
<1>6. Arrays(fds', events, capacity)
  BY <1>0, <1>4, <1>5 DEF Arrays
<1>7. ASSUME NEW i \in 1 .. n, fds'[i].revents = "data" PROVE fds[i].fd \in ready
  <2>1. fds'[i] = [fd |-> fds[i].fd, revents |-> Revents(fds[i].fd)]
    BY <1>2
  <2>2. [fd |-> fds[i].fd, revents |-> Revents(fds[i].fd)].revents = Revents(fds[i].fd)
    OBVIOUS
  <2> QED
    BY <1>3, <1>7, <2>1, <2>2
<1> QED
  BY <1>0, <1>4, <1>5, <1>6, <1>7

\* Closing up keeps every registered descriptor beside its callback.
LEMMA CompactedFds ==
  ASSUME Arrays(fds, events, capacity), CompactFds
  PROVE  Arrays(fds', events', capacity) /\ Handlers' = Handlers
<1> DEFINE left == {i \in DOMAIN events : ~events[i].removed}
<1>0. /\ Len(fds) \in Nat /\ DOMAIN fds = 1 .. Len(fds) /\ DOMAIN events = 1 .. Len(fds)
      /\ \A k \in 1 .. Len(fds) : fds[k] \in FdRecords /\ events[k] \in EventRecords
      /\ Len(events) = Len(fds) /\ Len(fds) <= capacity /\ capacity \in Nat
  BY ArraysDomain DEF Arrays
<1>10. PICK n \in 0 .. Len(events) :
        \E kept \in [1 .. n -> left] :
          /\ left = Range(kept) /\ \A k, l \in 1 .. n : k < l => kept[k] < kept[l]
          /\ events' = [k \in 1 .. n |-> events[kept[k]]]
          /\ fds' = [k \in 1 .. n |-> fds[kept[k]]]
  BY DEF CompactFds
<1>1. PICK kept \in [1 .. n -> left] :
        /\ left = Range(kept) /\ \A k, l \in 1 .. n : k < l => kept[k] < kept[l]
        /\ events' = [k \in 1 .. n |-> events[kept[k]]]
        /\ fds' = [k \in 1 .. n |-> fds[kept[k]]]
  BY <1>10
<1>2. n \in Nat /\ n <= capacity
  BY <1>0
<1>3. \A k \in 1 .. n : kept[k] \in 1 .. Len(fds) /\ ~events[kept[k]].removed
  BY <1>0
<1>4. /\ fds' \in [1 .. n -> FdRecords] /\ events' \in [1 .. n -> EventRecords]
      /\ \A k \in 1 .. n : fds'[k] = fds[kept[k]] /\ events'[k] = events[kept[k]]
  BY <1>0, <1>1, <1>3
<1>5. /\ fds' \in Seq(FdRecords) /\ Len(fds') = n /\ DOMAIN fds' = 1 .. n
      /\ events' \in Seq(EventRecords) /\ Len(events') = n /\ DOMAIN events' = 1 .. n
  BY <1>2, <1>4, FunctionIsSeq
<1>6. \A k \in 1 .. n : fds'[k].fd = events'[k].fd
  BY <1>0, <1>3, <1>4 DEF Arrays
<1>7. ASSUME NEW k \in 1 .. n, NEW l \in 1 .. n, fds'[k].fd = fds'[l].fd PROVE k = l
  <2>1. kept[k] = kept[l]
    BY <1>0, <1>3, <1>4, <1>7 DEF Arrays
  <2>2. ~(k < l) /\ ~(l < k)
    BY <1>0, <1>1, <1>3, <2>1
  <2> QED
    BY <1>2, <2>2
<1>8. Arrays(fds', events', capacity)
  BY <1>0, <1>2, <1>5, <1>6, <1>7 DEF Arrays
<1>9. Handlers' = Handlers
  <2>1. ASSUME NEW h \in Handlers PROVE h \in Handlers'
    <3>1. PICK i \in left : h = events[i].fd
      BY DEF Handlers
    <3>2. PICK k \in 1 .. n : kept[k] = i
      BY <1>1 DEF Range
    <3> QED
      BY <1>3, <1>4, <1>5, <3>1, <3>2 DEF Handlers
  <2>2. ASSUME NEW h \in Handlers' PROVE h \in Handlers
    BY <1>0, <1>3, <1>4, <1>5 DEF Handlers
  <2> QED
    BY <2>1, <2>2
<1> QED
  BY <1>8, <1>9

-----------------------------------------------------------------------------
(* The walk over the timers, and poll's timeout *)

\* The timers a walk has still to visit, without the next one.
LEMMA SweepTail ==
  ASSUME sweep \in Seq(Timers), IsInjective(sweep), sweep # <<>>
  PROVE  /\ Head(sweep) \in Range(sweep)
         /\ Tail(sweep) \in Seq(Timers) /\ IsInjective(Tail(sweep))
         /\ Range(Tail(sweep)) \subseteq Range(sweep) \ {Head(sweep)}
<1> DEFINE n == Len(sweep)
           t == Tail(sweep)
<1>1. n \in Nat \ {0} /\ DOMAIN sweep = 1 .. n
  BY LenProperties, EmptySeq
<1>2. /\ t \in Seq(Timers) /\ Len(t) = n - 1
      /\ \A i \in 1 .. n - 1 : t[i] = sweep[i + 1]
  BY HeadTailProperties
<1>3. DOMAIN t = 1 .. n - 1
  BY <1>2, LenProperties
<1>4. Head(sweep) = sweep[1] /\ 1 \in 1 .. n
  BY <1>1
<1> HIDE DEF n, t
<1>5. \A i \in 1 .. n - 1 : i + 1 \in 1 .. n /\ i + 1 # 1
  BY <1>1
<1>6. \A i, j \in 1 .. n : sweep[i] = sweep[j] => i = j
  BY <1>1 DEF IsInjective
<1>7. IsInjective(t)
  <2> SUFFICES ASSUME NEW i \in 1 .. n - 1, NEW j \in 1 .. n - 1, t[i] = t[j] PROVE i = j
    BY <1>3 DEF IsInjective
  <2>1. i + 1 = j + 1
    BY <1>2, <1>5, <1>6
  <2> QED
    BY <1>1, <2>1
<1>8. Range(t) \subseteq Range(sweep) \ {Head(sweep)}
  <2> SUFFICES ASSUME NEW i \in 1 .. n - 1 PROVE t[i] \in Range(sweep) \ {Head(sweep)}
    BY <1>3 DEF Range
  <2>1. t[i] = sweep[i + 1] /\ i + 1 \in 1 .. n /\ sweep[i + 1] # sweep[1]
    BY <1>2, <1>4, <1>5, <1>6
  <2> QED
    BY <1>1, <1>4, <2>1 DEF Range
<1>9. Head(sweep) \in Range(sweep)
  BY <1>1, <1>4 DEF Range
<1> QED
  BY <1>2, <1>7, <1>8, <1>9 DEF t

\* A walk visits every timer of the list, once.
LEMMA SweepOfTimers ==
  ASSUME TimerList(timers), NEW new, new = [i \in DOMAIN timers |-> timers[i].id]
  PROVE  new \in Seq(Timers) /\ IsInjective(new) /\ Range(new) = TimerIds(timers)
<1>0. /\ Len(timers) \in Nat /\ DOMAIN timers = 1 .. Len(timers)
      /\ \A i \in 1 .. Len(timers) : timers[i].id \in Timers
  <2>1. \A i \in 1 .. Len(timers) : timers[i] \in TimerRecords
    BY ElementOfSeq DEF TimerList
  <2> QED
    BY <2>1, LenProperties DEF TimerList, TimerRecords
<1>1. new \in Seq(Timers) /\ DOMAIN new = DOMAIN timers
  BY <1>0, FunctionIsSeq
<1> QED
  BY <1>1 DEF TimerList, IsInjective, Range, TimerIds

\* Time, for one timer.
Aged(r) == [r EXCEPT !.left = IF @ < 0 THEN @ ELSE @ - 1]

LEMMA AgedTimer ==
  ASSUME EventLoopAssumption, NEW r \in TimerRecords
  PROVE  /\ Aged(r) \in TimerRecords /\ Aged(r).id = r.id /\ Aged(r).removed = r.removed
         /\ Aged(r).left = IF r.left < 0 THEN r.left ELSE r.left - 1
BY DEF TimerRecords, Aged, EventLoopAssumption

\* poll() waits for the shortest timer and never a negative time.
LEMMA PollTimeoutBounded ==
  ASSUME EventLoopAssumption, TimerList(timers)
  PROVE  PollTimeout \in 0 .. Forever
<1> DEFINE left == {timers[i].left : i \in DOMAIN timers}
           T == {l + 1 : l \in left \cup {Forever}}
<1>0. MaxDelay \in Nat /\ Forever = MaxDelay + 1
  BY DEF EventLoopAssumption, Forever
<1>1. \A r \in TimerRecords : r.left \in -1 .. MaxDelay
  BY DEF TimerRecords
<1>2. left \subseteq -1 .. MaxDelay
  <2>1. \A i \in DOMAIN timers : timers[i] \in TimerRecords
    BY LenProperties, ElementOfSeq DEF TimerList
  <2> QED
    BY <1>1, <2>1
<1> HIDE DEF left
<1>3. T \in SUBSET Nat /\ T # {}
  BY <1>0, <1>2
<1>4. PICK m \in T : \A n \in T : m <= n
  BY <1>3, LeastNatural
<1>5. \E l \in left \cup {Forever} : \A n \in left : l <= n
  <2>1. PICK l \in left \cup {Forever} : m = l + 1
    OBVIOUS
  <2>2. \A n \in left : l + 1 <= n + 1
    BY <1>4, <2>1
  <2> QED
    BY <1>0, <1>2, <2>2
<1>6. Shortest \in left \cup {Forever}
  BY <1>5 DEF Shortest, left
<1> QED
  BY <1>0, <1>2, <1>6 DEF PollTimeout

-----------------------------------------------------------------------------
(* The inductive invariant *)

WalkTypeOK ==
  /\ phase \in {"idle", "blocked", "fds", "timers"} /\ next \in Nat \ {0} /\ wait \in 0 .. Forever
  /\ ready \subseteq Fds /\ closed \subseteq Fds
  /\ calling \in Calls /\ sweep \in Seq(Timers)

\* A callback runs only in the walk over entries of its kind.
CallInWalk ==
  calling # NoCall =>
    \/ phase = "fds" /\ calling.kind = "fd"
    \/ phase = "timers" /\ calling.kind = "timer"

\* What poll() has reported for the entries still to dispatch is still there:
\* only the callback that is running reads or closes a descriptor it leaves
\* registered, and that one's entry has been passed.
DataIsThere ==
  phase = "fds" => \A i \in DOMAIN fds :
    i >= next /\ ~events[i].removed /\ fds[i].revents = "data" =>
      /\ fds[i].fd \in ready
      /\ calling # NoCall => fds[i].fd # calling.fd

LoopIInv ==
  /\ Arrays(fds, events, capacity) /\ TimerList(timers)
  /\ WalkTypeOK /\ WalkIsSafe /\ CallInWalk /\ DataIsThere

LEMMA LoopIInvImplies == LoopIInv => LoopInv
BY DEF LoopIInv, LoopInv, ArraysAligned, Arrays, TimerList, WalkTypeOK, TypeOK, Calls, FdRecords,
       EventRecords, TimerRecords

LEMMA CallKinds ==
  ASSUME EventLoopAssumption
  PROVE  /\ \A h, fd \in Fds : /\ FdCall(h, fd) \in Calls \ {NoCall} /\ FdCall(h, fd).kind = "fd"
                               /\ FdCall(h, fd).of = h /\ FdCall(h, fd).fd = fd
         /\ \A t \in Timers : /\ TimerCall(t) \in Calls \ {NoCall} /\ TimerCall(t).kind = "timer"
                              /\ TimerCall(t).of = t
         /\ \A c \in Calls : /\ c # NoCall /\ c.kind = "timer" => c.of \in Timers /\ c = TimerCall(c.of)
                             /\ c # NoCall /\ c.kind = "fd" => c.of \in Fds /\ c.fd \in Fds
<1>1. \A h, fd \in Fds : FdCall(h, fd) \in Calls \ {NoCall} /\ FdCall(h, fd).kind = "fd"
                         /\ FdCall(h, fd).of = h /\ FdCall(h, fd).fd = fd
  BY DEF FdCall, Calls, EventLoopAssumption
<1>2. \A t \in Timers : TimerCall(t) \in Calls \ {NoCall} /\ TimerCall(t).kind = "timer"
                        /\ TimerCall(t).of = t
  BY DEF TimerCall, Calls, EventLoopAssumption
<1>3. \A c \in Calls : c # NoCall /\ c.kind = "timer" => c.of \in Timers /\ c = TimerCall(c.of)
  BY DEF TimerCall, Calls
<1>4. \A c \in Calls : c # NoCall /\ c.kind = "fd" => c.of \in Fds /\ c.fd \in Fds
  BY DEF FdCall, Calls
<1> QED
  BY <1>1, <1>2, <1>3, <1>4

\* What users and callbacks do.
LEMMA UsersKeep ==
  ASSUME EventLoopAssumption, LoopIInv, Users
  PROVE  LoopIInv'
<1> USE DEF LoopIInv
<1>0. /\ Len(fds) \in Nat /\ DOMAIN fds = 1 .. Len(fds) /\ DOMAIN events = 1 .. Len(fds)
      /\ Handlers \subseteq Fds
  BY ArraysDomain
<1>1. ASSUME NEW fd \in Fds, AddFd(fd) PROVE LoopIInv'
  <2>1. /\ Arrays(fds', events', capacity') /\ DOMAIN fds' = 1 .. Len(fds) + 1
        /\ \A i \in 1 .. Len(fds) : fds'[i] = fds[i] /\ events'[i] = events[i]
        /\ fds'[Len(fds) + 1] = [fd |-> fd, revents |-> "none"]
    BY <1>1, AddedFd
  <2>2. UNCHANGED <<loopVars, timers, ready, closed, calling>>
    BY <1>1 DEF AddFd
  <2>3. WalkTypeOK' /\ WalkIsSafe' /\ CallInWalk' /\ TimerList(timers)'
    BY <2>2 DEF WalkTypeOK, WalkIsSafe, CallInWalk, loopVars, Forever
  <2>4. DataIsThere'
    <3> SUFFICES ASSUME phase = "fds", NEW i \in 1 .. Len(fds) + 1, i >= next,
                        ~events'[i].removed, fds'[i].revents = "data"
                 PROVE  /\ fds'[i].fd \in ready
                        /\ calling # NoCall => fds'[i].fd # calling.fd
      BY <2>1, <2>2 DEF DataIsThere, loopVars
    <3>1. i # Len(fds) + 1
      BY <2>1
    <3>2. i \in 1 .. Len(fds) /\ fds'[i] = fds[i] /\ events'[i] = events[i]
      BY <1>0, <2>1, <3>1
    <3> QED
      BY <1>0, <3>2 DEF DataIsThere
  <2> QED
    BY <2>1, <2>3, <2>4
<1>2. ASSUME NEW fd \in Fds, RemoveFd(fd) PROVE LoopIInv'
  <2>1. fd \in Handlers /\ UNCHANGED <<loopVars, fds, capacity, timers, calling>>
    BY <1>2 DEF RemoveFd
  <2>2. /\ Arrays(fds, events', capacity)
        /\ \A i \in DOMAIN events : ~events'[i].removed => ~events[i].removed /\ fds[i].fd # fd
    BY <1>2, <2>1, RemovedFd
  <2>3. ready' \subseteq Fds /\ closed' \subseteq Fds /\ ready \ {fd} \subseteq ready'
    BY <1>2 DEF RemoveFd, WalkTypeOK
  <2>4. WalkTypeOK' /\ WalkIsSafe' /\ CallInWalk' /\ TimerList(timers)'
    BY <2>1, <2>3 DEF WalkTypeOK, WalkIsSafe, CallInWalk, loopVars, Forever
  <2>5. DataIsThere'
    BY <1>0, <2>1, <2>2, <2>3 DEF DataIsThere, loopVars
  <2> QED
    BY <2>1, <2>2, <2>4, <2>5
<1>3. ASSUME NEW fd \in Fds, CloseFd(fd) PROVE LoopIInv'
  <2>1. /\ calling = FdCall(fd, fd) /\ UNCHANGED <<loopVars, fdVars, timers, calling>>
        /\ ready' = ready \ {fd} /\ closed' = closed \cup {fd}
    BY <1>3 DEF CloseFd
  <2>2. calling # NoCall /\ calling.fd = fd
    BY <2>1, CallKinds
  <2>3. WalkTypeOK' /\ WalkIsSafe' /\ CallInWalk' /\ TimerList(timers)'
    BY <2>1 DEF WalkTypeOK, WalkIsSafe, CallInWalk, loopVars, Forever
  <2>4. DataIsThere'
    BY <2>1, <2>2 DEF DataIsThere, loopVars, fdVars
  <2> QED
    BY <2>1, <2>3, <2>4 DEF fdVars
<1>4. ASSUME NEW t \in Timers, NEW d \in 0 .. MaxDelay, AddTimer(t, d) PROVE LoopIInv'
  <2> DEFINE r == [id |-> t, left |-> d, removed |-> FALSE]
  <2>1. r \in TimerRecords /\ r.id = t
    BY DEF TimerRecords, EventLoopAssumption
  <2>2. /\ timers' = <<r>> \o timers /\ t \notin TimerIds(timers)
        /\ UNCHANGED <<loopVars, fdVars, ready, closed, calling>>
    BY <1>4 DEF AddTimer
  <2> HIDE DEF r
  <2>3. TimerList(timers') /\ Range(timers') = Range(timers) \cup {r}
    BY <2>1, <2>2, InsertedTimer
  <2>4. TimerIds(timers') = TimerIds(timers) \cup {t}
    BY <2>1, <2>3, IdsOfRange
  <2>5. WalkIsSafe'
    BY <2>2, <2>4 DEF WalkIsSafe, loopVars
  <2> QED
    BY <2>2, <2>3, <2>5 DEF WalkTypeOK, CallInWalk, DataIsThere, loopVars, fdVars, Forever
<1>5. ASSUME NEW t \in Timers, RemoveTimer(t) PROVE LoopIInv'
  <2>1. timers' = Marked(t) /\ UNCHANGED <<loopVars, fdVars, ready, closed, calling>>
    BY <1>5 DEF RemoveTimer
  <2>2. \A i \in DOMAIN timers : timers[i] \in TimerRecords
    BY LenProperties, ElementOfSeq DEF TimerList
  <2>3. ASSUME NEW i \in DOMAIN timers
        PROVE  timers'[i] \in TimerRecords /\ timers'[i].id = timers[i].id
    BY <2>1, <2>2 DEF Marked, TimerRecords
  <2>4. timers' = [i \in DOMAIN timers |-> timers'[i]]
    BY <2>1 DEF Marked
  <2>5. TimerList(timers') /\ TimerIds(timers') = TimerIds(timers)
    BY <2>3, <2>4, ChangedTimers
  <2>6. WalkIsSafe'
    BY <2>1, <2>5 DEF WalkIsSafe, loopVars
  <2> QED
    BY <2>1, <2>5, <2>6 DEF WalkTypeOK, CallInWalk, DataIsThere, loopVars, fdVars, Forever
<1> QED
  BY <1>1, <1>2, <1>3, <1>4, <1>5 DEF Users

\* What loop_poll does itself, up to and in the walk over the descriptors.
LEMMA FdWalkKeeps ==
  ASSUME EventLoopAssumption, LoopIInv,
         BeginPoll \/ PollReturns \/ DispatchFd \/ FreeRemovedFds
  PROVE  LoopIInv'
<1> USE DEF LoopIInv
<1>0. /\ Len(fds) \in Nat /\ DOMAIN fds = 1 .. Len(fds) /\ DOMAIN events = 1 .. Len(fds)
      /\ Handlers \subseteq Fds /\ Len(events) = Len(fds)
      /\ \A i \in 1 .. Len(fds) : fds[i] \in FdRecords /\ events[i] \in EventRecords
  BY ArraysDomain DEF Arrays
<1>1. CASE BeginPoll
  BY <1>1, PollTimeoutBounded
     DEF BeginPoll, WalkTypeOK, WalkIsSafe, CallInWalk, DataIsThere, fdVars, Forever
<1>2. CASE PollReturns
  <2>1. /\ phase = "blocked" /\ phase' = "fds" /\ next' = 1 /\ wait' = Forever
        /\ UNCHANGED <<sweep, capacity, events, timers, ready, closed, calling>>
    BY <1>2 DEF PollReturns
  <2>2. /\ Arrays(fds', events, capacity) /\ DOMAIN fds' = DOMAIN fds
        /\ \A i \in DOMAIN fds :
             fds'[i].fd = fds[i].fd /\ (fds'[i].revents = "data" => fds[i].fd \in ready)
    BY <1>2, PolledFds
  <2>3. calling = NoCall
    BY <2>1 DEF CallInWalk
  <2>4. Forever \in 0 .. Forever
    BY DEF Forever, EventLoopAssumption
  <2>5. WalkTypeOK' /\ WalkIsSafe' /\ CallInWalk'
    BY <2>1, <2>3, <2>4 DEF WalkTypeOK, WalkIsSafe, CallInWalk, Forever
  <2>6. DataIsThere'
    BY <2>1, <2>2, <2>3 DEF DataIsThere
  <2> QED
    BY <2>1, <2>2, <2>5, <2>6
<1>3. CASE DispatchFd
  <2>1. /\ phase = "fds" /\ calling = NoCall /\ next <= Len(events) /\ next' = next + 1
        /\ calling' = IF Due(next) THEN FdCall(events[next].fd, fds[next].fd) ELSE NoCall
        /\ UNCHANGED <<phase, sweep, wait, fdVars, timers, ready, closed>>
    BY <1>3 DEF DispatchFd
  <2>2. next \in 1 .. Len(fds)
    BY <1>0, <2>1 DEF WalkTypeOK
  <2>3. CASE ~Due(next)
    <3>1. calling' = NoCall
      BY <2>1, <2>3
    <3>2. DataIsThere'
      BY <1>0, <2>1, <2>2, <3>1 DEF DataIsThere, fdVars
    <3> QED
      BY <2>1, <2>2, <3>1, <3>2 DEF WalkTypeOK, WalkIsSafe, CallInWalk, fdVars, Forever, Calls
  <2>4. CASE Due(next)
    <3>1. events[next].fd \in Fds /\ fds[next].fd \in Fds
      BY <1>0, <2>2 DEF FdRecords, EventRecords
    <3>2. /\ calling' \in Calls \ {NoCall} /\ calling'.kind = "fd"
          /\ calling'.fd = fds[next].fd
      BY <2>1, <2>4, <3>1, CallKinds
    <3>3. calling'.kind # "timer"
      BY <3>2
    <3>4. WalkTypeOK' /\ WalkIsSafe' /\ CallInWalk'
      BY <2>1, <3>2, <3>3 DEF WalkTypeOK, WalkIsSafe, CallInWalk, Forever
    <3>5. DataIsThere'
      <4> SUFFICES ASSUME NEW i \in DOMAIN fds, i >= next + 1, ~events[i].removed,
                          fds[i].revents = "data"
                   PROVE  fds[i].fd \in ready /\ fds[i].fd # calling'.fd
        BY <2>1 DEF DataIsThere, fdVars
      <4>1. i >= next /\ i # next /\ next \in DOMAIN fds
        BY <1>0, <2>2
      <4> QED
        BY <1>0, <2>1, <3>2, <4>1 DEF DataIsThere, Arrays
    <3> QED
      BY <2>1, <3>4, <3>5 DEF fdVars
  <2> QED
    BY <2>3, <2>4
<1>4. CASE FreeRemovedFds
  <2>1. /\ calling = NoCall /\ phase' = "timers" /\ next' = 1 /\ CompactFds
        /\ closed' = closed \cap Handlers /\ sweep' = [i \in DOMAIN timers |-> timers[i].id]
        /\ UNCHANGED <<wait, capacity, timers, ready, calling>>
    BY <1>4 DEF FreeRemovedFds
  <2>2. Arrays(fds', events', capacity)
    BY <2>1, CompactedFds
  <2>3. sweep' \in Seq(Timers) /\ IsInjective(sweep') /\ Range(sweep') = TimerIds(timers)
    BY <2>1, SweepOfTimers
  <2>4. WalkIsSafe'
    BY <2>1, <2>3 DEF WalkIsSafe
  <2> QED
    BY <2>1, <2>2, <2>3, <2>4 DEF WalkTypeOK, CallInWalk, DataIsThere, Forever
<1> QED
  BY <1>1, <1>2, <1>3, <1>4

\* The walk over the timers, the return of a callback, data and time.
LEMMA TimerWalkKeeps ==
  ASSUME EventLoopAssumption, LoopIInv,
         VisitTimer \/ EndPoll \/ Return \/ Tick \/ \E fd \in Fds : Arrive(fd)
  PROVE  LoopIInv'
<1> USE DEF LoopIInv
<1>1. CASE VisitTimer
  <2> DEFINE h == Head(sweep)
             t == TimerOf(h)
  <2>1. /\ phase = "timers" /\ calling = NoCall /\ sweep # <<>> /\ sweep' = Tail(sweep)
        /\ timers' = IF t.removed THEN Without(t.id) ELSE timers
        /\ calling' = IF ~t.removed /\ t.left < 0 THEN TimerCall(t.id) ELSE NoCall
        /\ UNCHANGED <<phase, next, wait, fdVars, ready, closed>>
    BY <1>1 DEF VisitTimer
  <2>2. /\ h \in Range(sweep) /\ sweep' \in Seq(Timers) /\ IsInjective(sweep')
        /\ Range(sweep') \subseteq Range(sweep) \ {h}
    BY <2>1, SweepTail DEF WalkTypeOK, WalkIsSafe
  <2>3. h \in TimerIds(timers)
    BY <2>2 DEF WalkIsSafe
  <2>4. t \in TimerRecords /\ t.id = h
    BY <2>3, TimerFound
  <2>5. h \in Timers
    BY <2>4 DEF TimerRecords
  <2> HIDE DEF h, t
  <2>6. CASE t.removed
    <3>1. timers' = Without(h) /\ calling' = NoCall
      BY <2>1, <2>4, <2>6
    <3>2. TimerList(timers') /\ Range(timers') = {r \in Range(timers) : r.id # h}
      BY <2>3, <3>1, FreedTimer
    <3>3. TimerIds(timers') = TimerIds(timers) \ {h}
      BY <3>2, IdsOfRange
    <3>4. WalkIsSafe'
      BY <2>2, <3>1, <3>3 DEF WalkIsSafe
    <3> QED
      BY <2>1, <2>2, <3>1, <3>2, <3>4
         DEF WalkTypeOK, CallInWalk, DataIsThere, fdVars, Forever, Calls
  <2>7. CASE ~t.removed
    <3>1. timers' = timers /\ calling' \in {NoCall, TimerCall(h)}
      BY <2>1, <2>4, <2>7
    <3>2. /\ calling' \in Calls
          /\ calling' # NoCall => calling'.kind = "timer" /\ calling'.of = h
      BY <2>5, <3>1, CallKinds DEF Calls
    <3>3. WalkIsSafe'
      BY <2>2, <2>3, <3>1, <3>2 DEF WalkIsSafe
    <3> QED
      BY <2>1, <2>2, <3>1, <3>2, <3>3 DEF WalkTypeOK, CallInWalk, DataIsThere, fdVars, Forever
  <2> QED
    BY <2>6, <2>7
<1>2. CASE EndPoll
  BY <1>2 DEF EndPoll, WalkTypeOK, WalkIsSafe, CallInWalk, DataIsThere, fdVars, Forever
<1>3. CASE Return
  <2>1. /\ calling # NoCall /\ calling' = NoCall
        /\ timers' = IF calling.kind = "timer" THEN Without(calling.of) ELSE timers
        /\ UNCHANGED <<loopVars, fdVars, closed>>
    BY <1>3 DEF Return
  <2>2. /\ ready' \subseteq ready
        /\ ready \subseteq ready' \/ (calling.kind = "fd" /\ ready \ {calling.fd} \subseteq ready')
    BY <1>3 DEF Return
  <2>3. DataIsThere'
    BY <2>1, <2>2 DEF DataIsThere, loopVars, fdVars
  <2>4. TimerList(timers') /\ WalkIsSafe'
    <3>1. CASE calling.kind = "timer"
      <4>1. calling.of \in TimerIds(timers) \ Range(sweep)
        BY <2>1, <3>1 DEF WalkIsSafe
      <4>2. /\ TimerList(timers')
            /\ Range(timers') = {r \in Range(timers) : r.id # calling.of}
        BY <2>1, <3>1, <4>1, FreedTimer
      <4>3. TimerIds(timers') = TimerIds(timers) \ {calling.of}
        BY <4>2, IdsOfRange
      <4> QED
        BY <2>1, <4>1, <4>2, <4>3 DEF WalkIsSafe, loopVars
    <3>2. CASE calling.kind # "timer"
      BY <2>1, <3>2 DEF WalkIsSafe, loopVars
    <3> QED
      BY <3>1, <3>2
  <2> QED
    BY <2>1, <2>2, <2>3, <2>4 DEF WalkTypeOK, CallInWalk, loopVars, fdVars, Forever, Calls
<1>4. CASE Tick
  <2>1. /\ timers' = [i \in DOMAIN timers |-> Aged(timers[i])]
        /\ wait' = IF wait \in {0, Forever} THEN wait ELSE wait - 1
        /\ UNCHANGED <<phase, next, sweep, fdVars, ready, closed, calling>>
    BY <1>4 DEF Tick, Aged
  <2>2. \A i \in DOMAIN timers : timers[i] \in TimerRecords
    BY LenProperties, ElementOfSeq DEF TimerList
  <2>3. \A i \in DOMAIN timers : timers'[i] \in TimerRecords /\ timers'[i].id = timers[i].id
    BY <2>1, <2>2, AgedTimer
  <2>4. TimerList(timers') /\ TimerIds(timers') = TimerIds(timers)
    BY <2>1, <2>3, ChangedTimers
  <2>5. wait' \in 0 .. Forever
    BY <2>1 DEF WalkTypeOK, Forever, EventLoopAssumption
  <2> QED
    BY <2>1, <2>4, <2>5 DEF WalkTypeOK, WalkIsSafe, CallInWalk, DataIsThere, fdVars, Forever
<1>5. ASSUME NEW fd \in Fds, Arrive(fd) PROVE LoopIInv'
  <2>1. /\ ready' = ready \cup {fd}
        /\ UNCHANGED <<loopVars, fdVars, timers, closed, calling>>
    BY <1>5 DEF Arrive
  <2> QED
    BY <2>1 DEF WalkTypeOK, WalkIsSafe, CallInWalk, DataIsThere, loopVars, fdVars, Forever
<1> QED
  BY <1>1, <1>2, <1>3, <1>4, <1>5

LEMMA LoopInductive == Spec => []LoopIInv
<1>0. EventLoopAssumption
  BY EventLoopAssumption
<1>1. Init => LoopIInv
  <2> SUFFICES ASSUME Init PROVE LoopIInv
    OBVIOUS
  <2>1. \A S : <<>> \in Seq(S) /\ Len(<<>>) = 0 /\ DOMAIN <<>> = {}
    OBVIOUS
  <2>2. Arrays(fds, events, capacity)
    BY <1>0, <2>1 DEF Init, Arrays, EventLoopAssumption
  <2>3. TimerList(timers)
    BY <2>1 DEF Init, TimerList
  <2>4. WalkTypeOK
    BY <1>0, <2>1 DEF Init, WalkTypeOK, EventLoopAssumption, Forever, Calls
  <2> QED
    BY <2>1, <2>2, <2>3, <2>4
       DEF Init, LoopIInv, WalkIsSafe, IsInjective, Range, CallInWalk, DataIsThere
<1>2. LoopIInv /\ [Next]_vars => LoopIInv'
  <2> SUFFICES ASSUME LoopIInv, [Next]_vars PROVE LoopIInv'
    OBVIOUS
  <2>1. CASE Users
    BY <1>0, <2>1, UsersKeep
  <2>2. CASE BeginPoll \/ PollReturns \/ DispatchFd \/ FreeRemovedFds
    BY <1>0, <2>2, FdWalkKeeps
  <2>3. CASE VisitTimer \/ EndPoll \/ Return \/ Tick \/ \E fd \in Fds : Arrive(fd)
    BY <1>0, <2>3, TimerWalkKeeps
  <2>4. CASE UNCHANGED vars
    BY <2>4 DEF vars, loopVars, fdVars, LoopIInv, WalkTypeOK, WalkIsSafe, CallInWalk, DataIsThere,
                Forever
  <2> QED
    BY <2>1, <2>2, <2>3, <2>4 DEF Next, LoopPoll, PollCompletes, PollInterrupted
<1> QED
  BY <1>1, <1>2, PTL DEF Spec

\* Whatever callbacks add, remove and close while loop_poll walks its lists, the
\* array stays aligned with the list of callbacks and inside its memory, and no
\* timer is visited after it was freed or freed twice.
THEOREM LoopInvariant == Spec => []LoopInv
BY LoopInductive, LoopIInvImplies, PTL

-----------------------------------------------------------------------------
(* The refinement *)

\* Armed, for a list and the callback that runs.
ArmedIn(list, call) ==
  {[id |-> list[i].id, left |-> list[i].left] :
     i \in {j \in DOMAIN list : ~list[j].removed /\ call # TimerCall(list[j].id)}}

\* The timers that may run, from the list's entries.
LEMMA ArmedOfRange ==
  ASSUME NEW list, NEW call
  PROVE  ArmedIn(list, call) =
           {[id |-> r.id, left |-> r.left] :
              r \in {q \in Range(list) : ~q.removed /\ call # TimerCall(q.id)}}
<1> DEFINE A == ArmedIn(list, call)
<1> USE DEF ArmedIn
<1>1. \A a \in A : \E r \in Range(list) :
        ~r.removed /\ call # TimerCall(r.id) /\ a = [id |-> r.id, left |-> r.left]
  BY DEF Range
<1>2. ASSUME NEW r \in Range(list), ~r.removed, call # TimerCall(r.id)
      PROVE  [id |-> r.id, left |-> r.left] \in A
  BY <1>2 DEF Range
<1> QED
  BY <1>1, <1>2

\* A step that changes neither list nor the callback that runs.
LEMMA ArmedKept ==
  ASSUME UNCHANGED <<timers, calling>> PROVE Armed' = Armed
BY DEF Armed

LEMMA HandlersKept ==
  ASSUME UNCHANGED events PROVE Handlers' = Handlers
BY DEF Handlers

\* The users' steps are the abstract users' steps.
LEMMA UsersRefine ==
  ASSUME EventLoopAssumption, LoopIInv, Users
  PROVE  AbstractLoop!Next
<1> USE DEF LoopIInv
<1>1. ASSUME NEW fd \in Fds, AddFd(fd) PROVE AbstractLoop!AddFd(fd)
  <2>1. Handlers' = Handlers \cup {fd}
    BY <1>1, AddedFd
  <2>2. Armed' = Armed /\ UNCHANGED <<ready, calling>>
    BY <1>1, ArmedKept DEF AddFd
  <2> QED
    BY <2>1, <2>2 DEF AbstractLoop!AddFd
<1>2. ASSUME NEW fd \in Fds, RemoveFd(fd) PROVE AbstractLoop!RemoveFd(fd)
  <2>1. fd \in Handlers /\ UNCHANGED <<timers, calling>> /\ ready' \in {ready, ready \ {fd}}
    BY <1>2 DEF RemoveFd
  <2>2. Handlers' = Handlers \ {fd} /\ Armed' = Armed
    BY <1>2, <2>1, RemovedFd, ArmedKept
  <2> QED
    BY <2>1, <2>2 DEF AbstractLoop!RemoveFd
<1>3. ASSUME NEW fd \in Fds, CloseFd(fd) PROVE AbstractLoop!Close(fd)
  BY <1>3, ArmedKept, HandlersKept DEF CloseFd, fdVars, AbstractLoop!Close
<1>4. ASSUME NEW t \in Timers, NEW d \in 0 .. MaxDelay, AddTimer(t, d)
      PROVE  AbstractLoop!AddTimer(t, d)
  <2> DEFINE r == [id |-> t, left |-> d, removed |-> FALSE]
  <2>1. r \in TimerRecords /\ r.id = t /\ r.left = d /\ ~r.removed
    BY DEF TimerRecords, EventLoopAssumption
  <2>2. /\ timers' = <<r>> \o timers /\ t \notin TimerIds(timers)
        /\ UNCHANGED <<fdVars, ready, calling>>
    BY <1>4 DEF AddTimer
  <2> HIDE DEF r
  <2>3. Range(timers') = Range(timers) \cup {r}
    BY <2>1, <2>2, InsertedTimer
  <2>4. calling # TimerCall(t)
    <3>1. TimerCall(t) # NoCall /\ TimerCall(t).kind = "timer" /\ TimerCall(t).of = t
      BY CallKinds
    <3> QED
      BY <2>2, <3>1 DEF WalkIsSafe
  <2>5. Armed' = Armed \cup {[id |-> t, left |-> d]}
    <3> DEFINE Runs(q) == ~q.removed /\ calling # TimerCall(q.id)
    <3>0. Armed = ArmedIn(timers, calling) /\ Armed' = ArmedIn(timers', calling')
      BY DEF Armed, ArmedIn
    <3>1. Armed' = {[id |-> q.id, left |-> q.left] : q \in {p \in Range(timers') : Runs(p)}}
      BY <2>2, <3>0, ArmedOfRange
    <3>2. {p \in Range(timers') : Runs(p)} = {p \in Range(timers) : Runs(p)} \cup {r}
      BY <2>1, <2>3, <2>4
    <3>3. [id |-> r.id, left |-> r.left] = [id |-> t, left |-> d]
      BY <2>1
    <3>4. Armed = {[id |-> q.id, left |-> q.left] : q \in {p \in Range(timers) : Runs(p)}}
      BY <3>0, ArmedOfRange
    <3> HIDE DEF Runs
    <3> QED
      BY <3>1, <3>2, <3>3, <3>4
  <2>6. \A a \in Armed : a.id # t
    BY <2>2 DEF Armed, TimerIds
  <2> QED
    BY <2>2, <2>5, <2>6, HandlersKept DEF AbstractLoop!AddTimer, fdVars
<1>5. ASSUME NEW t \in Timers, RemoveTimer(t) PROVE AbstractLoop!RemoveTimer(t)
  <2>1. timers' = Marked(t) /\ UNCHANGED <<fdVars, ready, calling>>
    BY <1>5 DEF RemoveTimer
  <2>2. /\ DOMAIN timers' = DOMAIN timers
        /\ \A i \in DOMAIN timers :
             IF timers[i].id = t THEN timers'[i].id = t /\ timers'[i].removed
             ELSE timers'[i] = timers[i]
    BY <2>1 DEF Marked
  <2>3. Armed' = {a \in Armed : a.id # t}
    <3>1. ASSUME NEW a \in Armed' PROVE a \in Armed /\ a.id # t
      <4>1. PICK i \in DOMAIN timers : /\ ~timers'[i].removed /\ calling # TimerCall(timers'[i].id)
                                       /\ a = [id |-> timers'[i].id, left |-> timers'[i].left]
        BY <2>1, <2>2 DEF Armed
      <4>2. timers[i].id # t /\ timers'[i] = timers[i]
        BY <2>2, <4>1
      <4> QED
        BY <4>1, <4>2 DEF Armed
    <3>2. ASSUME NEW a \in Armed, a.id # t PROVE a \in Armed'
      <4>1. PICK i \in DOMAIN timers : /\ ~timers[i].removed /\ calling # TimerCall(timers[i].id)
                                       /\ a = [id |-> timers[i].id, left |-> timers[i].left]
        BY DEF Armed
      <4>2. timers'[i] = timers[i]
        BY <2>2, <3>2, <4>1
      <4> QED
        BY <2>1, <2>2, <4>1, <4>2 DEF Armed
    <3> QED
      BY <3>1, <3>2
  <2> QED
    BY <2>1, <2>3, HandlersKept DEF AbstractLoop!RemoveTimer, fdVars
<1> QED
  BY <1>1, <1>2, <1>3, <1>4, <1>5 DEF Users, AbstractLoop!Next

\* Freeing a timer that may not run any more disarms nothing.
LEMMA FreedWasSpent ==
  ASSUME TimerList(timers), NEW t \in TimerIds(timers), timers' = Without(t),
         TimerOf(t).removed \/ calling = TimerCall(t),
         \A r \in Range(timers) : r.id # t => (calling = TimerCall(r.id) <=> calling' = TimerCall(r.id))
  PROVE  Armed' = Armed
<1> DEFINE Runs(q) == ~q.removed /\ calling # TimerCall(q.id)
           RunsNow(q) == ~q.removed /\ calling' # TimerCall(q.id)
<1>1. Range(timers') = {r \in Range(timers) : r.id # t}
  BY FreedTimer
<1>2. \A r \in Range(timers) : r.id = t => ~Runs(r)
  BY TimerFound
<1>3. {q \in Range(timers') : RunsNow(q)} = {q \in Range(timers) : Runs(q)}
  BY <1>1, <1>2
<1>0. Armed = ArmedIn(timers, calling) /\ Armed' = ArmedIn(timers', calling')
  BY DEF Armed, ArmedIn
<1>4. Armed = {[id |-> r.id, left |-> r.left] : r \in {q \in Range(timers) : Runs(q)}}
  BY <1>0, ArmedOfRange
<1>5. Armed' = {[id |-> r.id, left |-> r.left] : r \in {q \in Range(timers') : RunsNow(q)}}
  BY <1>0, ArmedOfRange
<1> QED
  BY <1>3, <1>4, <1>5

\* No timer's callback begins or ends in the step.
LEMMA ArmedUnlessTimer ==
  ASSUME TimerList(timers), UNCHANGED timers,
         \A t \in Timers : calling # TimerCall(t) /\ calling' # TimerCall(t)
  PROVE  Armed' = Armed
<1>1. \A i \in DOMAIN timers : timers[i].id \in Timers
  <2>1. \A i \in DOMAIN timers : timers[i] \in TimerRecords
    BY LenProperties, ElementOfSeq DEF TimerList
  <2> QED
    BY <2>1 DEF TimerRecords
<1> QED
  BY <1>1 DEF Armed

\* Up to and in the walk over the descriptors, loop_poll only calls registered
\* descriptors that have data.
LEMMA FdWalkRefines ==
  ASSUME EventLoopAssumption, LoopIInv,
         BeginPoll \/ PollReturns \/ DispatchFd \/ FreeRemovedFds
  PROVE  AbstractLoop!Next \/ UNCHANGED AbstractLoop!vars
<1> USE DEF LoopIInv
<1>1. CASE BeginPoll
  BY <1>1, ArmedKept, HandlersKept DEF BeginPoll, fdVars, AbstractLoop!vars
<1>2. CASE PollReturns
  BY <1>2, ArmedKept, HandlersKept DEF PollReturns, AbstractLoop!vars
<1>3. CASE DispatchFd
  <2>1. /\ phase = "fds" /\ calling = NoCall /\ next <= Len(events)
        /\ calling' = IF Due(next) THEN FdCall(events[next].fd, fds[next].fd) ELSE NoCall
        /\ UNCHANGED <<fdVars, timers, ready>>
    BY <1>3 DEF DispatchFd
  <2>2. \A t \in Timers : NoCall # TimerCall(t)
    BY CallKinds
  <2>3. CASE ~Due(next)
    BY <2>1, <2>3, ArmedKept, HandlersKept DEF fdVars, AbstractLoop!vars
  <2>4. CASE Due(next)
    <3> DEFINE fd == fds[next].fd
    <3>1. /\ next \in DOMAIN fds /\ DOMAIN events = DOMAIN fds
          /\ fd = events[next].fd /\ fd \in Fds
      <4>1. /\ DOMAIN fds = 1 .. Len(fds) /\ DOMAIN events = 1 .. Len(fds)
            /\ \A k \in 1 .. Len(fds) : fds[k] \in FdRecords
            /\ Len(events) = Len(fds) /\ Len(fds) \in Nat
        BY ArraysDomain DEF Arrays
      <4>2. next \in 1 .. Len(fds)
        BY <2>1, <4>1 DEF WalkTypeOK
      <4> QED
        BY <4>1, <4>2 DEF Arrays, FdRecords
    <3>2. fd \in Handlers /\ fd \in ready
      <4>1. ~events[next].removed /\ fds[next].revents = "data" /\ next >= next
        BY <2>4 DEF Due, WalkTypeOK
      <4> QED
        BY <2>1, <3>1, <4>1 DEF Handlers, DataIsThere
    <3>3. calling' = FdCall(fd, fd)
      BY <2>1, <2>4, <3>1
    <3> HIDE DEF fd
    <3>4. \A t \in Timers : FdCall(fd, fd) # TimerCall(t)
      BY <3>1, CallKinds
    <3>5. Armed' = Armed /\ Handlers' = Handlers
      BY <2>1, <2>2, <3>3, <3>4, ArmedUnlessTimer, HandlersKept DEF fdVars
    <3>6. AbstractLoop!CallFd(fd)
      BY <2>1, <3>2, <3>3, <3>5 DEF AbstractLoop!CallFd, AbstractLoop!FdCall, FdCall
    <3> QED
      BY <3>1, <3>6 DEF AbstractLoop!Next
  <2> QED
    BY <2>3, <2>4
<1>4. CASE FreeRemovedFds
  BY <1>4, CompactedFds, ArmedKept DEF FreeRemovedFds, AbstractLoop!vars
<1> QED
  BY <1>1, <1>2, <1>3, <1>4

\* In the walk over the timers only an armed one that has expired is called, and
\* freeing one, marked or run, is not seen from outside.
LEMMA TimerWalkRefines ==
  ASSUME EventLoopAssumption, LoopIInv, VisitTimer \/ EndPoll
  PROVE  AbstractLoop!Next \/ UNCHANGED AbstractLoop!vars
<1> USE DEF LoopIInv
<1>1. CASE EndPoll
  BY <1>1, ArmedKept, HandlersKept DEF EndPoll, fdVars, AbstractLoop!vars
<1>2. CASE VisitTimer
  <2> DEFINE h == Head(sweep)
             t == TimerOf(h)
  <2>1. /\ calling = NoCall /\ sweep # <<>> /\ sweep' = Tail(sweep)
        /\ timers' = IF t.removed THEN Without(t.id) ELSE timers
        /\ calling' = IF ~t.removed /\ t.left < 0 THEN TimerCall(t.id) ELSE NoCall
        /\ UNCHANGED <<fdVars, ready>>
    BY <1>2 DEF VisitTimer
  <2>2. h \in TimerIds(timers)
    BY <2>1, SweepTail DEF WalkTypeOK, WalkIsSafe
  <2>3. /\ t \in TimerRecords /\ t.id = h /\ t \in Range(timers) /\ h \in Timers
        /\ \A r \in Range(timers) : r.id = h => r = t
    BY <2>2, TimerFound DEF TimerRecords
  <2>4. Handlers' = Handlers
    BY <2>1, HandlersKept DEF fdVars
  <2>5. CASE t.removed
    <3>1. timers' = Without(h) /\ calling' = NoCall /\ TimerOf(h).removed
      BY <2>1, <2>3, <2>5
    <3>2. Armed' = Armed
      BY <2>1, <2>2, <3>1, FreedWasSpent
    <3> QED
      BY <2>1, <2>4, <3>1, <3>2 DEF AbstractLoop!vars
  <2>6. CASE ~t.removed /\ t.left >= 0
    <3>1. ~(t.left < 0)
      BY <2>3, <2>6, EventLoopAssumption DEF TimerRecords, EventLoopAssumption
    <3>2. UNCHANGED <<timers, calling>>
      BY <2>1, <2>6, <3>1
    <3> QED
      BY <2>1, <2>4, <3>2, ArmedKept DEF AbstractLoop!vars
  <2>7. CASE ~t.removed /\ t.left < 0
    <3> DEFINE a == [id |-> t.id, left |-> t.left]
               Runs(q) == ~q.removed
               RunsNow(q) == ~q.removed /\ q.id # h
    <3>1. timers' = timers /\ calling' = TimerCall(h)
      BY <2>1, <2>3, <2>7
    <3>2. \A r \in Range(timers) : r.id \in Timers
      <4>1. \A r \in Range(timers) : r \in TimerRecords
        BY LenProperties, ElementOfSeq DEF TimerList, Range
      <4> QED
        BY <4>1 DEF TimerRecords
    <3>3. \A r \in Range(timers) : /\ calling # TimerCall(r.id)
                                   /\ calling' # TimerCall(r.id) <=> r.id # h
      BY <2>1, <2>3, <3>1, <3>2, CallKinds
    <3>4. Armed = ArmedIn(timers, calling) /\ Armed' = ArmedIn(timers, calling')
      BY <3>1 DEF Armed, ArmedIn
    <3>5. /\ Armed = {[id |-> r.id, left |-> r.left] : r \in {q \in Range(timers) : Runs(q)}}
          /\ Armed' = {[id |-> r.id, left |-> r.left] : r \in {q \in Range(timers) : RunsNow(q)}}
      <4>1. {q \in Range(timers) : ~q.removed /\ calling # TimerCall(q.id)} =
              {q \in Range(timers) : Runs(q)}
        BY <3>3
      <4>2. {q \in Range(timers) : ~q.removed /\ calling' # TimerCall(q.id)} =
              {q \in Range(timers) : RunsNow(q)}
        BY <3>3
      <4> QED
        BY <3>4, <4>1, <4>2, ArmedOfRange
    <3>6. a \in Armed /\ a.id = h /\ a.left = t.left
      BY <2>3, <2>7, <3>5
    <3>7. Armed' = Armed \ {a}
      <4>1. ASSUME NEW b \in Armed' PROVE b \in Armed \ {a}
        BY <3>5, <3>6
      <4>2. ASSUME NEW b \in Armed, b # a PROVE b \in Armed'
        <5>1. PICK r \in Range(timers) : ~r.removed /\ b = [id |-> r.id, left |-> r.left]
          BY <3>5
        <5>2. r.id # h
          BY <2>3, <4>2, <5>1
        <5> QED
          BY <3>5, <5>1, <5>2
      <4> QED
        BY <4>1, <4>2
    <3> HIDE DEF a
    <3>8. AbstractLoop!CallTimer(a)
      BY <2>1, <2>4, <2>7, <3>1, <3>6, <3>7
         DEF AbstractLoop!CallTimer, AbstractLoop!Passed, AbstractLoop!TimerCall, TimerCall
    <3> QED
      BY <3>6, <3>8 DEF AbstractLoop!Next
  <2>8. t.left >= 0 \/ t.left < 0
    BY <2>3, EventLoopAssumption DEF TimerRecords, EventLoopAssumption
  <2> QED
    BY <2>5, <2>6, <2>7, <2>8
<1> QED
  BY <1>1, <1>2

\* A callback's return, data and time.
LEMMA OthersRefine ==
  ASSUME EventLoopAssumption, LoopIInv, Return \/ Tick \/ \E fd \in Fds : Arrive(fd)
  PROVE  AbstractLoop!Next
<1> USE DEF LoopIInv
<1>1. ASSUME Return PROVE AbstractLoop!Return
  <2>1. /\ calling # NoCall /\ calling' = NoCall
        /\ timers' = IF calling.kind = "timer" THEN Without(calling.of) ELSE timers
        /\ UNCHANGED fdVars
        /\ \/ UNCHANGED ready
           \/ calling.kind = "fd" /\ ready' = ready \ {calling.fd}
    BY <1>1 DEF Return
  <2>2. \A t \in Timers : NoCall # TimerCall(t) /\ TimerCall(t).kind = "timer" /\ TimerCall(t).of = t
    BY CallKinds
  <2>3. Armed' = Armed
    <3>1. CASE calling.kind = "timer"
      <4> DEFINE t == calling.of
      <4>1. t \in TimerIds(timers) /\ t \in Timers /\ calling = TimerCall(t)
        BY <2>1, <3>1, CallKinds DEF WalkIsSafe, WalkTypeOK
      <4> HIDE DEF t
      <4>2. \A r \in Range(timers) : r.id \in Timers
        <5>1. \A r \in Range(timers) : r \in TimerRecords
          BY LenProperties, ElementOfSeq DEF TimerList, Range
        <5> QED
          BY <5>1 DEF TimerRecords
      <4>3. \A r \in Range(timers) : r.id # t => calling # TimerCall(r.id) /\ calling' # TimerCall(r.id)
        BY <2>1, <2>2, <4>1, <4>2
      <4>4. timers' = Without(t)
        BY <2>1, <3>1 DEF t
      <4> QED
        BY <4>1, <4>3, <4>4, FreedWasSpent
    <3>2. CASE calling.kind # "timer"
      BY <2>1, <2>2, <3>2, ArmedUnlessTimer
    <3> QED
      BY <3>1, <3>2
  <2> QED
    BY <2>1, <2>3, HandlersKept DEF AbstractLoop!Return, fdVars
<1>2. ASSUME Tick PROVE AbstractLoop!Tick
  <2>1. /\ timers' = [i \in DOMAIN timers |-> Aged(timers[i])]
        /\ UNCHANGED <<fdVars, ready, calling>>
    BY <1>2 DEF Tick, Aged
  <2> DEFINE J == {j \in DOMAIN timers : ~timers[j].removed /\ calling # TimerCall(timers[j].id)}
             Rec(r) == [id |-> r.id, left |-> r.left]
             Old(a) == [a EXCEPT !.left = AbstractLoop!Tock(a.left)]
  <2>2. \A i \in DOMAIN timers : timers[i] \in TimerRecords
    BY LenProperties, ElementOfSeq DEF TimerList
  <2>3. \A i \in DOMAIN timers :
          /\ timers'[i].id = timers[i].id /\ timers'[i].removed = timers[i].removed
          /\ timers'[i].left = IF timers[i].left < 0 THEN timers[i].left ELSE timers[i].left - 1
    BY <2>1, <2>2, AgedTimer
  <2>4. Armed = {Rec(timers[i]) : i \in J}
    BY DEF Armed
  <2>5. Armed' = {Rec(timers'[i]) : i \in J}
    <3>1. J = {j \in DOMAIN timers' : ~timers'[j].removed /\ calling' # TimerCall(timers'[j].id)}
      BY <2>1, <2>3
    <3> QED
      BY <3>1 DEF Armed
  <2>6. \A i \in J : Rec(timers'[i]) = Old(Rec(timers[i]))
    BY <2>3 DEF AbstractLoop!Tock, AbstractLoop!Passed
  <2>7. Armed' = {Old(a) : a \in Armed}
    <3> HIDE DEF J, Rec, Old
    <3> QED
      BY <2>4, <2>5, <2>6
  <2> QED
    BY <2>1, <2>7, HandlersKept DEF AbstractLoop!Tick, fdVars
<1>3. ASSUME NEW fd \in Fds, Arrive(fd) PROVE AbstractLoop!Arrive(fd)
  BY <1>3, ArmedKept, HandlersKept DEF Arrive, fdVars, AbstractLoop!Arrive
<1> QED
  BY <1>1, <1>2, <1>3 DEF AbstractLoop!Next

\* loop_poll implements loop.h's promise: whatever callbacks add, remove and
\* close, each step of the loop and of its users is one of the abstract loop, or
\* is not seen from outside.
THEOREM KeepsPromiseHolds == Spec => KeepsPromise
<1>0. EventLoopAssumption
  BY EventLoopAssumption
<1>1. Init => AbstractLoop!Init
  <2> SUFFICES ASSUME Init PROVE AbstractLoop!Init
    OBVIOUS
  <2>1. DOMAIN events = {} /\ DOMAIN timers = {}
    BY DEF Init
  <2> QED
    BY <2>1 DEF Init, AbstractLoop!Init, Handlers, Armed
<1>2. LoopIInv /\ [Next]_vars => [AbstractLoop!Next]_(AbstractLoop!vars)
  <2> SUFFICES ASSUME LoopIInv, [Next]_vars
               PROVE  AbstractLoop!Next \/ UNCHANGED AbstractLoop!vars
    OBVIOUS
  <2>1. CASE Users
    BY <1>0, <2>1, UsersRefine
  <2>2. CASE BeginPoll \/ PollReturns \/ DispatchFd \/ FreeRemovedFds
    BY <1>0, <2>2, FdWalkRefines
  <2>3. CASE VisitTimer \/ EndPoll
    BY <1>0, <2>3, TimerWalkRefines
  <2>4. CASE Return \/ Tick \/ \E fd \in Fds : Arrive(fd)
    BY <1>0, <2>4, OthersRefine
  <2>5. CASE UNCHANGED vars
    BY <2>5, ArmedKept, HandlersKept DEF vars, fdVars, AbstractLoop!vars
  <2> QED
    BY <2>1, <2>2, <2>3, <2>4, <2>5 DEF Next, LoopPoll, PollCompletes, PollInterrupted
<1> QED
  BY <1>1, <1>2, LoopInductive, PTL DEF Spec, KeepsPromise, AbstractLoop!Spec

=============================================================================
