---------------------------- MODULE MemoryProofs ----------------------------
(***************************************************************************)
(* Theorems about the memory a program draws into, for every set of        *)
(* buffers, surfaces, pools, inodes, descriptors and feedback objects:     *)
(* dmabuf feedback, shared memory pools, and buffers.                      *)
(***************************************************************************)
EXTENDS Buffers, ShmPools, DmabufFeedback, FiniteSetTheorems, TLAPS

-----------------------------------------------------------------------------
(* Dmabuf feedback *)

Descriptions == [device : Devices, fd : Nums, tranches : Seq(Devices \X Formats)]
Announcements == [device : Devices, table : Tables, tranches : Seq(Devices \X Formats)]

FeedbackTypeOK ==
  /\ building \in Descriptions /\ current \in Descriptions
  /\ said \in Announcements /\ announced \in Announcements
  /\ tranche \in {NoTranche} \cup Devices \X Formats
  /\ listed \subseteq Instances
  /\ received = [i \in Instances |-> received[i]]

\* What is being built is what the compositor has said so far.
BuildingFollows ==
  /\ building.device = said.device /\ opened[building.fd] = said.table
  /\ building.tranches = said.tranches

FeedbackIInv == FeedbackTypeOK /\ FeedbackInv /\ BuildingFollows

\* Every feedback object of every program has the compositor's last complete
\* description, and exactly two table descriptors are open, whatever the order
\* of the compositor's events and the programs' requests.
THEOREM FeedbackInvariant == FeedbackSpec => []FeedbackInv
<1> USE FeedbackAssumption
<1>1. FeedbackInit => FeedbackIInv
  <2> SUFFICES ASSUME FeedbackInit PROVE FeedbackIInv
    OBVIOUS
  <2> DEFINE n == CHOOSE n \in Nums : TRUE
             m == CHOOSE m \in Nums : m # n
             t == CHOOSE t \in Tables : TRUE
             d == CHOOSE d \in Devices : TRUE
             f == CHOOSE f \in Formats : TRUE
  <2>1. n \in Nums /\ t \in Tables /\ d \in Devices /\ f \in Formats
    OBVIOUS
  <2>2. m \in Nums /\ m # n
    <3>1. \E k \in Nums : k # n
      BY <2>1
    <3> QED
      BY <3>1
  <2>3. /\ opened = [k \in {n, m} |-> t]
        /\ current = [device |-> d, fd |-> n, tranches |-> <<<<d, f>>>>]
        /\ building = [device |-> d, fd |-> m, tranches |-> <<>>]
        /\ tranche = <<>> /\ listed = {} /\ received = [i \in Instances |-> NoFd]
        /\ announced = [device |-> d, table |-> t, tranches |-> <<<<d, f>>>>]
        /\ said = [announced EXCEPT !.tranches = <<>>]
    BY DEF FeedbackInit, NoTranche
  <2>4. said = [device |-> d, table |-> t, tranches |-> <<>>]
    BY <2>3
  <2> HIDE DEF n, m, t, d, f
  <2>5. <<<<d, f>>>> \in Seq(Devices \X Formats) /\ <<>> \in Seq(Devices \X Formats)
    BY <2>1
  <2>6. FeedbackTypeOK
    BY <2>1, <2>2, <2>3, <2>4, <2>5 DEF FeedbackTypeOK, Descriptions, Announcements, NoTranche
  <2>7. FeedbackInv /\ BuildingFollows
    BY <2>2, <2>3, <2>4 DEF FeedbackInv, BuildingFollows, TwoTables, Contents
  <2> QED
    BY <2>6, <2>7 DEF FeedbackIInv
<1>2. FeedbackIInv /\ [FeedbackNext]_feedbackVars => FeedbackIInv'
  <2> SUFFICES ASSUME FeedbackIInv, [FeedbackNext]_feedbackVars PROVE FeedbackIInv'
    OBVIOUS
  <2> USE DEF FeedbackIInv, FeedbackTypeOK, FeedbackInv, BuildingFollows, TwoTables,
              Contents, Descriptions, Announcements, NoTranche
  <2>1. ASSUME NEW t \in Tables, FormatTable(t) PROVE FeedbackIInv'
    <3>1. PICK n \in Unused :
            /\ opened' = Closed(Opened(n, t), building.fd)
            /\ building' = [building EXCEPT !.fd = n]
            /\ said' = [said EXCEPT !.table = t]
            /\ UNCHANGED <<tranche, current, listed, received, announced>>
      BY <2>1 DEF FormatTable
    <3>2. n \in Nums /\ n # current.fd /\ n # building.fd
      BY DEF Unused
    <3>3. opened' = [k \in {current.fd, n} |-> IF k = n THEN t ELSE opened[k]]
      BY <3>1, <3>2 DEF Opened, Closed
    <3>4. FeedbackTypeOK'
      BY <3>1, <3>2
    <3> QED
      BY <3>1, <3>2, <3>3, <3>4
  <2>2. ASSUME NEW d \in Devices, MainDevice(d) PROVE FeedbackIInv'
    BY <2>2 DEF MainDevice
  <2>3. ASSUME NEW d \in Devices, NEW f \in Formats, Tranche(d, f) PROVE FeedbackIInv'
    BY <2>3 DEF Tranche
  <2>4. CASE TrancheDone
    <3>1. tranche \in Devices \X Formats
      BY <2>4 DEF TrancheDone
    <3>2. /\ Append(building.tranches, tranche) \in Seq(Devices \X Formats)
          /\ Append(said.tranches, tranche) \in Seq(Devices \X Formats)
      BY <3>1
    <3>3. FeedbackTypeOK'
      BY <2>4, <3>2 DEF TrancheDone
    <3> QED
      BY <2>4, <3>3 DEF TrancheDone
  <2>5. CASE FeedbackDone
    <3>1. PICK n \in Unused :
            /\ opened' = Closed(Opened(n, opened[building.fd]), current.fd)
            /\ building' = [building EXCEPT !.fd = n, !.tranches = <<>>]
      BY <2>5 DEF FeedbackDone, KeepTable
    <3>2. n \in Nums /\ n # current.fd /\ n # building.fd
      BY DEF Unused
    <3>3. opened' = [k \in {building.fd, n} |-> opened[building.fd]]
      BY <3>1, <3>2 DEF Opened, Closed
    <3>4. /\ current' = building /\ announced' = said
          /\ said' = [said EXCEPT !.tranches = <<>>]
          /\ received' = [i \in Instances |->
               IF i \in listed THEN Contents(current', opened') ELSE NoFd]
          /\ UNCHANGED <<tranche, listed>>
      BY <2>5 DEF FeedbackDone
    <3>5. building' = [device |-> building.device, fd |-> n, tranches |-> <<>>]
      BY <3>1
    <3>6. FeedbackTypeOK'
      <4>1. <<>> \in Seq(Devices \X Formats)
        OBVIOUS
      <4>2. building' \in Descriptions /\ current' \in Descriptions
        BY <3>2, <3>4, <3>5, <4>1
      <4>3. said' = [device |-> said.device, table |-> said.table, tranches |-> <<>>]
        BY <3>4
      <4>4. said' \in Announcements /\ announced' \in Announcements
        BY <3>4, <4>1, <4>3
      <4>5. received' = [i \in Instances |-> received'[i]]
        BY <3>4
      <4> QED
        BY <3>4, <4>2, <4>4, <4>5
    <3>7. Contents(current', opened') = announced'
      BY <3>2, <3>3, <3>4
    <3>8. BuildingFollows'
      BY <3>2, <3>3, <3>4, <3>5
    <3>9. TwoTables'
      BY <3>2, <3>3, <3>4, <3>5
    <3> QED
      BY <3>4, <3>6, <3>7, <3>8, <3>9
  <2>6. ASSUME NEW i \in Instances, GetFeedback(i) PROVE FeedbackIInv'
    BY <2>6 DEF GetFeedback
  <2>7. ASSUME NEW i \in Instances, DestroyFeedback(i) PROVE FeedbackIInv'
    BY <2>7 DEF DestroyFeedback
  <2>8. CASE UNCHANGED feedbackVars
    BY <2>8 DEF feedbackVars
  <2> QED
    BY <2>1, <2>2, <2>3, <2>4, <2>5, <2>6, <2>7, <2>8 DEF FeedbackNext
<1>3. FeedbackIInv => FeedbackInv
  BY DEF FeedbackIInv
<1> QED
  BY <1>1, <1>2, <1>3, PTL DEF FeedbackSpec

-----------------------------------------------------------------------------
(* Shared memory pools *)

PoolRecords == [file : Files, size : Sizes]
EntryRecords == [ino : Inodes \cup {NULL}, size : Sizes, refcount : Nat]

PoolsShape ==
  /\ entry \in [Entries -> EntryRecords \cup {NULL}]
  /\ upstream \in [Entries -> PoolRecords \cup {NULL}]
  /\ asked \in [Pools -> PoolRecords \cup {NULL}]

\* An upstream pool is over a file that still has its inode, an entry records
\* the size its upstream pool has, and a listed one is listed under the inode
\* of its file: what is found under an inode is over the file that has it now.
EntriesCurrent ==
  /\ \A e \in live : /\ upstream[e].file.gen = generation[upstream[e].file.ino]
                     /\ entry[e].size = upstream[e].size
  /\ \A e \in shared : entry[e].ino = upstream[e].file.ino

PoolsIInv == PoolsInv /\ PoolsShape /\ EntriesCurrent

\* Growing an upstream pool keeps its file, covers the size asked for and what
\* it covered, and the entry records the size it then has.
LEMMA ResizedPool ==
  ASSUME PoolsIInv, NEW e \in live, NEW size \in Sizes, NEW n \in Nat
  PROVE  LET up == Resized(e, size)
             rec == Recorded(e, size, n)
         IN  /\ up \in PoolRecords /\ up.file = upstream[e].file
             /\ up.size >= upstream[e].size /\ up.size >= size
             /\ rec \in EntryRecords /\ rec.size = up.size /\ rec.ino = entry[e].ino
             /\ rec.refcount = entry[e].refcount + n
<1> USE ShmPoolsAssumption
<1>1. /\ upstream[e].file \in Files /\ upstream[e].size \in Sizes
      /\ entry[e].ino \in Inodes \cup {NULL} /\ entry[e].refcount \in Nat
      /\ entry[e].size = upstream[e].size
  BY DEF PoolsIInv, PoolsInv, PoolsTypeOK, EntriesCurrent
<1>2. Larger(upstream[e].size, size) \in Sizes
  BY <1>1 DEF Larger
<1>3. Resized(e, size) = [file |-> upstream[e].file, size |-> Larger(upstream[e].size, size)]
  BY <1>1 DEF Resized, Larger, Sizes
<1>4. Recorded(e, size, n) = [ino |-> entry[e].ino, size |-> Larger(upstream[e].size, size),
                              refcount |-> entry[e].refcount + n]
  BY <1>1 DEF Recorded
<1>5. /\ Larger(upstream[e].size, size) >= upstream[e].size
      /\ Larger(upstream[e].size, size) >= size
  BY <1>1 DEF Larger, Sizes
<1> QED
  BY <1>1, <1>2, <1>3, <1>4, <1>5 DEF PoolRecords, EntryRecords

\* A nested pool that starts to use an entry adds one to its users.
LEMMA UsersAdd ==
  ASSUME PoolsTypeOK, NEW p \in Pools, user[p] = NULL, NEW e \in Entries,
         user' = [user EXCEPT ![p] = e]
  PROVE  /\ Users(e)' # {} /\ Cardinality(Users(e)') = Cardinality(Users(e)) + 1
         /\ \A f \in Entries \ {e} : Users(f)' = Users(f)
<1> USE ShmPoolsAssumption DEF PoolsTypeOK, Users
<1>1. Users(e)' = Users(e) \cup {p} /\ p \notin Users(e)
  OBVIOUS
<1>2. IsFiniteSet(Users(e))
  BY FS_Subset
<1>3. Cardinality(Users(e)') = Cardinality(Users(e)) + 1
  BY <1>1, <1>2, FS_AddElement
<1>4. \A f \in Entries \ {e} : Users(f)' = Users(f)
  OBVIOUS
<1> QED
  BY <1>1, <1>3, <1>4

\* A nested pool that is destroyed takes one from the users of its entry, and
\* the last one leaves none.
LEMMA UsersRemove ==
  ASSUME PoolsTypeOK, NEW p \in Pools, NEW e \in Entries, user[p] = e,
         user' = [user EXCEPT ![p] = NULL]
  PROVE  /\ Cardinality(Users(e)) \in Nat \ {0}
         /\ Cardinality(Users(e)') = Cardinality(Users(e)) - 1
         /\ Cardinality(Users(e)) > 1 => Users(e)' # {}
         /\ Cardinality(Users(e)) = 1 => \A q \in Pools \ {p} : user[q] # e
         /\ \A f \in Entries \ {e} : Users(f)' = Users(f)
<1> USE ShmPoolsAssumption DEF PoolsTypeOK, Users
<1>1. Users(e)' = Users(e) \ {p} /\ p \in Users(e)
  OBVIOUS
<1>2. IsFiniteSet(Users(e)) /\ IsFiniteSet(Users(e)')
  BY <1>1, FS_Subset
<1>3. Cardinality(Users(e)') = Cardinality(Users(e)) - 1
  BY <1>1, <1>2, FS_RemoveElement
<1>4. Cardinality(Users(e)) \in Nat /\ Cardinality(Users(e)') \in Nat
  BY <1>2, FS_CardinalityType
<1>5. Cardinality(Users(e)) \in Nat \ {0}
  BY <1>3, <1>4
<1> HIDE DEF Users
<1>6. ASSUME Cardinality(Users(e)) > 1 PROVE Users(e)' # {}
  <2> SUFFICES ASSUME Users(e)' = {} PROVE FALSE
    OBVIOUS
  <2>1. Cardinality(Users(e)') = 0
    BY FS_EmptySet
  <2> QED
    BY <1>3, <1>5, <1>6, <2>1
<1>7. ASSUME Cardinality(Users(e)) = 1 PROVE \A q \in Pools \ {p} : user[q] # e
  <2>1. Users(e)' = {}
    BY <1>2, <1>3, <1>7, FS_EmptySet
  <2> QED
    BY <2>1 DEF Users
<1>8. \A f \in Entries \ {e} : Users(f)' = Users(f)
  BY DEF Users
<1> QED
  BY <1>3, <1>5, <1>6, <1>7, <1>8

\* What the handlers of pools maintain.
LEMMA PoolsInductive == PoolsSpec => []PoolsIInv
<1> USE ShmPoolsAssumption DEF PoolsIInv, PoolsInv
<1>1. PoolsInit => PoolsIInv
  BY DEF PoolsInit, PoolsTypeOK, RefsExact, OneForwardPerFile, PoolsCovered, PoolsShape,
         EntriesCurrent
<1>2. PoolsIInv /\ [PoolsNext]_poolVars => PoolsIInv'
  <2> SUFFICES ASSUME PoolsIInv, [PoolsNext]_poolVars PROVE PoolsIInv'
    OBVIOUS
  <2>1. ASSUME NEW p \in Pools, NEW i \in Inodes, NEW size \in Sizes, NEW known \in BOOLEAN,
               CreatePool(p, i, size, known)
        PROVE  PoolsIInv'
    <3> user[p] = NULL /\ UNCHANGED generation
      BY <2>1 DEF CreatePool
    <3>0. /\ asked' = [asked EXCEPT ![p] = [file |-> FileOf(i), size |-> size]]
          /\ FileOf(i) \in Files
      BY <2>1 DEF CreatePool, FileOf, Files, PoolsTypeOK
    <3>1. CASE known /\ Known(i) # {}
      <4>0. Reuse(p, i, size)
        BY <2>1, <3>1 DEF CreatePool
      <4>1. PICK e \in Known(i) :
              /\ upstream' = [upstream EXCEPT ![e] = Resized(e, size)]
              /\ entry' = [entry EXCEPT ![e] = Recorded(e, size, 1)]
              /\ user' = [user EXCEPT ![p] = e]
              /\ UNCHANGED <<live, shared>>
        BY <4>0 DEF Reuse
      <4>2. e \in live /\ e \in Entries /\ e \in shared /\ entry[e].ino = i
        BY DEF Known, PoolsTypeOK
      <4>3. /\ upstream'[e] = Resized(e, size) /\ entry'[e] = Recorded(e, size, 1)
            /\ \A f \in Entries \ {e} : upstream'[f] = upstream[f] /\ entry'[f] = entry[f]
        BY <4>1, <4>2 DEF PoolsShape
      <4>4. upstream[e].file = FileOf(i)
        BY <4>2 DEF EntriesCurrent, FileOf, Files, PoolsTypeOK
      <4>5. /\ upstream'[e] \in PoolRecords /\ upstream'[e].file = upstream[e].file
            /\ upstream'[e].size >= upstream[e].size /\ upstream'[e].size >= size
            /\ entry'[e] \in EntryRecords /\ entry'[e].size = upstream'[e].size
            /\ entry'[e].ino = entry[e].ino /\ entry'[e].refcount = entry[e].refcount + 1
        BY <4>2, <4>3, ResizedPool
      <4>6. PoolsShape'
        BY <3>0, <4>1, <4>3, <4>5 DEF PoolsShape, PoolRecords
      <4>7. PoolsTypeOK'
        BY <3>0, <4>1, <4>2, <4>3, <4>5 DEF PoolsTypeOK, PoolRecords, EntryRecords, PoolsShape
      <4>8. RefsExact'
        <5>1. /\ Users(e)' # {} /\ Cardinality(Users(e)') = Cardinality(Users(e)) + 1
              /\ \A f \in Entries \ {e} : Users(f)' = Users(f)
          BY <4>1, <4>2, UsersAdd
        <5> QED
          BY <4>1, <4>2, <4>3, <4>5, <5>1 DEF RefsExact, PoolsTypeOK
      <4>9. OneForwardPerFile'
        BY <4>1, <4>2, <4>3, <4>5 DEF OneForwardPerFile, PoolsTypeOK
      <4>10. PoolsCovered'
        <5> SUFFICES ASSUME NEW q \in Pools, user'[q] # NULL
                     PROVE  /\ user'[q] \in live /\ upstream'[user'[q]].file = asked'[q].file
                            /\ upstream'[user'[q]].size >= asked'[q].size
          BY <4>1 DEF PoolsCovered
        <5>1. CASE q = p
          BY <3>0, <4>1, <4>2, <4>4, <4>5, <5>1 DEF PoolsTypeOK, PoolsShape
        <5>2. CASE q # p
          <6>1. user'[q] = user[q] /\ asked'[q] = asked[q] /\ user[q] \in live
            BY <3>0, <4>1, <5>2 DEF PoolsTypeOK, PoolsShape
          <6>2. asked[q].size \in Nat /\ upstream[user[q]].size \in Nat
            BY <6>1 DEF PoolsTypeOK, Sizes
          <6>3. /\ upstream[user[q]].file = asked[q].file
                /\ upstream[user[q]].size >= asked[q].size
            BY <6>1 DEF PoolsCovered
          <6>4. upstream'[e].size \in Nat
            BY <4>5 DEF PoolRecords, Sizes
          <6> QED
            BY <4>2, <4>3, <4>5, <6>1, <6>2, <6>3, <6>4 DEF PoolsTypeOK
        <5> QED
          BY <5>1, <5>2
      <4>11. EntriesCurrent'
        BY <4>1, <4>2, <4>3, <4>5 DEF EntriesCurrent, PoolsTypeOK
      <4> QED
        BY <4>6, <4>7, <4>8, <4>9, <4>10, <4>11
    <3>2. CASE ~(known /\ Known(i) # {})
      <4>1. PICK e \in Entries \ live :
              /\ live' = live \cup {e}
              /\ shared' = IF known THEN shared \cup {e} ELSE shared
              /\ entry' = [entry EXCEPT ![e] =
                   [ino |-> IF known THEN i ELSE NULL, size |-> size, refcount |-> 1]]
              /\ upstream' = [upstream EXCEPT ![e] = [file |-> FileOf(i), size |-> size]]
              /\ user' = [user EXCEPT ![p] = e]
        BY <2>1, <3>2 DEF CreatePool, Forward
      <4>2. /\ upstream'[e] = [file |-> FileOf(i), size |-> size]
            /\ entry'[e] = [ino |-> IF known THEN i ELSE NULL, size |-> size, refcount |-> 1]
            /\ \A f \in Entries \ {e} : upstream'[f] = upstream[f] /\ entry'[f] = entry[f]
        BY <4>1 DEF PoolsShape
      <4>3. PoolsTypeOK'
        BY <3>0, <4>1, <4>2 DEF PoolsTypeOK, PoolsShape, PoolRecords
      <4>4. Users(e) = {}
        BY DEF Users, PoolsTypeOK
      <4>5. RefsExact'
        <5>1. /\ Users(e)' # {} /\ Cardinality(Users(e)') = Cardinality(Users(e)) + 1
              /\ \A f \in Entries \ {e} : Users(f)' = Users(f)
          BY <4>1, UsersAdd
        <5>2. Cardinality(Users(e)') = 1
          BY <4>4, <5>1, FS_EmptySet
        <5> QED
          BY <4>1, <4>2, <5>1, <5>2 DEF RefsExact, PoolsTypeOK
      <4>6. known => \A f \in shared : upstream[f].file # FileOf(i)
        BY <3>2 DEF Known, EntriesCurrent, FileOf
      <4>7. OneForwardPerFile'
        BY <4>1, <4>2, <4>6 DEF OneForwardPerFile, PoolsTypeOK
      <4>8. PoolsCovered'
        <5> SUFFICES ASSUME NEW q \in Pools, user'[q] # NULL
                     PROVE  /\ user'[q] \in live' /\ upstream'[user'[q]].file = asked'[q].file
                            /\ upstream'[user'[q]].size >= asked'[q].size
          BY DEF PoolsCovered
        <5>1. CASE q = p
          BY <3>0, <4>1, <4>2, <5>1 DEF PoolsTypeOK, PoolsShape, Sizes
        <5>2. CASE q # p
          <6>1. user'[q] = user[q] /\ asked'[q] = asked[q] /\ user[q] \in live
            BY <3>0, <4>1, <5>2 DEF PoolsTypeOK, PoolsShape
          <6> QED
            BY <4>1, <4>2, <6>1 DEF PoolsTypeOK, PoolsCovered
        <5> QED
          BY <5>1, <5>2
      <4>9. PoolsShape'
        <5>1. /\ [file |-> FileOf(i), size |-> size] \in PoolRecords
              /\ [ino |-> IF known THEN i ELSE NULL, size |-> size, refcount |-> 1] \in EntryRecords
          BY <3>0 DEF PoolRecords, EntryRecords
        <5> QED
          BY <3>0, <4>1, <5>1 DEF PoolsShape
      <4>10. EntriesCurrent'
        BY <3>0, <4>1, <4>2 DEF EntriesCurrent, PoolsTypeOK, FileOf
      <4> QED
        BY <4>3, <4>5, <4>7, <4>8, <4>9, <4>10
    <3> QED
      BY <3>1, <3>2
  <2>2. ASSUME NEW p \in Pools, NEW size \in Sizes, Resize(p, size) PROVE PoolsIInv'
    <3>1. PICK e \in live : e = user[p]
      BY <2>2 DEF Resize, PoolsTypeOK
    <3>2. /\ e \in Entries /\ UNCHANGED <<generation, live, shared, user>>
          /\ upstream' = [upstream EXCEPT ![e] = Resized(e, size)]
          /\ entry' = [entry EXCEPT ![e] = Recorded(e, size, 0)]
          /\ asked' = [asked EXCEPT ![p].size = Larger(@, size)]
      BY <2>2, <3>1 DEF Resize, Grow, PoolsTypeOK
    <3>3. /\ upstream'[e] = Resized(e, size) /\ entry'[e] = Recorded(e, size, 0)
          /\ \A f \in Entries \ {e} : upstream'[f] = upstream[f] /\ entry'[f] = entry[f]
      BY <3>2 DEF PoolsShape
    <3>4. /\ asked'[p] = [file |-> asked[p].file, size |-> Larger(asked[p].size, size)]
          /\ \A q \in Pools \ {p} : asked'[q] = asked[q]
      <4>1. asked[p] \in PoolRecords
        BY <3>1 DEF PoolsTypeOK, PoolRecords
      <4> QED
        BY <3>2, <4>1 DEF PoolsShape, PoolRecords
    <3>5. /\ upstream'[e] \in PoolRecords /\ upstream'[e].file = upstream[e].file
          /\ upstream'[e].size >= upstream[e].size /\ upstream'[e].size >= size
          /\ entry'[e] \in EntryRecords /\ entry'[e].size = upstream'[e].size
          /\ entry'[e].ino = entry[e].ino /\ entry'[e].refcount = entry[e].refcount
      <4>1. entry[e].refcount \in Nat
        BY <3>1 DEF PoolsTypeOK
      <4> QED
        BY <3>3, <4>1, ResizedPool
    <3>6. /\ asked'[p] \in PoolRecords /\ asked[p].size \in Nat /\ asked[p].file \in Files
          /\ \/ asked'[p].size = asked[p].size
             \/ asked'[p].size = size
      BY <3>1, <3>4 DEF PoolsTypeOK, Larger, Sizes, PoolRecords
    <3>7. PoolsShape'
      BY <3>2, <3>5, <3>3, <3>6, <3>4 DEF PoolsShape
    <3>8. PoolsTypeOK'
      BY <3>2, <3>3, <3>4, <3>5, <3>6 DEF PoolsTypeOK, PoolRecords, EntryRecords
    <3>9. RefsExact'
      <4>1. \A f \in Entries : Users(f)' = Users(f)
        BY <3>2 DEF Users
      <4> QED
        BY <3>2, <3>3, <3>5, <4>1 DEF RefsExact, PoolsTypeOK
    <3>10. OneForwardPerFile'
      BY <3>2, <3>3, <3>5 DEF OneForwardPerFile, PoolsTypeOK
    <3>11. PoolsCovered'
      <4> SUFFICES ASSUME NEW q \in Pools, user[q] # NULL
                   PROVE  /\ user[q] \in live /\ upstream'[user[q]].file = asked'[q].file
                          /\ upstream'[user[q]].size >= asked'[q].size
        BY <3>2 DEF PoolsCovered
      <4>1. /\ user[q] \in live /\ upstream[user[q]].file = asked[q].file
            /\ upstream[user[q]].size >= asked[q].size
            /\ upstream[user[q]].size \in Nat /\ asked[q].size \in Nat
        BY DEF PoolsCovered, PoolsTypeOK, Sizes
      <4>2. upstream'[e].size \in Nat
        BY <3>5 DEF PoolRecords, Sizes
      <4>3. CASE q = p
        BY <3>1, <3>4, <3>5, <3>6, <4>1, <4>2, <4>3
      <4>4. CASE q # p
        BY <3>2, <3>3, <3>4, <3>5, <4>1, <4>2, <4>4 DEF PoolsTypeOK
      <4> QED
        BY <4>3, <4>4
    <3>12. EntriesCurrent'
      BY <3>2, <3>3, <3>5 DEF EntriesCurrent, PoolsTypeOK
    <3> QED
      BY <3>7, <3>8, <3>9, <3>10, <3>11, <3>12
  <2>3. ASSUME NEW p \in Pools, DestroyPool(p) PROVE PoolsIInv'
    <3>1. PICK e \in live : e = user[p]
      BY <2>3 DEF DestroyPool, PoolsTypeOK
    <3>2. /\ e \in Entries /\ e # NULL /\ UNCHANGED generation
          /\ user' = [user EXCEPT ![p] = NULL] /\ asked' = [asked EXCEPT ![p] = NULL]
      BY <2>3, <3>1 DEF DestroyPool, PoolsTypeOK
    <3>3. /\ entry[e].refcount = Cardinality(Users(e)) /\ entry[e].refcount \in Nat \ {0}
          /\ Cardinality(Users(e)') = entry[e].refcount - 1
          /\ entry[e].refcount > 1 => Users(e)' # {}
          /\ entry[e].refcount = 1 => \A q \in Pools \ {p} : user[q] # e
          /\ \A f \in Entries \ {e} : Users(f)' = Users(f)
      <4>1. entry[e].refcount = Cardinality(Users(e))
        BY DEF RefsExact
      <4>2. /\ Cardinality(Users(e)) \in Nat \ {0}
            /\ Cardinality(Users(e)') = Cardinality(Users(e)) - 1
            /\ Cardinality(Users(e)) > 1 => Users(e)' # {}
            /\ Cardinality(Users(e)) = 1 => \A q \in Pools \ {p} : user[q] # e
            /\ \A f \in Entries \ {e} : Users(f)' = Users(f)
        BY <3>1, <3>2, UsersRemove
      <4> QED
        BY <4>1, <4>2
    <3>4. CASE entry[e].refcount > 1
      <4>1. /\ entry' = [entry EXCEPT ![e].refcount = @ - 1]
            /\ UNCHANGED <<live, shared, upstream>>
        BY <2>3, <3>1, <3>4 DEF DestroyPool, Release
      <4>2. /\ entry'[e] = [ino |-> entry[e].ino, size |-> entry[e].size,
                            refcount |-> entry[e].refcount - 1]
            /\ \A f \in Entries \ {e} : entry'[f] = entry[f]
        BY <3>1, <3>2, <4>1 DEF PoolsShape, PoolsTypeOK
      <4>7. entry'[e] \in EntryRecords
        BY <3>1, <3>3, <4>2 DEF PoolsTypeOK, EntryRecords
      <4>3. PoolsTypeOK'
        BY <3>2, <3>3, <4>1, <4>2, <4>7 DEF PoolsTypeOK, PoolsShape, EntryRecords
      <4>4. RefsExact'
        BY <3>2, <3>3, <3>4, <4>1, <4>2 DEF RefsExact, PoolsTypeOK
      <4>5. OneForwardPerFile' /\ PoolsCovered'
        BY <3>2, <4>1, <4>2 DEF OneForwardPerFile, PoolsCovered, PoolsTypeOK, PoolsShape
      <4>6. PoolsShape' /\ EntriesCurrent'
        <5>1. entry' \in [Entries -> EntryRecords \cup {NULL}]
          BY <4>1, <4>2, <4>7 DEF PoolsShape
        <5> QED
          BY <3>2, <4>1, <4>2, <5>1 DEF PoolsShape, EntriesCurrent, PoolsTypeOK
      <4> QED
        BY <4>3, <4>4, <4>5, <4>6
    <3>5. CASE entry[e].refcount = 1
      <4>1. /\ live' = live \ {e} /\ shared' = shared \ {e}
            /\ entry' = [entry EXCEPT ![e] = NULL]
            /\ upstream' = [upstream EXCEPT ![e] = NULL]
        BY <2>3, <3>1, <3>5 DEF DestroyPool, Release
      <4>2. \A f \in Entries \ {e} : upstream'[f] = upstream[f] /\ entry'[f] = entry[f]
        BY <4>1 DEF PoolsShape
      <4>3. PoolsTypeOK'
        BY <3>2, <3>3, <3>5, <4>1, <4>2 DEF PoolsTypeOK, PoolsShape
      <4>4. RefsExact'
        BY <3>2, <3>3, <4>1, <4>2 DEF RefsExact, PoolsTypeOK
      <4>5. OneForwardPerFile' /\ PoolsCovered'
        BY <3>2, <3>3, <3>5, <4>1, <4>2
           DEF OneForwardPerFile, PoolsCovered, PoolsTypeOK, PoolsShape
      <4>6. PoolsShape' /\ EntriesCurrent'
        BY <3>2, <4>1, <4>2 DEF PoolsShape, EntriesCurrent, PoolsTypeOK
      <4> QED
        BY <4>3, <4>4, <4>5, <4>6
    <3> QED
      BY <3>3, <3>4, <3>5
  <2>4. ASSUME NEW i \in Inodes, RecycleInode(i) PROVE PoolsIInv'
    <3>1. /\ generation' = [generation EXCEPT ![i] = generation[i] + 1]
          /\ generation[i] < MaxGen
          /\ UNCHANGED <<live, shared, entry, upstream, user, asked>>
      BY <2>4 DEF RecycleInode
    <3>2. PoolsTypeOK'
      BY <3>1 DEF PoolsTypeOK
    <3>3. \A e \in live : upstream[e].file.ino # i
      BY <2>4 DEF RecycleInode, FileOf, EntriesCurrent, PoolsTypeOK, Files
    <3>4. EntriesCurrent'
      BY <3>1, <3>3 DEF EntriesCurrent, PoolsTypeOK, Files
    <3>5. \A f : Users(f)' = Users(f)
      BY <3>1 DEF Users
    <3> QED
      BY <3>1, <3>2, <3>4, <3>5 DEF RefsExact, OneForwardPerFile, PoolsCovered, PoolsShape
  <2>5. CASE UNCHANGED poolVars
    <3>1. \A f : Users(f)' = Users(f)
      BY <2>5 DEF poolVars, Users
    <3> QED
      BY <2>5, <3>1 DEF poolVars, PoolsTypeOK, RefsExact, OneForwardPerFile, PoolsCovered,
                        PoolsShape, EntriesCurrent
  <2> QED
    BY <2>1, <2>2, <2>3, <2>4, <2>5 DEF PoolsNext
<1> QED
  BY <1>1, <1>2, PTL DEF PoolsSpec

\* Every nested pool, of whichever program, uses an upstream pool over its own
\* file that is large enough for it; an entry is freed with its last user and
\* not before; and no file is forwarded twice, although inodes are used again.
THEOREM PoolsInvariant == PoolsSpec => []PoolsInv
<1>1. PoolsIInv => PoolsInv
  BY DEF PoolsIInv
<1> QED
  BY <1>1, PoolsInductive, PTL

\* Whatever nested pools are made, resized and destroyed, the compositor is
\* never asked to shrink a pool, and swaylock's idea of its size is right.
THEOREM UpstreamGrowth == PoolsSpec => UpstreamGrows
<1> DEFINE Grows == \A e \in live \cap live' :
             upstream'[e].size >= upstream[e].size /\ upstream'[e].size = entry'[e].size
<1>1. ASSUME PoolsIInv, PoolsIInv', [PoolsNext]_poolVars PROVE [Grows]_poolVars
  <2> SUFFICES ASSUME PoolsNext, NEW e \in live, e \in live'
               PROVE  upstream'[e].size >= upstream[e].size /\ upstream'[e].size = entry'[e].size
    BY <1>1
  <2> USE <1>1
  <2>1. upstream'[e].size = entry'[e].size
    BY DEF PoolsIInv, EntriesCurrent
  <2>2. e \in Entries /\ upstream[e].size \in Nat
    BY DEF PoolsIInv, PoolsInv, PoolsTypeOK, Sizes
  <2>3. ASSUME NEW f \in live, NEW size \in Sizes,
               upstream' = [upstream EXCEPT ![f] = Resized(f, size)]
        PROVE  upstream'[e].size >= upstream[e].size
    <3>1. Resized(f, size).size >= upstream[f].size
      BY ResizedPool
    <3> QED
      BY <2>2, <2>3, <3>1 DEF PoolsIInv, PoolsShape
  <2>4. ASSUME NEW p \in Pools, NEW i \in Inodes, NEW size \in Sizes, NEW known \in BOOLEAN,
               CreatePool(p, i, size, known)
        PROVE  upstream'[e].size >= upstream[e].size
    <3>1. CASE Reuse(p, i, size)
      BY <2>3, <3>1 DEF Reuse, Known, PoolsIInv, PoolsInv, PoolsTypeOK
    <3>2. CASE Forward(p, i, size, known)
      <4>1. upstream'[e] = upstream[e]
        BY <2>2, <3>2 DEF Forward, PoolsIInv, PoolsShape
      <4> QED
        BY <2>2, <4>1
    <3> QED
      BY <2>4, <3>1, <3>2 DEF CreatePool
  <2>5. ASSUME NEW p \in Pools, NEW size \in Sizes, Resize(p, size)
        PROVE  upstream'[e].size >= upstream[e].size
    BY <2>3, <2>5 DEF Resize, Grow, PoolsIInv, PoolsInv, PoolsTypeOK
  <2>6. ASSUME NEW p \in Pools, DestroyPool(p) PROVE upstream'[e].size >= upstream[e].size
    <3>1. upstream'[e] = upstream[e]
      BY <2>2, <2>6 DEF DestroyPool, Release, PoolsIInv, PoolsShape
    <3> QED
      BY <2>2, <3>1
  <2>7. ASSUME NEW i \in Inodes, RecycleInode(i) PROVE upstream'[e].size >= upstream[e].size
    BY <2>2, <2>7 DEF RecycleInode
  <2> QED
    BY <2>1, <2>4, <2>5, <2>6, <2>7 DEF PoolsNext
<1> QED
  BY <1>1, PoolsInductive, PTL DEF PoolsSpec, UpstreamGrows

-----------------------------------------------------------------------------
(* Buffers *)

\* What a well-behaved plugin keeps: nothing is pending on the layer surface
\* before its first commit, what is pending is committed unless it is unsent or a
\* commit was missed, and so a surface that points to a destroyed buffer has missed
\* a commit, or the client is being destroyed.
Behaved ==
  rude = {} =>
    /\ ~configured => pending[Layer] = None
    /\ \A s \in Surfaces :
         /\ pending[s] \in Buffers => s \in unsent \cup missed \/ committed[s] = pending[s]
         /\ pending[s] \in Buffers \ resource => s \in missed \/ (leaving /\ s \in unsent)
         /\ committed[s] \in Buffers \ resource => s \in missed

\* A handler of such a plugin stops the locker only over a destroyed buffer.
CrashPointed ==
  rude = {} /\ crash # None =>
    \E s \in Surfaces : pending[s] \in Buffers \ resource \/ committed[s] \in Buffers \ resource

BuffersIInv == BuffersInv /\ Behaved /\ CrashPointed

\* Taking a surface off the list of its pending buffer takes it off every list.
LEMMA UnpendedEverywhere ==
  ASSUME BuffersInv, crash = None, NEW s \in Surfaces
  PROVE  Unpended(s) = [b \in Buffers |-> pendLinks[b] \ {s}]
<1>1. pendLinks \in [Buffers -> SUBSET Surfaces]
  BY DEF BuffersInv, TypeOK
<1>2. \A b \in Buffers : s \in pendLinks[b] <=> pending[s] = b
  BY DEF BuffersInv, LinksAgree
<1>3. \A b \in Buffers : b # pending[s] => pendLinks[b] = pendLinks[b] \ {s}
  BY <1>2
<1>4. CASE pending[s] \in Buffers
  <2>1. Unpended(s) = [pendLinks EXCEPT ![pending[s]] = @ \ {s}]
    BY <1>4 DEF Unpended, Unlink
  <2>2. \A b \in Buffers : [pendLinks EXCEPT ![pending[s]] = @ \ {s}][b] = pendLinks[b] \ {s}
    BY <1>1, <1>3
  <2> QED
    BY <1>1, <2>1, <2>2
<1>5. CASE pending[s] \notin Buffers
  <2>1. Unpended(s) = pendLinks /\ \A b \in Buffers : pendLinks[b] = pendLinks[b] \ {s}
    BY <1>3, <1>5 DEF Unpended
  <2> QED
    BY <1>1, <2>1
<1> QED
  BY <1>4, <1>5

\* Attaching, committing and destroying in any order, the lists of every buffer
\* are the surfaces that point to it, and no surface points to freed memory.
LEMMA BuffersInductive == Spec => []BuffersIInv
<1> USE BuffersAssumption
<1>1. Init => BuffersIInv
  BY DEF Init, BuffersIInv, BuffersInv, TypeOK, LinksAgree, NoLeak, CrashPointed, Behaved
<1>2. BuffersIInv /\ [Next]_vars => BuffersIInv'
  <2> SUFFICES ASSUME BuffersIInv, [Next]_vars PROVE BuffersIInv'
    OBVIOUS
  <2> USE DEF BuffersIInv, BuffersInv
  <2>0. /\ TypeOK /\ LinksAgree /\ NoLeak /\ Behaved /\ CrashPointed
    OBVIOUS
  <2>1. ASSUME NEW b \in Buffers, Served, MakeBuffer(b), UNCHANGED rude,
               params' \in {"none", "open", "asked", "used"}
        PROVE  BuffersIInv'
    <3>1. /\ crash = None /\ b \notin memory
          /\ memory' = memory \cup {b} /\ resource' = resource \cup {b}
          /\ UNCHANGED <<pendLinks, commLinks, surfaceVars, leaving, crash>>
      BY <2>1 DEF MakeBuffer, Served
    <3>2. TypeOK' /\ LinksAgree' /\ NoLeak'
      BY <2>0, <2>1, <3>1 DEF TypeOK, LinksAgree, NoLeak, surfaceVars
    <3>3. Behaved' /\ CrashPointed'
      BY <2>0, <2>1, <3>1 DEF Behaved, CrashPointed, surfaceVars
    <3> QED
      BY <3>2, <3>3
  <2>2. ASSUME UNCHANGED <<bufferVars, surfaceVars, crash, rude>>, leaving' \in BOOLEAN,
               leaving' \/ ~leaving \/ (crash = None /\ alive = {}),
               params' \in {"none", "open", "asked", "used"}
        PROVE  BuffersIInv'
    <3>1. TypeOK' /\ LinksAgree' /\ NoLeak' /\ CrashPointed'
      BY <2>0, <2>2 DEF TypeOK, LinksAgree, NoLeak, CrashPointed, surfaceVars, bufferVars
    <3>2. Behaved'
      BY <2>0, <2>2 DEF Behaved, LinksAgree, surfaceVars, bufferVars
    <3> QED
      BY <3>1, <3>2
  <2>3. ASSUME NEW b \in Buffers, DestroyBuffer(b), UNCHANGED <<params, rude>>
        PROVE  BuffersIInv'
    <3> DEFINE both == {s \in commLinks[b] : pending[s] = committed[s]}
    <3>1. /\ crash = None /\ b \in resource /\ MayDestroy(b)
          /\ pending' = [s \in Surfaces |-> IF s \in both THEN Committed ELSE pending[s]]
          /\ committed' = [s \in Surfaces |->
               IF s \in commLinks[b] THEN Unreachable ELSE committed[s]]
          /\ pendLinks' = [pendLinks EXCEPT ![b] = @ \ both]
          /\ commLinks' = [commLinks EXCEPT ![b] = {}]
          /\ memory' = IF pendLinks[b] \subseteq both THEN memory \ {b} ELSE memory
          /\ unsent' = unsent \ both
          /\ resource' = resource \ {b}
          /\ UNCHANGED <<alive, role, configured, missed, leaving, crash, rude, params>>
      BY <2>3 DEF DestroyBuffer
    <3>2. \A s \in Surfaces : s \in both <=> pending[s] = b /\ committed[s] = b
      BY <2>0, <3>1 DEF LinksAgree, TypeOK
    <3> HIDE DEF both
    <3>3. TypeOK'
      BY <2>0, <3>1 DEF TypeOK
    <3>4. LinksAgree'
      BY <2>0, <3>1, <3>2 DEF LinksAgree, TypeOK
    <3>5. NoLeak'
      BY <2>0, <3>1, <3>2 DEF NoLeak, TypeOK
    <3>6. Behaved'
      <4> SUFFICES ASSUME rude = {} PROVE Behaved'
        BY <3>1 DEF Behaved
      <4>1. ~configured' => pending'[Layer] = None
        BY <2>0, <3>1, <3>2 DEF Behaved
      <4>2. ASSUME NEW s \in Surfaces, pending'[s] \in Buffers
            PROVE  s \in unsent' \cup missed' \/ committed'[s] = pending'[s]
        <5>1. s \notin both /\ pending'[s] = pending[s]
          BY <3>1, <4>2
        <5>2. s \in unsent \cup missed \/ committed[s] = pending[s]
          BY <2>0, <4>2, <5>1 DEF Behaved
        <5>3. s \in commLinks[b] <=> committed[s] = b
          BY <2>0, <3>1 DEF LinksAgree
        <5> QED
          BY <3>1, <3>2, <5>1, <5>2, <5>3
      <4>3. ASSUME NEW s \in Surfaces, pending'[s] \in Buffers \ resource'
            PROVE  s \in missed' \/ (leaving' /\ s \in unsent')
        <5>1. s \notin both /\ pending'[s] = pending[s]
          BY <3>1, <4>3
        <5>2. CASE pending[s] = b
          <6>1. s \in pendLinks[b] /\ committed[s] # b
            BY <2>0, <3>1, <3>2, <5>1, <5>2 DEF LinksAgree
          <6>2. s \in unsent \cup missed
            BY <2>0, <5>2, <6>1 DEF Behaved
          <6>3. s \in unsent => leaving
            BY <3>1, <6>1 DEF MayDestroy
          <6> QED
            BY <3>1, <5>1, <6>2, <6>3
        <5>3. CASE pending[s] # b
          BY <2>0, <3>1, <4>3, <5>1, <5>3 DEF Behaved
        <5> QED
          BY <5>2, <5>3
      <4>4. ASSUME NEW s \in Surfaces, committed'[s] \in Buffers \ resource'
            PROVE  s \in missed'
        <5>1. s \notin commLinks[b] /\ committed'[s] = committed[s]
          BY <3>1, <4>4
        <5>2. committed[s] # b
          BY <2>0, <3>1, <5>1 DEF LinksAgree
        <5> QED
          BY <2>0, <3>1, <4>4, <5>1, <5>2 DEF Behaved
      <4> QED
        BY <4>1, <4>2, <4>3, <4>4 DEF Behaved
    <3> QED
      BY <2>0, <3>1, <3>3, <3>4, <3>5, <3>6 DEF CrashPointed
  <2>4. ASSUME NEW s \in Surfaces, UNCHANGED <<params, rude>>,
               CreateSurface(s) \/ GetRole(s) \/ LoseRole(s) \/ CommitIgnored(s)
        PROVE  BuffersIInv'
    <3>1. /\ crash = None /\ s \in Surfaces /\ alive \subseteq alive' /\ alive' \subseteq Surfaces
          /\ role' \in [Surfaces -> {"none", "set", "lost"}]
          /\ missed \subseteq missed' /\ unsent' \cup missed' = unsent \cup missed \cup missed'
          /\ missed' \subseteq alive' /\ unsent' \subseteq unsent
          /\ UNCHANGED <<bufferVars, configured, pending, committed, leaving, crash>>
      BY <2>0, <2>4 DEF CreateSurface, GetRole, LoseRole, CommitIgnored, Served, TypeOK
    <3>2. TypeOK' /\ LinksAgree' /\ NoLeak'
      BY <2>0, <2>4, <3>1 DEF TypeOK, LinksAgree, NoLeak, bufferVars
    <3>3. Behaved' /\ CrashPointed'
      BY <2>0, <2>4, <3>1 DEF Behaved, CrashPointed, bufferVars
    <3> QED
      BY <3>2, <3>3
  <2>5. ASSUME NEW s \in Surfaces, DestroySurface(s), UNCHANGED <<params, rude>>
        PROVE  BuffersIInv'
    <3>1. CASE pending[s] \in Buffers \ resource \/ committed[s] \in Buffers \ resource
      <4>1. /\ crash = None /\ crash' = "assert_surface"
            /\ UNCHANGED <<bufferVars, surfaceVars, leaving, rude, params>>
        BY <2>5, <3>1 DEF DestroySurface, bufferVars
      <4>2. TypeOK' /\ LinksAgree' /\ NoLeak'
        BY <2>0, <4>1 DEF TypeOK, LinksAgree, NoLeak, surfaceVars, bufferVars, Crashes
      <4>3. Behaved' /\ CrashPointed'
        BY <2>0, <3>1, <4>1 DEF Behaved, CrashPointed, surfaceVars, bufferVars
      <4> QED
        BY <4>2, <4>3
    <3>2. CASE ~(pending[s] \in Buffers \ resource \/ committed[s] \in Buffers \ resource)
      <4>1. /\ crash = None /\ s \in alive /\ alive' = alive \ {s} /\ pendLinks' = Unpended(s)
            /\ commLinks' = [b \in Buffers |-> commLinks[b] \ {s}]
            /\ pending' = [pending EXCEPT ![s] = None]
            /\ committed' = [committed EXCEPT ![s] = None]
            /\ role' = [role EXCEPT ![s] = "none"]
            /\ configured' = (configured /\ s # Layer)
            /\ unsent' = unsent \ {s} /\ missed' = missed \ {s}
            /\ UNCHANGED <<crash, resource, memory, leaving, params, rude>>
        BY <2>5, <3>2 DEF DestroySurface
      <4>2. pendLinks' = [b \in Buffers |-> pendLinks[b] \ {s}]
        BY <4>1, UnpendedEverywhere
      <4>3. TypeOK'
        BY <2>0, <4>1, <4>2 DEF TypeOK
      <4>4. LinksAgree'
        BY <2>0, <4>1, <4>2 DEF LinksAgree, TypeOK
      <4>5. NoLeak'
        <5> SUFFICES ASSUME NEW b \in memory, b \notin resource PROVE pendLinks'[b] # {}
          BY <4>1 DEF NoLeak
        <5>1. b \in Buffers /\ pending[s] # b /\ pendLinks[b] # {}
          BY <2>0, <3>2, <4>1 DEF TypeOK, NoLeak
        <5>2. s \notin pendLinks[b]
          BY <2>0, <4>1, <5>1 DEF LinksAgree
        <5> QED
          BY <4>2, <5>1, <5>2
      <4>6. Behaved'
        BY <2>0, <4>1 DEF Behaved, TypeOK
      <4> QED
        BY <2>0, <4>1, <4>3, <4>4, <4>5, <4>6 DEF CrashPointed
    <3> QED
      BY <3>1, <3>2
  <2>6. ASSUME NEW s \in Surfaces, AttachNull(s), UNCHANGED <<params, rude>>
        PROVE  BuffersIInv'
    <3>1. /\ rude # {} /\ crash' = "null" /\ crash = None
          /\ UNCHANGED <<bufferVars, surfaceVars, leaving, rude, params>>
      BY <2>6 DEF AttachNull, Served
    <3>2. TypeOK' /\ LinksAgree' /\ NoLeak'
      BY <2>0, <3>1 DEF TypeOK, LinksAgree, NoLeak, surfaceVars, bufferVars, Crashes
    <3> QED
      BY <2>0, <3>1, <3>2 DEF Behaved, CrashPointed
  <2>7. ASSUME NEW s \in Surfaces, Commit(s), UNCHANGED <<params, rude>>
        PROVE  BuffersIInv'
    <3>0. /\ crash = None /\ ~leaving /\ s \in alive /\ pending[s] \in Buffers
          /\ UNCHANGED <<resource, memory, pendLinks, alive, role, configured, pending, leaving,
                         params, rude>>
      BY <2>7 DEF Commit, Served
    <3>1. CASE committed[s] \in Buffers \ resource
      <4>1. crash' \in Crashes /\ UNCHANGED <<commLinks, committed, unsent, missed>>
        BY <2>7, <3>1 DEF Commit, Crashes
      <4>2. TypeOK' /\ LinksAgree' /\ NoLeak'
        BY <2>0, <3>0, <4>1 DEF TypeOK, LinksAgree, NoLeak, Crashes
      <4>3. Behaved' /\ CrashPointed'
        BY <2>0, <3>0, <3>1, <4>1 DEF Behaved, CrashPointed
      <4> QED
        BY <4>2, <4>3
    <3>2. CASE committed[s] \notin Buffers \ resource
      <4>1. /\ committed' = [committed EXCEPT ![s] = pending[s]]
            /\ commLinks' = [b \in Buffers |->
                 IF b = pending[s] THEN commLinks[b] \cup {s} ELSE commLinks[b] \ {s}]
            /\ unsent' = unsent \ {s}
            /\ missed' = IF pending[s] \in resource THEN missed \ {s} ELSE missed
            /\ UNCHANGED crash
        BY <2>7, <3>2 DEF Commit
      <4>2. TypeOK'
        BY <2>0, <3>0, <4>1 DEF TypeOK
      <4>3. LinksAgree'
        BY <2>0, <3>0, <4>1 DEF TypeOK, LinksAgree
      <4>4. Behaved'
        BY <2>0, <3>0, <4>1 DEF Behaved, TypeOK
      <4> QED
        BY <2>0, <3>0, <4>1, <4>2, <4>3, <4>4 DEF NoLeak, CrashPointed
    <3> QED
      BY <3>1, <3>2
  <2>8. ASSUME NEW s \in Surfaces, NEW b \in Buffers, Attach(s, b), UNCHANGED <<params, rude>>
        PROVE  BuffersIInv'
    <3>0. /\ crash = None /\ ~leaving /\ s \in alive /\ b \in resource /\ pending[s] # b
          /\ s = Layer /\ ~configured => "early_attach" \in rude
          /\ UNCHANGED <<leaving, params, rude>>
      BY <2>8 DEF Attach, Served
    <3>1. CASE \E d \in Dropped(s) : commLinks[d] # {}
      <4>1. crash' \in Crashes /\ UNCHANGED <<bufferVars, surfaceVars>>
        BY <2>8, <3>1 DEF Attach, Crashes
      <4>2. TypeOK' /\ LinksAgree' /\ NoLeak'
        BY <2>0, <3>0, <4>1 DEF TypeOK, LinksAgree, NoLeak, bufferVars, surfaceVars
      <4>3. pending[s] \in Buffers \ resource
        BY <3>1 DEF Dropped
      <4>4. Behaved' /\ CrashPointed'
        BY <2>0, <3>0, <4>1, <4>3 DEF Behaved, CrashPointed, bufferVars, surfaceVars
      <4> QED
        BY <4>2, <4>4
    <3>2. CASE ~\E d \in Dropped(s) : commLinks[d] # {}
      <4>1. /\ memory' = memory \ Dropped(s)
            /\ pendLinks' = Link(Unpended(s), b, s)
            /\ pending' = [pending EXCEPT ![s] = b]
            /\ unsent' = unsent \cup {s}
            /\ UNCHANGED <<resource, commLinks, alive, role, configured, committed, missed, crash>>
        BY <2>8, <3>2 DEF Attach
      <4>2. Unpended(s) = [c \in Buffers |-> pendLinks[c] \ {s}]
        BY <3>0, UnpendedEverywhere
      <4>3. pendLinks' = [c \in Buffers |-> IF c = b THEN pendLinks[c] \cup {s} ELSE pendLinks[c] \ {s}]
        BY <4>1, <4>2 DEF Link
      <4>4. Dropped(s) = {d \in Buffers : d = pending[s] /\ d \notin resource /\ pendLinks[d] \ {s} = {}}
        BY <4>2 DEF Dropped
      <4>5. TypeOK'
        BY <2>0, <3>0, <4>1, <4>3, <4>4 DEF TypeOK
      <4>6. LinksAgree'
        BY <2>0, <3>0, <3>2, <4>1, <4>3, <4>4 DEF TypeOK, LinksAgree
      <4>7. NoLeak'
        <5> SUFFICES ASSUME NEW c \in memory', c \notin resource PROVE pendLinks'[c] # {}
          BY <4>1 DEF NoLeak
        <5>1. c \in Buffers /\ c # b /\ pendLinks[c] # {}
          BY <2>0, <3>0, <4>1 DEF TypeOK, NoLeak
        <5>2. pendLinks'[c] = pendLinks[c] \ {s}
          BY <4>3, <5>1
        <5>3. CASE pending[s] = c
          BY <4>1, <4>4, <5>1, <5>2, <5>3
        <5>4. CASE pending[s] # c
          <6>1. s \notin pendLinks[c]
            BY <2>0, <3>0, <5>1, <5>4 DEF LinksAgree
          <6> QED
            BY <5>1, <5>2, <6>1
        <5> QED
          BY <5>3, <5>4
      <4>8. Behaved'
        BY <2>0, <3>0, <4>1 DEF Behaved, TypeOK
      <4> QED
        BY <2>0, <3>0, <4>1, <4>5, <4>6, <4>7, <4>8 DEF CrashPointed
    <3> QED
      BY <3>1, <3>2
  <2>9. ASSUME FirstCommit, UNCHANGED <<params, rude>> PROVE BuffersIInv'
    <3>1. /\ crash = None /\ ~configured /\ configured' = TRUE
          /\ crash' = IF pending[Layer] = None THEN None ELSE "assert_first"
          /\ UNCHANGED <<bufferVars, alive, role, pending, committed, unsent, missed, leaving,
                         rude, params>>
      BY <2>9 DEF FirstCommit, Served
    <3>2. TypeOK' /\ LinksAgree' /\ NoLeak'
      BY <2>0, <3>1 DEF TypeOK, LinksAgree, NoLeak, bufferVars, Crashes
    <3> QED
      BY <2>0, <3>1, <3>2 DEF Behaved, CrashPointed, bufferVars
  <2>10. CASE UNCHANGED vars
    BY <2>2, <2>10 DEF vars, TypeOK
  <2> QED
    BY <2>0, <2>1, <2>2, <2>3, <2>4, <2>5, <2>6, <2>7, <2>8, <2>9, <2>10
       DEF Next, CreateShmBuffer, CreateImmed, ParamsCreated, CreateParams, AskBuffer, ParamsFailed,
           DestroyParams, ClientGoes, ClientGone, TypeOK
<1> QED
  BY <1>1, <1>2, PTL DEF Spec

\* Until a plugin stops the locker, what the lists of its buffers find is what
\* its surfaces reference, and exactly the buffers in use are allocated.
THEOREM BuffersInvariant == Spec => []BuffersInv
<1>1. BuffersIInv => BuffersInv
  BY DEF BuffersIInv
<1> QED
  BY <1>1, BuffersInductive, PTL

\* A plugin that destroys no buffer between its attach and the next commit of the
\* surface is stopped by an assertion of the buffer and surface handlers only
\* over a surface that points to a destroyed buffer, and such a surface has had a
\* commit ignored (nested_surface_commit, inert or without a role), or belongs to
\* a client that is being destroyed with the attach not committed.
THEOREM BufferHandlersSafe == Spec => []HandlersSafe
<1>1. BuffersIInv => HandlersSafe
  <2> SUFFICES ASSUME BuffersIInv, rude = {}
               PROVE  /\ Dangling \subseteq missed \cup (IF leaving THEN unsent ELSE {})
                      /\ crash # None => Dangling # {}
    BY DEF HandlersSafe
  <2>1. \A s \in Dangling : /\ s \in Surfaces
                            /\ pending[s] \in Buffers \ resource \/ committed[s] \in Buffers \ resource
    BY DEF Dangling
  <2>2. Dangling \subseteq missed \cup (IF leaving THEN unsent ELSE {})
    BY <2>1 DEF BuffersIInv, Behaved
  <2>3. crash # None => Dangling # {}
    BY DEF BuffersIInv, CrashPointed, Dangling
  <2> QED
    BY <2>2, <2>3
<1> QED
  BY <1>1, BuffersInductive, PTL

=============================================================================
