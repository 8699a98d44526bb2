------------------------------ MODULE ShmPools ------------------------------
(***************************************************************************)
(* Shared memory pools (forward.c, struct forwarded_shm_pool).  Nested     *)
(* pools over one file, of one plugin or of several, share an upstream     *)
(* pool, found by the file's device and inode.  The upstream pool is grown *)
(* to the largest size asked for and destroyed with its last nested pool.  *)
(*                                                                         *)
(* A file is an inode and a generation: the system gives the inode to a    *)
(* new file once nothing holds the old one.                                *)
(***************************************************************************)
EXTENDS Naturals, FiniteSets

CONSTANTS
  Inodes,   \* (st_dev, st_ino) pairs
  Pools,    \* nested wl_shm_pool objects, of all plugin clients
  Entries,  \* forwarded_shm_pool objects
  MaxSize,  \* bound: pool sizes are 1 .. MaxSize
  MaxGen,   \* bound: how many files an inode is used for
  NULL

ASSUME ShmPoolsAssumption ==
  /\ IsFiniteSet(Pools)
  /\ MaxSize \in Nat /\ MaxGen \in Nat
  /\ NULL \notin Inodes /\ NULL \notin Pools /\ NULL \notin Entries

VARIABLES
  generation,  \* the file an inode stands for now
  live,        \* the allocated entries
  shared,      \* server->shm_pools, the entries found by identity
  entry,       \* an entry's ino, size and refcount
  upstream,    \* the compositor's pool of an entry: its file and size
  user,        \* the user data of a nested pool: its entry, or NULL
  asked        \* history: a nested pool's file and largest size asked for

poolVars == <<generation, live, shared, entry, upstream, user, asked>>

Sizes  == 1 .. MaxSize
Files  == [ino : Inodes, gen : 0 .. MaxGen]
FileOf(i) == [ino |-> i, gen |-> generation[i]]
Users(e)  == {p \in Pools : user[p] = e}

PoolsTypeOK ==
  /\ generation \in [Inodes -> 0 .. MaxGen]
  /\ shared \subseteq live /\ live \subseteq Entries
  /\ \A e \in live :
       /\ entry[e] \in [ino : Inodes \cup {NULL}, size : Sizes, refcount : Nat]
       /\ upstream[e] \in [file : Files, size : Sizes]
  /\ user \in [Pools -> live \cup {NULL}]
  /\ \A p \in Pools : user[p] # NULL => asked[p] \in [file : Files, size : Sizes]

-----------------------------------------------------------------------------
Larger(m, n) == IF m > n THEN m ELSE n

\* The compositor is asked for a larger pool, if the one it has is too small for
\* a nested pool of that size.
Resized(e, size) ==
  [file |-> upstream[e].file,
   size |-> IF size > entry[e].size THEN size ELSE upstream[e].size]

\* What an entry records once its upstream pool serves n more nested pools.
Recorded(e, size, n) ==
  [ino |-> entry[e].ino, size |-> Larger(entry[e].size, size), refcount |-> entry[e].refcount + n]

\* A mutant: the compositor is told, and the entry forgets.
GrowUnrecorded(e, size) ==
  /\ upstream' = [upstream EXCEPT ![e] = Resized(e, size)]
  /\ UNCHANGED entry

\* The upstream pool of e is grown for a nested pool of that size.
Grow(e, size) ==
  /\ upstream' = [upstream EXCEPT ![e] = Resized(e, size)]
  /\ entry' = [entry EXCEPT ![e] = Recorded(e, size, 0)]

\* The entries that shm_create_pool finds for an inode.
Known(i) == {e \in shared : entry[e].ino = i}

\* A mutant: the reference of the second nested pool is not counted.
ReuseUncounted(p, i, size) ==
  \E e \in Known(i) :
    /\ Grow(e, size)
    /\ user' = [user EXCEPT ![p] = e]
    /\ UNCHANGED <<live, shared>>

\* shm_create_pool over a file that has been forwarded already
Reuse(p, i, size) ==
  \E e \in Known(i) :
    /\ upstream' = [upstream EXCEPT ![e] = Resized(e, size)]
    /\ entry' = [entry EXCEPT ![e] = Recorded(e, size, 1)]
    /\ user' = [user EXCEPT ![p] = e]
    /\ UNCHANGED <<live, shared>>

\* shm_create_pool over a new file, or one fstat fails for (known is FALSE):
\* such an entry is in no list and is never shared.
Forward(p, i, size, known) ==
  \E e \in Entries \ live :
    /\ live' = live \cup {e}
    /\ shared' = IF known THEN shared \cup {e} ELSE shared
    /\ entry' = [entry EXCEPT ![e] =
         [ino |-> IF known THEN i ELSE NULL, size |-> size, refcount |-> 1]]
    /\ upstream' = [upstream EXCEPT ![e] = [file |-> FileOf(i), size |-> size]]
    /\ user' = [user EXCEPT ![p] = e]

\* shm_create_pool
CreatePool(p, i, size, known) ==
  /\ user[p] = NULL
  /\ IF known /\ Known(i) # {} THEN Reuse(p, i, size) ELSE Forward(p, i, size, known)
  /\ asked' = [asked EXCEPT ![p] = [file |-> FileOf(i), size |-> size]]
  /\ UNCHANGED generation

\* nested_shm_pool_resize
Resize(p, size) ==
  /\ user[p] # NULL
  /\ Grow(user[p], size)
  /\ asked' = [asked EXCEPT ![p].size = Larger(@, size)]
  /\ UNCHANGED <<generation, live, shared, user>>

\* shm_pool_handle_resource_destroy: the last reference destroys the upstream
\* pool and the entry
Release(e) ==
  IF entry[e].refcount > 1
  THEN entry' = [entry EXCEPT ![e].refcount = @ - 1] /\ UNCHANGED <<live, shared, upstream>>
  ELSE /\ live' = live \ {e} /\ shared' = shared \ {e}
       /\ entry' = [entry EXCEPT ![e] = NULL]
       /\ upstream' = [upstream EXCEPT ![e] = NULL]

\* A nested pool is destroyed by its client, or with it.
DestroyPool(p) ==
  /\ user[p] # NULL
  /\ Release(user[p])
  /\ user' = [user EXCEPT ![p] = NULL]
  /\ asked' = [asked EXCEPT ![p] = NULL]
  /\ UNCHANGED generation

\* The plugin deletes a file, and the system uses its inode again: only when no
\* upstream pool holds the file.
RecycleInode(i) ==
  /\ generation[i] < MaxGen
  /\ \A e \in live : upstream[e].file # FileOf(i)
  /\ generation' = [generation EXCEPT ![i] = @ + 1]
  /\ UNCHANGED <<live, shared, entry, upstream, user, asked>>

PoolsInit ==
  /\ generation = [i \in Inodes |-> 0]
  /\ live = {} /\ shared = {}
  /\ entry = [e \in Entries |-> NULL] /\ upstream = [e \in Entries |-> NULL]
  /\ user = [p \in Pools |-> NULL] /\ asked = [p \in Pools |-> NULL]

PoolsNext ==
  \/ \E p \in Pools, i \in Inodes, size \in Sizes, known \in BOOLEAN : CreatePool(p, i, size, known)
  \/ \E p \in Pools, size \in Sizes : Resize(p, size)
  \/ \E p \in Pools : DestroyPool(p)
  \/ \E i \in Inodes : RecycleInode(i)

PoolsSpec == PoolsInit /\ [][PoolsNext]_poolVars

-----------------------------------------------------------------------------
\* What a nested pool addresses is there: its upstream pool exists, is over the
\* very file the plugin passed, and covers the largest size it asked for.
PoolsCovered ==
  \A p \in Pools : user[p] # NULL =>
    /\ user[p] \in live
    /\ upstream[user[p]].file = asked[p].file
    /\ upstream[user[p]].size >= asked[p].size

\* An entry's refcount is the number of nested pools that use it, so it is freed
\* with the last of them and not before.
RefsExact == \A e \in live : entry[e].refcount = Cardinality(Users(e)) /\ Users(e) # {}

\* Nested pools over one identified file cost the compositor one descriptor.
OneForwardPerFile ==
  \A e, f \in shared : upstream[e].file = upstream[f].file => e = f

\* One upstream pool for each file, kept for as long as it has users and large
\* enough for each of them.
PoolsInv == PoolsTypeOK /\ RefsExact /\ OneForwardPerFile /\ PoolsCovered

\* wl_shm_pool.resize may only grow: no step makes an upstream pool smaller,
\* and its size is the one swaylock has recorded.
UpstreamGrows ==
  [][\A e \in live \cap live' :
       upstream'[e].size >= upstream[e].size /\ upstream'[e].size = entry'[e].size]_poolVars

=============================================================================
