---------------------------- MODULE Vfs_proofs ------------------------------
(***************************************************************************)
(* Proofs about mount() and the reference counts for any number of         *)
(* processors and objects, any file systems and any names.                 *)
(***************************************************************************)
EXTENDS Vfs, FiniteSetTheorems, WellFoundedInduction, TLAPS

Locations == {"idle", "tmpfs_init", "mount", "list_init", "flag", "byname", "alloc", "fs_mount",
              "kfree", "lock", "insert", "unlock", "lookup", "scan", "ref", "reread",
              "free"}

Mount == [fip : fs_list \cup {NULL}, vp : Objects \cup {NULL}]

TypeOK ==
  /\ stage \in {"early", "vfs_init", "up"} /\ heap \subseteq Objects
  /\ is_mountlist_init \in BOOLEAN /\ mountlist \in Seq(Objects)
  /\ mount_lock \in Cpus \cup {None} /\ mnt \in [Objects -> Mount]
  /\ ref \in [Objects -> Int] /\ rights \in [Objects -> 0 .. 2]
  /\ pc \in [Cpus -> Locations] /\ name \in [Cpus -> fs_list \cup Names \cup {""}]
  /\ mp \in [Cpus -> Objects \cup {NULL}] /\ vp \in [Cpus -> Objects \cup {NULL}]
  /\ old \in [Cpus -> Int] /\ mounted \subseteq Objects

(* Until the flag is set only the boot processor is inside, on its way to  *)
(* mountlist_init; afterwards nobody gets there.                           *)
Booting ==
  /\ ~is_mountlist_init =>
       /\ mounted = {} /\ mountlist = <<>> /\ stage # "up"
       /\ \A c \in Cpus \ {Bsp} : pc[c] = "idle"
       /\ pc[Bsp] \in {"idle", "tmpfs_init", "mount", "list_init", "flag"}
       /\ pc[Bsp] = "idle" => stage = "early"
  /\ \A c \in Cpus : pc[c] \in {"list_init", "flag"} => ~is_mountlist_init

Locked == \A c \in Cpus : pc[c] \in {"insert", "scan", "unlock"} <=> mount_lock = c

(* mount() has a struct mount that is not in the list yet.                 *)
Pending(c) == pc[c] \in {"fs_mount", "kfree", "lock", "insert"}

(* A struct mount on the heap is either reported or some one call's own.   *)
Mounts ==
  /\ \A c \in Cpus : pc[c] = "alloc" => name[c] \in fs_list
  /\ \A c \in Cpus : Pending(c) => /\ mp[c] \in heap /\ mp[c] \notin mounted
                                   /\ mnt[mp[c]].fip # NULL
  /\ \A c, d \in Cpus : Pending(c) /\ Pending(d) /\ mp[c] = mp[d] => c = d
  /\ \A m \in mounted : m \in heap /\ mnt[m].fip # NULL
  /\ \A o \in Objects : mnt[o].fip # NULL =>
       o \in mounted \/ \E c \in Cpus : Pending(c) /\ mp[c] = o

(* Processor c is inside vnode_release of v.                               *)
User(c, v) == pc[c] \in {"ref", "free"} /\ vp[c] = v

(* A mount that has its root: the root is nobody's to release.             *)
Rooted(m) == m \in mounted \/ \E c \in Cpus : pc[c] \in {"lock", "insert"} /\ mp[c] = m

Roots ==
  \A m \in Objects : Rooted(m) =>
    /\ mnt[m].vp \in heap /\ mnt[mnt[m].vp].fip = NULL
    /\ rights[mnt[m].vp] = 0 /\ \A c \in Cpus : ~User(c, mnt[m].vp)

(* The count of a vnode against the releases to come and under way: the    *)
(* call that is going to free is alone, because a call that overlaps       *)
(* another one has read a positive count.                                  *)
Vnodes ==
  /\ \A v \in Objects : rights[v] > 0 => v \in heap /\ mnt[v].fip = NULL
  /\ \A v \in Objects : rights[v] = 2 => ref[v] > 0
  /\ \A c \in Cpus, v \in Objects : User(c, v) =>
       /\ v \in heap /\ mnt[v].fip = NULL
       /\ rights[v] < 2
       /\ rights[v] = 1 => pc[c] = "ref" /\ old[c] > 0 /\ ref[v] > 0
       /\ rights[v] = 1 \/ pc[c] = "free" \/ old[c] <= 0 =>
            \A d \in Cpus : User(d, v) => d = c
  /\ \A c \in Cpus : pc[c] \in {"ref", "free"} => vp[c] \in Objects

(* The list has the reported mounts, each once.                            *)
Listed ==
  /\ \A i \in DOMAIN mountlist : mountlist[i] \in mounted
  /\ \A m \in mounted : \E i \in DOMAIN mountlist : mountlist[i] = m
  /\ \A i, j \in DOMAIN mountlist : mountlist[i] = mountlist[j] => i = j

Inv == TypeOK /\ Booting /\ Locked /\ Mounts /\ Roots /\ Vnodes /\ Listed
-----------------------------------------------------------------------------
(* A set of naturals has a first element.                                  *)
LEMMA FirstNat ==
  ASSUME NEW T, T \subseteq Nat, T # {} PROVE \E x \in T : \A y \in T : x <= y
<1> DEFINE R == {ss \in Nat \X Nat : ss[1] < ss[2]}
<1>1. IsWellFoundedOn(R, Nat)
  BY NatLessThanWellFounded DEF OpToRel
<1>2. PICK x \in T : \A y \in T : ~(<<y, x>> \in R)
  <2> HIDE DEF R
  <2> QED
    BY <1>1, WFMin
<1>3. \A y \in T : ~(y < x)
  BY <1>2
<1> QED
  BY <1>3

LEMMA ListFacts ==
  ASSUME NEW S, NEW s \in Seq(S)
  PROVE  /\ Len(s) \in Nat /\ DOMAIN s = 1 .. Len(s)
         /\ \A i \in DOMAIN s : i \in Nat /\ s[i] \in S
OBVIOUS

LEMMA AppendFacts ==
  ASSUME NEW S, NEW s \in Seq(S), NEW x \in S
  PROVE  /\ Append(s, x) \in Seq(S)
         /\ DOMAIN Append(s, x) = 1 .. Len(s) + 1
         /\ \A i \in 1 .. Len(s) : Append(s, x)[i] = s[i]
         /\ Append(s, x)[Len(s) + 1] = x
OBVIOUS

(* mount_lookup returns the first mount of that name, if there is one.     *)
LEMMA LookupFacts ==
  ASSUME TypeOK, NEW n
  PROVE  /\ Lookup(n) \in Objects \cup {NULL}
         /\ Lookup(n) # NULL =>
              \E i \in DOMAIN mountlist :
                /\ Lookup(n) = mountlist[i] /\ mnt[mountlist[i]].fip = n
                /\ \A j \in DOMAIN mountlist : mnt[mountlist[j]].fip = n => i <= j
<1> DEFINE hits == {i \in DOMAIN mountlist : mnt[mountlist[i]].fip = n}
           first == CHOOSE i \in hits : \A j \in hits : i <= j
<1>1. DOMAIN mountlist \subseteq Nat /\ \A i \in DOMAIN mountlist : mountlist[i] \in Objects
  BY ListFacts DEF TypeOK
<1>2. CASE hits = {}
  BY <1>2 DEF Lookup
<1>3. CASE hits # {}
  <2>1. hits \subseteq Nat
    BY <1>1
  <2>2. \E i \in hits : \A j \in hits : i <= j
    <3> HIDE DEF hits
    <3> QED
      BY <1>3, <2>1, FirstNat
  <2>3. first \in hits /\ \A j \in hits : first <= j
    <3> HIDE DEF hits
    <3> QED
      BY <2>2
  <2>4. Lookup(n) = mountlist[first]
    BY <1>3 DEF Lookup
  <2> HIDE DEF first
  <2> QED
    BY <1>1, <2>3, <2>4
<1> QED
  BY <1>2, <1>3

LEMMA InitInv == Init => Inv
<1> SUFFICES ASSUME Init PROVE Inv
  OBVIOUS
<1>1. /\ stage = "early" /\ heap = {} /\ mounted = {} /\ mountlist = <<>> /\ mount_lock = None
      /\ is_mountlist_init \in BOOLEAN /\ ~is_mountlist_init
  BY DEF Init
<1>2. /\ mnt = [o \in Objects |-> [fip |-> NULL, vp |-> NULL]]
      /\ ref = [o \in Objects |-> 0] /\ rights = [o \in Objects |-> 0]
  BY DEF Init
<1>3. /\ pc = [c \in Cpus |-> "idle"] /\ name = [c \in Cpus |-> ""]
      /\ mp = [c \in Cpus |-> NULL] /\ vp = [c \in Cpus |-> NULL]
  BY DEF Init
<1>4. TypeOK
  <2>1. mnt \in [Objects -> Mount]
    BY <1>2 DEF Mount
  <2>2. pc \in [Cpus -> Locations]
    BY <1>3 DEF Locations
  <2>3. mountlist \in Seq(Objects)
    BY <1>1
  <2>4. ref \in [Objects -> Int] /\ rights \in [Objects -> 0 .. 2]
    BY <1>2
  <2>5. /\ name \in [Cpus -> fs_list \cup Names \cup {""}]
        /\ mp \in [Cpus -> Objects \cup {NULL}] /\ vp \in [Cpus -> Objects \cup {NULL}]
    BY <1>3
  <2>6. old \in [Cpus -> Int]
    <3>1. old = [c \in Cpus |-> 0]
      BY DEF Init
    <3> QED
      BY <3>1
  <2> QED
    BY <1>1, <2>1, <2>2, <2>3, <2>4, <2>5, <2>6 DEF TypeOK
<1>5. Booting /\ Locked
  BY <1>1, <1>3, VfsAssumption DEF Booting, Locked
<1>6. Listed
  BY <1>1 DEF Listed
<1>7. Mounts /\ Roots
  BY <1>1, <1>2, <1>3 DEF Mounts, Pending, Roots, Rooted
<1>8. Vnodes
  <2>1. \A v \in Objects : rights[v] = 0
    BY <1>2
  <2>2. \A c \in Cpus : pc[c] = "idle"
    BY <1>3
  <2> QED
    BY <2>1, <2>2 DEF User, Vnodes
<1> QED
  BY <1>4, <1>5, <1>6, <1>7, <1>8 DEF Inv

LEMMA GotoTypes ==
  ASSUME TypeOK, NEW c \in Cpus, NEW from, NEW to \in Locations, Goto(c, from, to)
  PROVE  pc' \in [Cpus -> Locations]
BY DEF TypeOK, Goto

LEMMA ReturnTypes ==
  ASSUME TypeOK, NEW c \in Cpus, NEW from, Return(c, from)
  PROVE  /\ pc' \in [Cpus -> Locations] /\ name' \in [Cpus -> fs_list \cup Names \cup {""}]
         /\ mp' \in [Cpus -> Objects \cup {NULL}] /\ vp' \in [Cpus -> Objects \cup {NULL}]
         /\ old' \in [Cpus -> Int]
<1>1. "idle" \in Locations
  BY DEF Locations
<1>2. pc' \in [Cpus -> Locations]
  BY <1>1, GotoTypes DEF Return
<1>3. /\ name \in [Cpus -> fs_list \cup Names \cup {""}]
      /\ mp \in [Cpus -> Objects \cup {NULL}] /\ vp \in [Cpus -> Objects \cup {NULL}]
  BY DEF TypeOK
<1>4. old \in [Cpus -> Int] /\ old' = [old EXCEPT ![c] = 0]
  BY DEF TypeOK, Return
<1>5. old' \in [Cpus -> Int]
  BY <1>4
<1> QED
  BY <1>2, <1>3, <1>5 DEF Return

LEMMA NextTypes == Inv /\ [Next]_vars => TypeOK'
<1> SUFFICES ASSUME Inv, [Next]_vars PROVE TypeOK'
  OBVIOUS
<1>t. TypeOK /\ Bsp \in Cpus
  BY VfsAssumption DEF Inv
<1> DEFINE
      Locals == /\ pc' \in [Cpus -> Locations] /\ name' \in [Cpus -> fs_list \cup Names \cup {""}]
                /\ mp' \in [Cpus -> Objects \cup {NULL}] /\ vp' \in [Cpus -> Objects \cup {NULL}]
                /\ old' \in [Cpus -> Int]
      Shared == /\ stage' \in {"early", "vfs_init", "up"} /\ heap' \subseteq Objects
                /\ is_mountlist_init' \in BOOLEAN /\ mountlist' \in Seq(Objects)
                /\ mount_lock' \in Cpus \cup {None} /\ mounted' \subseteq Objects
      Fields == /\ mnt' \in [Objects -> Mount]
                /\ ref' \in [Objects -> Int] /\ rights' \in [Objects -> 0 .. 2]
<1>q. Locals /\ Shared /\ Fields => TypeOK'
  BY DEF TypeOK
<1>g. \A c \in Cpus : \A from : \A to \in Locations :
        Goto(c, from, to) /\ UNCHANGED locals => Locals
  BY <1>t, GotoTypes DEF TypeOK, locals
<1>r. \A c \in Cpus : \A from : Return(c, from) => Locals
  BY <1>t, ReturnTypes
<1>s. UNCHANGED <<stage, heap, listVars, mounted>> => Shared
  BY <1>t DEF TypeOK, listVars
<1>f. UNCHANGED <<mnt, ref, rights>> => Fields
  BY <1>t DEF TypeOK
<1>m. mnt \in [Objects -> Mount]
  BY <1>t DEF TypeOK
<1>n. ref \in [Objects -> Int] /\ rights \in [Objects -> 0 .. 2]
  BY <1>t DEF TypeOK
<1>o. /\ name \in [Cpus -> fs_list \cup Names \cup {""}]
      /\ mp \in [Cpus -> Objects \cup {NULL}] /\ vp \in [Cpus -> Objects \cup {NULL}]
      /\ old \in [Cpus -> Int]
  BY <1>t DEF TypeOK
<1>l. {"idle", "tmpfs_init", "mount", "list_init", "flag", "byname", "alloc", "fs_mount",
       "kfree", "lock", "insert", "unlock", "lookup", "scan", "ref", "reread", "free"}
        \subseteq Locations
  BY DEF Locations
<1>1. CASE vfs_init \/ cpu_start_aps
  <2>1. Locals
    BY <1>1, <1>t, <1>g, <1>l DEF vfs_init, cpu_start_aps, locals, TypeOK
  <2>2. Shared
    BY <1>1, <1>t DEF vfs_init, cpu_start_aps, listVars, TypeOK
  <2> QED
    BY <1>1, <1>f, <1>q, <2>1, <2>2 DEF vfs_init, cpu_start_aps
<1>2. ASSUME NEW c \in Cpus, tmpfs_init \/ CallMount(c) \/ namei(c) PROVE TypeOK'
  <2>1. pc' \in [Cpus -> Locations]
    BY <1>2, <1>t, <1>l, GotoTypes DEF tmpfs_init, CallMount, namei
  <2>2. Locals
    BY <1>2, <1>t, <2>1 DEF tmpfs_init, CallMount, namei, TypeOK
  <2> QED
    BY <1>2, <1>f, <1>q, <1>s, <2>2 DEF tmpfs_init, CallMount, namei
<1>3. ASSUME NEW c \in Cpus, CheckInit(c) \/ ListInit(c) \/ SetFlag(c) PROVE TypeOK'
  <2>1. Locals
    BY <1>3, <1>g, <1>l DEF CheckInit, ListInit, SetFlag
  <2>2. Shared
    <3>1. mountlist' \in Seq(Objects) /\ mount_lock' \in Cpus \cup {None}
      <4>1. \/ mountlist' = mountlist /\ mount_lock' = mount_lock
            \/ mountlist' = <<>> /\ mount_lock' = None
        BY <1>3 DEF CheckInit, ListInit, SetFlag, listVars
      <4>2. mountlist \in Seq(Objects) /\ mount_lock \in Cpus \cup {None}
        BY <1>t DEF TypeOK
      <4>3. <<>> \in Seq(Objects)
        OBVIOUS
      <4> QED
        BY <4>1, <4>2, <4>3
    <3>2. is_mountlist_init' \in BOOLEAN
      BY <1>3, <1>t DEF CheckInit, ListInit, SetFlag, listVars, TypeOK
    <3> QED
      BY <1>3, <1>t, <3>1, <3>2 DEF CheckInit, ListInit, SetFlag, TypeOK
  <2> QED
    BY <1>3, <1>f, <1>q, <2>1, <2>2 DEF CheckInit, ListInit, SetFlag
<1>4. ASSUME NEW c \in Cpus, vfs_byname(c) PROVE TypeOK'
  <2>1. Locals
    BY <1>4, <1>g, <1>r, <1>l DEF vfs_byname
  <2> QED
    BY <1>4, <1>f, <1>q, <1>s, <2>1 DEF vfs_byname
<1>5. ASSUME NEW c \in Cpus, AllocMount(c) PROVE TypeOK'
  <2>1. pc[c] = "alloc" /\ name[c] \in fs_list
    BY <1>5 DEF AllocMount, Return, Goto, Inv, Mounts
  <2>2. CASE heap = Objects /\ Return(c, "alloc") /\ UNCHANGED <<heap, mnt>>
    BY <1>5, <1>f, <1>q, <1>r, <1>s, <2>2 DEF AllocMount
  <2>3. ASSUME NEW o \in Objects \ heap, Goto(c, "alloc", "fs_mount"),
               heap' = heap \cup {o}, mp' = [mp EXCEPT ![c] = o],
               mnt' = [mnt EXCEPT ![o].fip = name[c]], UNCHANGED <<name, vp, old>>
        PROVE  TypeOK'
    <3>1. pc' \in [Cpus -> Locations]
      BY <1>t, <1>l, <2>3, GotoTypes
    <3>2. Locals
      BY <1>t, <2>3, <3>1 DEF TypeOK
    <3>3. Shared
      BY <1>5, <1>t, <2>3 DEF AllocMount, listVars, TypeOK
    <3>4. mnt' \in [Objects -> Mount]
      BY <1>t, <2>1, <2>3, ZenonT(30) DEF TypeOK, Mount
    <3> QED
      BY <1>5, <1>t, <1>q, <3>2, <3>3, <3>4 DEF AllocMount, TypeOK
  <2> QED
    BY <1>5, <2>2, <2>3 DEF AllocMount
<1>6. ASSUME NEW c \in Cpus, tmpfs_mount(c) PROVE TypeOK'
  <2>1. Locals
    BY <1>6, <1>g, <1>l DEF tmpfs_mount
  <2>2. Shared
    BY <1>6, <1>t DEF tmpfs_mount, listVars, TypeOK
  <2>3. mnt' \in [Objects -> Mount]
    <3>1. mnt' = mnt \/ \E o \in Objects : mnt' = [mnt EXCEPT ![mp[c]].vp = o]
      BY <1>6 DEF tmpfs_mount
    <3> QED
      BY <1>m, <3>1, ZenonT(30) DEF Mount
  <2>4. ref' \in [Objects -> Int]
    <3>1. ref' = ref \/ \E o \in Objects : ref' = [ref EXCEPT ![o] = 1]
      BY <1>6 DEF tmpfs_mount
    <3> QED
      BY <1>n, <3>1
  <2>5. Fields
    BY <1>6, <1>n, <2>3, <2>4 DEF tmpfs_mount
  <2> QED
    BY <1>q, <2>1, <2>2, <2>5
<1>7. ASSUME NEW c \in Cpus, FreeMount(c) PROVE TypeOK'
  <2>1. Locals
    BY <1>7, <1>r DEF FreeMount
  <2>2. Shared
    BY <1>7, <1>t DEF FreeMount, listVars, TypeOK
  <2>3. mnt' \in [Objects -> Mount]
    BY <1>7, <1>m DEF FreeMount, Mount
  <2>4. Fields
    BY <1>7, <1>n, <2>3 DEF FreeMount
  <2> QED
    BY <1>q, <2>1, <2>2, <2>4
<1>8. ASSUME NEW c \in Cpus, spinlock_acquire(c) \/ spinlock_release(c) PROVE TypeOK'
  <2>1. Locals
    BY <1>8, <1>g, <1>r, <1>l DEF spinlock_acquire, spinlock_release
  <2>2. Shared
    BY <1>8, <1>t DEF spinlock_acquire, spinlock_release, TypeOK
  <2> QED
    BY <1>8, <1>f, <1>q, <2>1, <2>2 DEF spinlock_acquire, spinlock_release
<1>9. ASSUME NEW c \in Cpus, Insert(c) PROVE TypeOK'
  <2>1. mp[c] \in Objects
    BY <1>9, <1>t DEF Insert, Goto, Inv, Mounts, Pending, TypeOK
  <2>2. Locals
    BY <1>9, <1>g, <1>l DEF Insert
  <2>3. mountlist' \in Seq(Objects)
    BY <1>9, <1>t, <2>1, AppendFacts DEF Insert, TypeOK
  <2>4. Shared
    BY <1>9, <1>t, <2>1, <2>3 DEF Insert, TypeOK
  <2> QED
    BY <1>9, <1>f, <1>q, <2>2, <2>4 DEF Insert
<1>10. ASSUME NEW c \in Cpus, mount_lookup(c) PROVE TypeOK'
  <2>1. Lookup(name[c]) \in Objects \cup {NULL}
    BY <1>t, LookupFacts
  <2>2. Lookup(name[c]) \in Objects => mnt[Lookup(name[c])].vp \in Objects \cup {NULL}
    BY <1>t DEF TypeOK, Mount
  <2>3. pc' \in [Cpus -> Locations]
    BY <1>10, <1>t, <1>l, GotoTypes DEF mount_lookup
  <2>4. Locals
    BY <1>10, <1>t, <2>1, <2>2, <2>3 DEF mount_lookup, TypeOK
  <2> QED
    BY <1>10, <1>f, <1>q, <1>s, <2>4 DEF mount_lookup
<1>11. ASSUME NEW c \in Cpus, vnode_init(c) PROVE TypeOK'
  <2>1. Locals
    BY <1>11, <1>t DEF vnode_init, locals, TypeOK
  <2>2. Shared
    BY <1>11, <1>t DEF vnode_init, listVars, TypeOK
  <2>3. Fields
    <3>1. PICK o \in Objects, k \in Releases :
            ref' = [ref EXCEPT ![o] = 1] /\ rights' = [rights EXCEPT ![o] = k]
      BY <1>11 DEF vnode_init
    <3>k. k \in 0 .. 2
      <4>1. Releases \subseteq {1, 2}
        BY VfsAssumption
      <4>2. k = 1 \/ k = 2
        BY <4>1
      <4> QED
        BY <4>2
    <3>2. ref' \in [Objects -> Int]
      BY <1>n, <3>1
    <3>3. rights' \in [Objects -> 0 .. 2]
      BY <1>n, <3>1, <3>k
    <3> QED
      BY <1>11, <1>m, <3>2, <3>3 DEF vnode_init
  <2> QED
    BY <1>q, <2>1, <2>2, <2>3
<1>12. ASSUME NEW c \in Cpus, vnode_release(c) PROVE TypeOK'
  <2>1. pc' \in [Cpus -> Locations]
    BY <1>12, <1>t, <1>l, GotoTypes DEF vnode_release
  <2>2. Locals
    BY <1>12, <1>n, <1>o, <2>1, ZenonT(30) DEF vnode_release
  <2>3. Fields
    <3>1. PICK o \in Objects : rights[o] > 0 /\ rights' = [rights EXCEPT ![o] = @ - 1]
      BY <1>12 DEF vnode_release
    <3>2. rights' \in [Objects -> 0 .. 2]
      BY <1>n, <3>1
    <3> QED
      BY <1>12, <1>m, <1>n, <3>2 DEF vnode_release
  <2> QED
    BY <1>12, <1>q, <1>s, <2>2, <2>3 DEF vnode_release
<1>13. ASSUME NEW c \in Cpus, Decrement(c) PROVE TypeOK'
  <2>1. Locals
    BY <1>13, <1>g, <1>l DEF Decrement
  <2>2. Fields
    <3>1. ref' = [ref EXCEPT ![vp[c]] = old[c] - 1] /\ UNCHANGED <<mnt, rights>>
      BY <1>13 DEF Decrement
    <3>2. old[c] \in Int /\ vp[c] \in Objects
      BY <1>13, <1>o DEF Decrement, Inv, Vnodes
    <3>3. ref' \in [Objects -> Int]
      BY <1>n, <3>1, <3>2
    <3> QED
      BY <1>m, <1>n, <3>1, <3>3
  <2> QED
    BY <1>13, <1>q, <1>s, <2>1, <2>2 DEF Decrement
<1>14. ASSUME NEW c \in Cpus, Free(c) PROVE TypeOK'
  <2>1. Locals
    BY <1>14, <1>r DEF Free
  <2>2. Shared
    BY <1>14, <1>t DEF Free, listVars, TypeOK
  <2>3. Fields
    <3>1. ref' = [ref EXCEPT ![vp[c]] = 0] /\ UNCHANGED <<mnt, rights>>
      BY <1>14 DEF Free
    <3>2. vp[c] \in Objects
      BY <1>14 DEF Free, Return, Goto, Inv, Vnodes
    <3>3. ref' \in [Objects -> Int]
      BY <1>n, <3>1, <3>2
    <3> QED
      BY <1>m, <1>n, <3>1, <3>3
  <2> QED
    BY <1>q, <2>1, <2>2, <2>3
<1>15. ASSUME NEW c \in Cpus, Reread(c) PROVE TypeOK'
  BY <1>15, <1>f, <1>q, <1>r, <1>s DEF Reread
<1>16. CASE UNCHANGED vars
  <2>1. Locals
    BY <1>16, <1>t DEF vars, locals, TypeOK
  <2> QED
    BY <1>16, <1>f, <1>q, <1>s, <2>1 DEF vars
<1> QED
  BY <1>t, <1>1, <1>2, <1>3, <1>4, <1>5, <1>6, <1>7, <1>8, <1>9, <1>10, <1>11, <1>12, <1>13,
     <1>14, <1>15, <1>16 DEF Next

(* mountlist_init runs once, before the other processors are up.           *)
LEMMA NextBooting == Inv /\ [Next]_vars => Booting'
<1> SUFFICES ASSUME Inv, [Next]_vars PROVE Booting'
  OBVIOUS
<1>t. TypeOK /\ Booting /\ Bsp \in Cpus
  BY VfsAssumption DEF Inv
<1>p. pc \in [Cpus -> Locations] /\ is_mountlist_init \in BOOLEAN
  BY <1>t DEF TypeOK
<1> USE DEF Booting, Goto, Return, listVars
<1>1. CASE vfs_init \/ tmpfs_init \/ cpu_start_aps
  BY <1>1, <1>t, <1>p DEF vfs_init, tmpfs_init, cpu_start_aps
<1>2. ASSUME NEW c \in Cpus, CallMount(c) \/ namei(c) \/ vnode_release(c) PROVE Booting'
  BY <1>2, <1>t, <1>p DEF CallMount, namei, vnode_release, MayCall
<1>3. ASSUME NEW c \in Cpus, CheckInit(c) \/ ListInit(c) \/ SetFlag(c) PROVE Booting'
  BY <1>3, <1>t, <1>p DEF CheckInit, ListInit, SetFlag
<1>4. ASSUME NEW c \in Cpus, vfs_byname(c) \/ AllocMount(c) \/ tmpfs_mount(c) \/ FreeMount(c)
      PROVE  Booting'
  BY <1>4, <1>t, <1>p DEF vfs_byname, AllocMount, tmpfs_mount, FreeMount
<1>5. ASSUME NEW c \in Cpus,
             spinlock_acquire(c) \/ spinlock_release(c) \/ Insert(c) \/ mount_lookup(c)
      PROVE  Booting'
  BY <1>5, <1>t, <1>p DEF spinlock_acquire, spinlock_release, Insert, mount_lookup
<1>6. ASSUME NEW c \in Cpus, vnode_init(c) \/ Decrement(c) \/ Reread(c) \/ Free(c) PROVE Booting'
  <2>1. CASE vnode_init(c)
    BY <2>1, <1>t DEF vnode_init
  <2>2. CASE Decrement(c)
    BY <2>2, <1>t, <1>p DEF Decrement
  <2>3. CASE Reread(c)
    BY <2>3, <1>t, <1>p DEF Reread
  <2>4. CASE Free(c)
    BY <2>4, <1>t, <1>p DEF Free
  <2> QED
    BY <1>6, <2>1, <2>2, <2>3, <2>4
<1>7. CASE UNCHANGED vars
  BY <1>7, <1>t DEF vars
<1> QED
  BY <1>1, <1>2, <1>3, <1>4, <1>5, <1>6, <1>7 DEF Next

LEMMA NextLocked == Inv /\ [Next]_vars => Locked'
<1> SUFFICES ASSUME Inv, [Next]_vars PROVE Locked'
  OBVIOUS
<1>t. TypeOK /\ Booting /\ Locked /\ Bsp \in Cpus /\ None \notin Cpus
  BY VfsAssumption DEF Inv
<1>p. pc \in [Cpus -> Locations] /\ mount_lock \in Cpus \cup {None}
  BY <1>t DEF TypeOK
<1> USE DEF Locked, Goto, Return, listVars
<1>1. CASE vfs_init \/ tmpfs_init \/ cpu_start_aps
  BY <1>1, <1>t, <1>p DEF vfs_init, tmpfs_init, cpu_start_aps
<1>2. ASSUME NEW c \in Cpus, CallMount(c) \/ namei(c) \/ vnode_release(c) PROVE Locked'
  BY <1>2, <1>t, <1>p DEF CallMount, namei, vnode_release
<1>3. ASSUME NEW c \in Cpus, CheckInit(c) \/ SetFlag(c) PROVE Locked'
  BY <1>3, <1>t, <1>p DEF CheckInit, SetFlag
<1>4. ASSUME NEW c \in Cpus, ListInit(c) PROVE Locked'
  <2>1. pc[c] = "list_init" /\ pc' = [pc EXCEPT ![c] = "flag"] /\ mount_lock' = None
    BY <1>4 DEF ListInit
  <2>2. \A d \in Cpus : pc[d] \notin {"insert", "scan", "unlock"}
    BY <1>t, <2>1 DEF Booting
  <2> QED
    BY <1>t, <1>p, <2>1, <2>2
<1>5. ASSUME NEW c \in Cpus, vfs_byname(c) \/ AllocMount(c) \/ tmpfs_mount(c) \/ FreeMount(c)
      PROVE  Locked'
  BY <1>5, <1>t, <1>p DEF vfs_byname, AllocMount, tmpfs_mount, FreeMount
<1>6. ASSUME NEW c \in Cpus,
             spinlock_acquire(c) \/ spinlock_release(c) \/ Insert(c) \/ mount_lookup(c)
      PROVE  Locked'
  BY <1>6, <1>t, <1>p DEF spinlock_acquire, spinlock_release, Insert, mount_lookup
<1>7. ASSUME NEW c \in Cpus, vnode_init(c) \/ Decrement(c) \/ Reread(c) \/ Free(c) PROVE Locked'
  BY <1>7, <1>t, <1>p DEF vnode_init, Decrement, Reread, Free
<1>8. CASE UNCHANGED vars
  BY <1>8, <1>t DEF vars
<1> QED
  BY <1>1, <1>2, <1>3, <1>4, <1>5, <1>6, <1>7, <1>8 DEF Next
-----------------------------------------------------------------------------
(* Objects.                                                                *)

ObjectInv == Mounts /\ Roots /\ Vnodes /\ Listed

(* What a processor does outside mount()'s middle part and vnode_release.  *)
Neutral == {"idle", "tmpfs_init", "mount", "list_init", "flag", "byname", "alloc",
            "unlock", "lookup", "scan", "reread"}

(* The locals of the other processors.                                     *)
Others(c) == \A d \in Cpus \ {c} : /\ pc'[d] = pc[d] /\ name'[d] = name[d]
                                   /\ mp'[d] = mp[d] /\ vp'[d] = vp[d] /\ old'[d] = old[d]

LEMMA GotoOthers ==
  ASSUME TypeOK, NEW c \in Cpus, NEW from, NEW to, Goto(c, from, to)
  PROVE  pc[c] = from /\ pc'[c] = to /\ \A d \in Cpus \ {c} : pc'[d] = pc[d]
BY DEF TypeOK, Goto

LEMMA ReturnOthers ==
  ASSUME TypeOK, NEW c \in Cpus, NEW from, Return(c, from)
  PROVE  pc[c] = from /\ pc'[c] = "idle" /\ Others(c)
<1>1. pc[c] = from /\ pc'[c] = "idle" /\ \A d \in Cpus \ {c} : pc'[d] = pc[d]
  BY GotoOthers DEF Return
<1>2. \A d \in Cpus \ {c} : name'[d] = name[d] /\ mp'[d] = mp[d] /\ vp'[d] = vp[d]
  BY DEF TypeOK, Return
<1>3. old \in [Cpus -> Int] /\ old' = [old EXCEPT ![c] = 0]
  BY DEF TypeOK, Return
<1>4. \A d \in Cpus \ {c} : old'[d] = old[d]
  BY <1>3
<1> QED
  BY <1>1, <1>2, <1>4 DEF Others

(* Such a step changes nothing that the invariant is about.                *)
LEMMA NeutralStep ==
  ASSUME Inv, NEW c \in Cpus, Others(c), pc[c] \in Neutral, pc'[c] \in Neutral,
         pc'[c] = "alloc" => name'[c] \in fs_list,
         UNCHANGED <<heap, mountlist, mnt, ref, rights, mounted>>
  PROVE  ObjectInv'
<1>i. Mounts /\ Roots /\ Vnodes /\ Listed
  BY DEF Inv
<1>1. \A d \in Cpus : /\ Pending(d)' <=> Pending(d)
                      /\ Pending(d) => mp'[d] = mp[d]
                      /\ pc'[d] \in {"lock", "insert"} <=> pc[d] \in {"lock", "insert"}
                      /\ pc'[d] \in {"ref", "free"} <=> pc[d] \in {"ref", "free"}
                      /\ pc'[d] \in {"ref", "free"} =>
                           pc'[d] = pc[d] /\ vp'[d] = vp[d] /\ old'[d] = old[d]
  BY DEF Others, Neutral, Pending
<1>2. \A d \in Cpus : pc[d] \in {"lock", "insert"} => Pending(d)
  BY DEF Pending
<1>3. \A d \in Cpus : pc'[d] = "alloc" => name'[d] \in fs_list
  BY <1>i DEF Others, Mounts
<1>4. Mounts'
  BY <1>i, <1>1, <1>3 DEF Mounts
<1>5. \A v : \A d \in Cpus : User(d, v)' <=> User(d, v)
  BY <1>1 DEF User
<1>6. \A m : Rooted(m)' <=> Rooted(m)
  BY <1>1, <1>2 DEF Rooted
<1>7. Roots'
  BY <1>i, <1>5, <1>6 DEF Roots, User
<1>8. Vnodes'
  BY <1>i, <1>1, <1>5 DEF Vnodes, User
<1>9. Listed'
  BY <1>i DEF Listed
<1> QED
  BY <1>4, <1>7, <1>8, <1>9 DEF ObjectInv

(* An object that is not allocated is none of the above.                   *)
LEMMA Unused ==
  ASSUME Inv, NEW o \in Objects \ heap
  PROVE  /\ o \notin mounted /\ mnt[o].fip = NULL /\ rights[o] = 0
         /\ \A d \in Cpus : ~User(d, o) /\ (Pending(d) => mp[d] # o)
         /\ \A m \in Objects : Rooted(m) => m # o /\ mnt[m].vp # o
         /\ ~Rooted(o)
<1>i. TypeOK /\ Mounts /\ Roots /\ Vnodes
  BY DEF Inv
<1>1. o \notin mounted /\ \A d \in Cpus : Pending(d) => mp[d] # o
  BY <1>i DEF Mounts
<1>2. mnt[o].fip = NULL
  BY <1>i, <1>1 DEF Mounts
<1>3. rights[o] = 0
  <2>1. rights[o] \in 0 .. 2 /\ ~(rights[o] > 0)
    BY <1>i DEF TypeOK, Vnodes
  <2> QED
    BY <2>1
<1>4. \A d \in Cpus : ~User(d, o)
  BY <1>i DEF Vnodes
<1>5. ~Rooted(o)
  BY <1>1 DEF Rooted, Pending
<1>6. \A m \in Objects : Rooted(m) => m # o /\ mnt[m].vp # o
  BY <1>i, <1>5 DEF Roots
<1> QED
  BY <1>1, <1>2, <1>3, <1>4, <1>5, <1>6

LEMMA AllocMountStep == ASSUME Inv, NEW c \in Cpus, AllocMount(c) PROVE ObjectInv'
<1>i. TypeOK /\ Mounts /\ Roots /\ Vnodes /\ Listed
  BY DEF Inv
<1>1. CASE heap = Objects /\ Return(c, "alloc") /\ UNCHANGED <<heap, mnt>>
  <2>1. pc[c] = "alloc" /\ pc'[c] = "idle" /\ Others(c)
    BY <1>1, <1>i, ReturnOthers
  <2>2. UNCHANGED <<heap, mountlist, mnt, ref, rights, mounted>>
    BY <1>1 DEF AllocMount, listVars
  <2> QED
    BY <2>1, <2>2, NeutralStep DEF Neutral
<1>2. ASSUME NEW o \in Objects \ heap,
             Goto(c, "alloc", "fs_mount"), heap' = heap \cup {o},
             mp' = [mp EXCEPT ![c] = o], mnt' = [mnt EXCEPT ![o].fip = name[c]],
             UNCHANGED <<name, vp, old>>
      PROVE  ObjectInv'
  <2>1. /\ pc[c] = "alloc" /\ pc'[c] = "fs_mount" /\ \A d \in Cpus \ {c} : pc'[d] = pc[d]
    BY <1>2, <1>i, GotoOthers
  <2>2. mp'[c] = o /\ \A d \in Cpus \ {c} : mp'[d] = mp[d]
    BY <1>2, <1>i DEF TypeOK
  <2>3. /\ mnt'[o].fip = name[c] /\ name[c] # NULL
        /\ \A m \in Objects : m # o => mnt'[m] = mnt[m]
    <3>1. name[c] \in fs_list
      BY <1>i, <2>1 DEF Mounts
    <3> QED
      BY <1>2, <1>i, <3>1, VfsAssumption, ZenonT(30) DEF TypeOK, Mount
  <2>4. UNCHANGED <<mountlist, ref, rights, mounted, vp, old, name>>
    BY <1>2 DEF AllocMount, listVars
  <2>5. /\ o \notin mounted /\ mnt[o].fip = NULL /\ rights[o] = 0
        /\ \A d \in Cpus : ~User(d, o) /\ (Pending(d) => mp[d] # o)
        /\ \A m \in Objects : Rooted(m) => m # o /\ mnt[m].vp # o
        /\ ~Rooted(o)
    BY Unused
  <2>6. \A d \in Cpus : /\ Pending(d)' <=> Pending(d) \/ d = c
                        /\ ~Pending(c)
                        /\ Pending(d) => mp'[d] = mp[d]
    BY <2>1, <2>2 DEF Pending
  <2>7. Mounts'
    <3>1. \A d \in Cpus : pc'[d] = "alloc" => name'[d] \in fs_list
      BY <1>i, <2>1, <2>4 DEF Mounts
    <3>2. \A d \in Cpus : Pending(d)' => /\ mp'[d] \in heap' /\ mp'[d] \notin mounted'
                                         /\ mnt'[mp'[d]].fip # NULL
      <4> SUFFICES ASSUME NEW d \in Cpus, Pending(d)'
                   PROVE  mp'[d] \in heap' /\ mp'[d] \notin mounted' /\ mnt'[mp'[d]].fip # NULL
        OBVIOUS
      <4>1. CASE d = c
        BY <4>1, <1>2, <2>2, <2>3, <2>4, <2>5
      <4>2. CASE d # c
        <5>1. Pending(d) /\ mp'[d] = mp[d]
          BY <4>2, <2>2, <2>6
        <5>2. mp[d] \in heap /\ mp[d] \notin mounted /\ mnt[mp[d]].fip # NULL /\ mp[d] # o
          BY <5>1, <1>i, <2>5 DEF Mounts
        <5>3. mp[d] \in Objects
          BY <5>2, <1>i DEF TypeOK
        <5> QED
          BY <5>1, <5>2, <5>3, <1>2, <2>3, <2>4
      <4> QED
        BY <4>1, <4>2
    <3>3. \A d, e \in Cpus : Pending(d)' /\ Pending(e)' /\ mp'[d] = mp'[e] => d = e
      BY <1>i, <2>2, <2>5, <2>6 DEF Mounts
    <3>4. \A m \in mounted' : m \in heap' /\ mnt'[m].fip # NULL
      BY <1>2, <1>i, <2>3, <2>4, <2>5 DEF Mounts, TypeOK
    <3>5. \A m \in Objects : mnt'[m].fip # NULL =>
            m \in mounted' \/ \E d \in Cpus : Pending(d)' /\ mp'[d] = m
      BY <1>i, <2>2, <2>3, <2>4, <2>6 DEF Mounts
    <3> QED
      BY <3>1, <3>2, <3>3, <3>4, <3>5 DEF Mounts
  <2>8. \A v : \A d \in Cpus : User(d, v)' <=> User(d, v)
    BY <2>1, <2>4 DEF User
  <2>9. \A m : Rooted(m)' <=> Rooted(m)
    BY <2>1, <2>2, <2>4 DEF Rooted
  <2>10. Roots'
    <3> SUFFICES ASSUME NEW m \in Objects, Rooted(m)'
                 PROVE  /\ mnt'[mnt'[m].vp].fip = NULL /\ mnt'[m].vp \in heap'
                        /\ rights'[mnt'[m].vp] = 0
                        /\ \A d \in Cpus : ~User(d, mnt[m].vp)'
      BY DEF Roots
    <3>1. PICK r : r = mnt[m].vp
      OBVIOUS
    <3>2. Rooted(m) /\ m # o /\ r # o
      BY <2>5, <2>9, <3>1
    <3>3. r \in heap /\ mnt[r].fip = NULL /\ rights[r] = 0 /\ \A d \in Cpus : ~User(d, r)
      BY <1>i, <3>1, <3>2 DEF Roots
    <3>4. r \in Objects
      BY <3>3, <1>i DEF TypeOK
    <3>5. mnt'[m].vp = r /\ mnt'[r] = mnt[r] /\ rights'[r] = rights[r]
      BY <2>3, <2>4, <3>1, <3>2, <3>4
    <3> QED
      BY <1>2, <2>8, <3>3, <3>5 DEF User
  <2>11. Vnodes'
    BY <1>2, <1>i, <2>1, <2>3, <2>4, <2>5, <2>8 DEF Vnodes, User
  <2>12. Listed'
    BY <1>i, <2>4 DEF Listed
  <2> QED
    BY <2>7, <2>10, <2>11, <2>12 DEF ObjectInv
<1> QED
  BY <1>1, <1>2 DEF AllocMount

LEMMA TmpfsMountStep == ASSUME Inv, NEW c \in Cpus, tmpfs_mount(c) PROVE ObjectInv'
<1>i. TypeOK /\ Mounts /\ Roots /\ Vnodes /\ Listed
  BY DEF Inv
<1>1. UNCHANGED <<mountlist, rights, name, mp, vp, old, mounted>>
  BY DEF tmpfs_mount, listVars, locals
<1>2. /\ pc[c] = "fs_mount" /\ pc'[c] \in {"lock", "kfree"}
      /\ \A d \in Cpus \ {c} : pc'[d] = pc[d]
  BY <1>i, GotoOthers DEF tmpfs_mount
<1>3. \A d \in Cpus : Pending(d)' <=> Pending(d)
  BY <1>2 DEF Pending
<1>4. \A v : \A d \in Cpus : User(d, v)' <=> User(d, v)
  BY <1>1, <1>2 DEF User
<1>5. \A d \in Cpus : pc'[d] = "alloc" => name'[d] \in fs_list
  BY <1>i, <1>1, <1>2 DEF Mounts
<1>6. Listed'
  BY <1>i, <1>1 DEF Listed
<1>7. Pending(c) /\ mp[c] \in heap /\ mp[c] \in Objects
  BY <1>i, <1>2 DEF Pending, Mounts, TypeOK
<1>8. CASE Goto(c, "fs_mount", "kfree") /\ UNCHANGED <<heap, mnt, ref>>
  <2>1. pc'[c] = "kfree"
    BY <1>8, <1>i, GotoOthers
  <2>2. Mounts'
    BY <1>i, <1>1, <1>3, <1>5, <1>8 DEF Mounts
  <2>3. \A m : Rooted(m)' <=> Rooted(m)
    BY <1>1, <1>2, <2>1 DEF Rooted
  <2>4. Roots'
    BY <1>i, <1>1, <1>4, <1>8, <2>3 DEF Roots, User
  <2>5. Vnodes'
    BY <1>i, <1>1, <1>2, <1>4, <1>8 DEF Vnodes, User
  <2> QED
    BY <1>6, <2>2, <2>4, <2>5 DEF ObjectInv
<1>9. ASSUME NEW o \in Objects \ heap,
             Goto(c, "fs_mount", "lock"), heap' = heap \cup {o},
             ref' = [ref EXCEPT ![o] = 1], mnt' = [mnt EXCEPT ![mp[c]].vp = o]
      PROVE  ObjectInv'
  <2>1. pc'[c] = "lock"
    BY <1>9, <1>i, GotoOthers
  <2>2. \A m \in Objects : mnt'[m].fip = mnt[m].fip
    BY <1>9, <1>i, <1>7 DEF TypeOK, Mount
  <2>3. mnt'[mp[c]].vp = o /\ \A m \in Objects : m # mp[c] => mnt'[m].vp = mnt[m].vp
    BY <1>9, <1>i, <1>7 DEF TypeOK, Mount
  <2>4. \A v \in Objects : v # o => ref'[v] = ref[v]
    BY <1>9, <1>i DEF TypeOK
  <2>5. /\ o \notin mounted /\ mnt[o].fip = NULL /\ rights[o] = 0
        /\ \A d \in Cpus : ~User(d, o) /\ (Pending(d) => mp[d] # o)
        /\ \A m \in Objects : Rooted(m) => m # o /\ mnt[m].vp # o
        /\ ~Rooted(o)
    BY Unused
  <2>6. Mounts'
    <3>1. \A d \in Cpus : Pending(d) => mp[d] \in Objects
      BY <1>i DEF Mounts, TypeOK
    <3>2. \A m \in mounted : m \in Objects
      BY <1>i DEF TypeOK
    <3> QED
      BY <1>9, <1>i, <1>1, <1>3, <1>5, <2>2, <3>1, <3>2 DEF Mounts
  <2>7. \A m : Rooted(m)' <=> Rooted(m) \/ m = mp[c]
    BY <1>1, <1>2, <2>1 DEF Rooted
  <2>8. Roots'
    <3> SUFFICES ASSUME NEW m \in Objects, Rooted(m)'
                 PROVE  /\ mnt'[mnt'[m].vp].fip = NULL /\ mnt'[m].vp \in heap'
                        /\ rights'[mnt'[m].vp] = 0
                        /\ \A d \in Cpus : ~User(d, mnt[m].vp)'
      BY DEF Roots
    <3>1. CASE m = mp[c]
      BY <3>1, <1>1, <1>4, <1>9, <2>2, <2>3, <2>5 DEF User
    <3>2. CASE m # mp[c]
      <4>1. PICK r : r = mnt[m].vp
        OBVIOUS
      <4>2. Rooted(m) /\ mnt'[m].vp = r
        BY <2>3, <2>7, <3>2, <4>1
      <4>3. r \in heap /\ mnt[r].fip = NULL /\ rights[r] = 0 /\ \A d \in Cpus : ~User(d, r)
        BY <1>i, <4>1, <4>2 DEF Roots
      <4>4. mnt'[r].fip = NULL
        BY <1>i, <2>2, <4>3 DEF TypeOK
      <4> QED
        BY <1>1, <1>4, <1>9, <4>2, <4>3, <4>4 DEF User
    <3> QED
      BY <3>1, <3>2
  <2>9. Vnodes'
    BY <1>9, <1>i, <1>1, <1>2, <1>4, <2>2, <2>4, <2>5 DEF Vnodes, User
  <2> QED
    BY <1>6, <2>6, <2>8, <2>9 DEF ObjectInv
<1> QED
  BY <1>8, <1>9 DEF tmpfs_mount

LEMMA FreeMountStep == ASSUME Inv, NEW c \in Cpus, FreeMount(c) PROVE ObjectInv'
<1>i. TypeOK /\ Mounts /\ Roots /\ Vnodes /\ Listed
  BY DEF Inv
<1>1. heap' = heap \ {mp[c]} /\ UNCHANGED <<mountlist, ref, rights, mounted>>
  BY DEF FreeMount, listVars
<1>2. pc[c] = "kfree" /\ pc'[c] = "idle" /\ Others(c)
  BY <1>i, ReturnOthers DEF FreeMount
<1>3. PICK o : o = mp[c]
  OBVIOUS
<1>4. o \in heap /\ o \notin mounted /\ mnt[o].fip # NULL /\ o \in Objects
  BY <1>i, <1>2, <1>3 DEF Mounts, Pending, TypeOK
<1>5. mnt'[o].fip = NULL /\ \A m \in Objects : m # o => mnt'[m] = mnt[m]
  BY <1>i, <1>3, <1>4 DEF FreeMount, TypeOK, Mount
<1>6. /\ Pending(c) /\ ~Pending(c)' /\ pc[c] \notin {"lock", "insert", "ref", "free"}
      /\ pc'[c] \notin {"lock", "insert", "ref", "free"}
      /\ \A d \in Cpus \ {c} : /\ Pending(d)' <=> Pending(d)
                               /\ pc'[d] = pc[d] /\ mp'[d] = mp[d] /\ vp'[d] = vp[d]
                               /\ old'[d] = old[d] /\ name'[d] = name[d]
                               /\ Pending(d) => mp[d] # o
  BY <1>i, <1>2, <1>3 DEF Others, Pending, Mounts
<1>7. Mounts'
  <2>1. \A d \in Cpus : pc'[d] = "alloc" => name'[d] \in fs_list
    BY <1>i, <1>2, <1>6 DEF Mounts
  <2>2. \A d \in Cpus : Pending(d)' => /\ mp'[d] \in heap' /\ mp'[d] \notin mounted'
                                       /\ mnt'[mp'[d]].fip # NULL
    <3> SUFFICES ASSUME NEW d \in Cpus, Pending(d)'
                 PROVE  mp'[d] \in heap' /\ mp'[d] \notin mounted' /\ mnt'[mp'[d]].fip # NULL
      OBVIOUS
    <3>1. d # c /\ mp'[d] = mp[d] /\ mp[d] # o /\ Pending(d)
      BY <1>6
    <3>2. mp[d] \in heap /\ mp[d] \notin mounted /\ mnt[mp[d]].fip # NULL
      BY <3>1, <1>i DEF Mounts
    <3>3. mp[d] \in Objects
      BY <3>2, <1>i DEF TypeOK
    <3> QED
      BY <1>1, <1>3, <1>5, <3>1, <3>2, <3>3
  <2>3. \A d, e \in Cpus : Pending(d)' /\ Pending(e)' /\ mp'[d] = mp'[e] => d = e
    BY <1>i, <1>6 DEF Mounts
  <2>4. \A m \in mounted' : m \in heap' /\ mnt'[m].fip # NULL
    <3>1. \A m \in mounted : m \in heap /\ mnt[m].fip # NULL /\ m \in Objects /\ m # o
      BY <1>i, <1>4 DEF Mounts, TypeOK
    <3> QED
      BY <1>1, <1>3, <1>5, <3>1
  <2>5. \A m \in Objects : mnt'[m].fip # NULL =>
          m \in mounted' \/ \E d \in Cpus : Pending(d)' /\ mp'[d] = m
    <3> SUFFICES ASSUME NEW m \in Objects, mnt'[m].fip # NULL
                 PROVE  m \in mounted \/ \E d \in Cpus : Pending(d)' /\ mp'[d] = m
      BY <1>1
    <3>1. m # o /\ mnt[m].fip # NULL
      BY <1>5
    <3> QED
      BY <1>i, <1>3, <1>6, <3>1 DEF Mounts
  <2> QED
    BY <2>1, <2>2, <2>3, <2>4, <2>5 DEF Mounts
<1>8. \A v : \A d \in Cpus : User(d, v)' <=> User(d, v)
  BY <1>6 DEF User
<1>9. \A m : Rooted(m)' <=> Rooted(m)
  BY <1>1, <1>6 DEF Rooted
<1>10. Roots'
  <2> SUFFICES ASSUME NEW m \in Objects, Rooted(m)'
               PROVE  /\ mnt'[mnt'[m].vp].fip = NULL /\ mnt'[m].vp \in heap'
                      /\ rights'[mnt'[m].vp] = 0
                      /\ \A d \in Cpus : ~User(d, mnt[m].vp)'
    BY DEF Roots
  <2>1. PICK r : r = mnt[m].vp
    OBVIOUS
  <2>2. Rooted(m) /\ m # o
    BY <1>4, <1>6, <1>9 DEF Rooted, Pending
  <2>3. r \in heap /\ mnt[r].fip = NULL /\ rights[r] = 0 /\ \A d \in Cpus : ~User(d, r)
    BY <1>i, <2>1, <2>2 DEF Roots
  <2>4. r # o /\ r \in Objects
    BY <1>i, <1>4, <2>3 DEF TypeOK
  <2>5. mnt'[m].vp = r /\ mnt'[r] = mnt[r]
    BY <1>5, <2>1, <2>2, <2>4
  <2> QED
    BY <1>1, <1>3, <1>8, <2>3, <2>4, <2>5 DEF User
<1>11. Vnodes'
  <2>1. \A v \in Objects : mnt[v].fip = NULL => mnt'[v].fip = NULL /\ v # o
    BY <1>4, <1>5
  <2> QED
    BY <1>i, <1>1, <1>3, <1>6, <1>8, <2>1 DEF Vnodes, User
<1>12. Listed'
  BY <1>i, <1>1 DEF Listed
<1> QED
  BY <1>7, <1>10, <1>11, <1>12 DEF ObjectInv

(* Between lock and insert the struct mount is still the call's own.       *)
LEMMA AcquireStep == ASSUME Inv, NEW c \in Cpus, spinlock_acquire(c) PROVE ObjectInv'
<1>i. TypeOK /\ Mounts /\ Roots /\ Vnodes /\ Listed
  BY DEF Inv
<1>1. UNCHANGED <<heap, mountlist, mnt, ref, rights, name, mp, vp, old, mounted>>
  BY DEF spinlock_acquire, locals
<1>2. /\ (pc[c] = "lock" /\ pc'[c] = "insert") \/ (pc[c] = "lookup" /\ pc'[c] = "scan")
      /\ \A d \in Cpus \ {c} : pc'[d] = pc[d]
  BY <1>i, GotoOthers DEF spinlock_acquire
<1>3. \A d \in Cpus : /\ Pending(d)' <=> Pending(d)
                      /\ pc'[d] \in {"lock", "insert"} <=> pc[d] \in {"lock", "insert"}
                      /\ pc'[d] \in {"ref", "free"} <=> pc[d] \in {"ref", "free"}
                      /\ pc'[d] \in {"ref", "free"} => pc'[d] = pc[d]
                      /\ pc'[d] = "alloc" => pc[d] = "alloc"
  BY <1>2 DEF Pending
<1>4. Mounts'
  BY <1>i, <1>1, <1>3 DEF Mounts
<1>5. \A v : \A d \in Cpus : User(d, v)' <=> User(d, v)
  BY <1>1, <1>3 DEF User
<1>6. \A m : Rooted(m)' <=> Rooted(m)
  BY <1>1, <1>3 DEF Rooted
<1>7. Roots'
  BY <1>i, <1>1, <1>5, <1>6 DEF Roots, User
<1>8. Vnodes'
  BY <1>i, <1>1, <1>3, <1>5 DEF Vnodes, User
<1>9. Listed'
  BY <1>i, <1>1 DEF Listed
<1> QED
  BY <1>4, <1>7, <1>8, <1>9 DEF ObjectInv

LEMMA InsertStep == ASSUME Inv, NEW c \in Cpus, Insert(c) PROVE ObjectInv'
<1>i. TypeOK /\ Mounts /\ Roots /\ Vnodes /\ Listed
  BY DEF Inv
<1>1. UNCHANGED <<heap, mnt, ref, rights, name, mp, vp, old>>
  BY DEF Insert, locals
<1>2. /\ pc[c] = "insert" /\ pc'[c] = "unlock"
      /\ \A d \in Cpus \ {c} : pc'[d] = pc[d]
  BY <1>i, GotoOthers DEF Insert
<1>3. PICK o : o = mp[c]
  OBVIOUS
<1>4. mountlist' = Append(mountlist, o) /\ mounted' = mounted \cup {o}
  BY <1>3 DEF Insert
<1>5. o \in heap /\ o \notin mounted /\ mnt[o].fip # NULL /\ o \in Objects
  BY <1>i, <1>2, <1>3 DEF Mounts, Pending, TypeOK
<1>6. /\ Pending(c) /\ ~Pending(c)' /\ pc[c] \notin {"ref", "free"}
      /\ \A d \in Cpus \ {c} : (Pending(d)' <=> Pending(d)) /\ (Pending(d) => mp[d] # o)
  BY <1>i, <1>2, <1>3 DEF Pending, Mounts
<1>7. Mounts'
  BY <1>i, <1>1, <1>2, <1>3, <1>4, <1>5, <1>6 DEF Mounts
<1>8. \A v : \A d \in Cpus : User(d, v)' <=> User(d, v)
  BY <1>1, <1>2 DEF User
<1>9. \A m : Rooted(m)' => Rooted(m)
  <2>1. Rooted(o)
    BY <1>2, <1>3 DEF Rooted
  <2> QED
    BY <1>1, <1>2, <1>4, <2>1 DEF Rooted
<1>10. Roots'
  BY <1>i, <1>1, <1>8, <1>9 DEF Roots, User
<1>11. Vnodes'
  BY <1>i, <1>1, <1>2, <1>8 DEF Vnodes, User
<1>12. Listed'
  <2>1. Len(mountlist) \in Nat /\ DOMAIN mountlist = 1 .. Len(mountlist)
    BY <1>i, ListFacts DEF TypeOK
  <2>2. /\ DOMAIN mountlist' = 1 .. Len(mountlist) + 1
        /\ \A i \in 1 .. Len(mountlist) : mountlist'[i] = mountlist[i]
        /\ mountlist'[Len(mountlist) + 1] = o
    <3>1. mountlist \in Seq(Objects)
      BY <1>i DEF TypeOK
    <3> QED
      BY <1>4, <1>5, <3>1, AppendFacts
  <2>3. \A i \in DOMAIN mountlist' : i \in DOMAIN mountlist \/ i = Len(mountlist) + 1
    BY <2>1, <2>2
  <2>4. DOMAIN mountlist \subseteq DOMAIN mountlist' /\ Len(mountlist) + 1 \in DOMAIN mountlist'
    BY <2>1, <2>2
  <2>5. \A i \in DOMAIN mountlist' : mountlist'[i] \in mounted'
    BY <1>i, <1>4, <2>1, <2>2, <2>3 DEF Listed
  <2>6. \A m \in mounted' : \E i \in DOMAIN mountlist' : mountlist'[i] = m
    BY <1>i, <1>4, <2>1, <2>2, <2>4 DEF Listed
  <2>7. \A i, j \in DOMAIN mountlist' : mountlist'[i] = mountlist'[j] => i = j
    BY <1>i, <1>5, <2>1, <2>2, <2>3 DEF Listed
  <2> QED
    BY <2>5, <2>6, <2>7 DEF Listed
<1> QED
  BY <1>7, <1>10, <1>11, <1>12 DEF ObjectInv

LEMMA VnodeInitStep == ASSUME Inv, NEW c \in Cpus, vnode_init(c) PROVE ObjectInv'
<1>i. TypeOK /\ Mounts /\ Roots /\ Vnodes /\ Listed
  BY DEF Inv
<1>1. UNCHANGED <<mountlist, mnt, pc, name, mp, vp, old, mounted>>
  BY DEF vnode_init, listVars, locals
<1>2. PICK o \in Objects \ heap : /\ heap' = heap \cup {o} /\ ref' = [ref EXCEPT ![o] = 1]
                                  /\ \E k \in Releases : rights' = [rights EXCEPT ![o] = k]
  BY DEF vnode_init
<1>3. ref \in [Objects -> Int] /\ rights \in [Objects -> 0 .. 2]
  BY <1>i DEF TypeOK
<1>4. ref'[o] = 1
  BY <1>2, <1>3
<1>5. \A v \in Objects : v # o => ref'[v] = ref[v] /\ rights'[v] = rights[v]
  BY <1>2, <1>3
<1>6. /\ o \notin mounted /\ mnt[o].fip = NULL
      /\ \A d \in Cpus : ~User(d, o) /\ (Pending(d) => mp[d] # o)
      /\ \A m \in Objects : Rooted(m) => m # o /\ mnt[m].vp # o
  BY <1>2, Unused
<1>7. /\ \A v : \A d \in Cpus : User(d, v)' <=> User(d, v)
      /\ \A d \in Cpus : Pending(d)' <=> Pending(d)
      /\ \A m : Rooted(m)' <=> Rooted(m)
  BY <1>1 DEF User, Pending, Rooted
<1>8. Mounts'
  BY <1>i, <1>1, <1>2, <1>7 DEF Mounts
<1>9. Roots'
  <2>1. \A m \in Objects : Rooted(m) => mnt[m].vp \in Objects
    BY <1>i DEF Roots, TypeOK
  <2> QED
    BY <1>i, <1>1, <1>2, <1>5, <1>6, <1>7, <2>1 DEF Roots, User
<1>10. Vnodes'
  <2> SUFFICES ASSUME NEW v \in Objects
               PROVE  /\ rights'[v] > 0 => v \in heap' /\ mnt'[v].fip = NULL
                      /\ rights'[v] = 2 => ref'[v] > 0
                      /\ \A d \in Cpus : User(d, v) =>
                           /\ v \in heap' /\ mnt'[v].fip = NULL
                           /\ rights'[v] < 2
                           /\ rights'[v] = 1 => pc[d] = "ref" /\ old[d] > 0 /\ ref'[v] > 0
                           /\ rights'[v] = 1 \/ pc[d] = "free" \/ old[d] <= 0 =>
                                \A e \in Cpus : User(e, v) => e = d
    BY <1>i, <1>1, <1>7 DEF Vnodes, User
  <2>1. CASE v = o
    BY <2>1, <1>1, <1>2, <1>4, <1>6
  <2>2. CASE v # o
    BY <2>2, <1>i, <1>1, <1>2, <1>5 DEF Vnodes
  <2> QED
    BY <2>1, <2>2
<1>11. Listed'
  BY <1>i, <1>1 DEF Listed
<1> QED
  BY <1>8, <1>9, <1>10, <1>11 DEF ObjectInv

(* A release reads a positive count as long as another one is to come or   *)
(* is under way.                                                           *)
LEMMA VnodeReleaseStep == ASSUME Inv, NEW c \in Cpus, vnode_release(c) PROVE ObjectInv'
<1>i. TypeOK /\ Mounts /\ Roots /\ Vnodes /\ Listed
  BY DEF Inv
<1>1. UNCHANGED <<heap, mountlist, mnt, ref, name, mp, mounted>>
  BY DEF vnode_release, listVars
<1>2. pc[c] = "idle" /\ pc'[c] = "ref" /\ \A d \in Cpus \ {c} : pc'[d] = pc[d]
  BY <1>i, GotoOthers DEF vnode_release
<1>3. PICK o \in Objects : /\ rights[o] > 0 /\ rights' = [rights EXCEPT ![o] = @ - 1]
                           /\ vp' = [vp EXCEPT ![c] = o] /\ old' = [old EXCEPT ![c] = ref[o]]
  BY DEF vnode_release
<1>4. rights \in [Objects -> 0 .. 2] /\ vp \in [Cpus -> Objects \cup {NULL}]
  BY <1>i DEF TypeOK
<1>5. ref \in [Objects -> Int] /\ old \in [Cpus -> Int]
  BY <1>i DEF TypeOK
<1>6. /\ rights'[o] = rights[o] - 1 /\ rights[o] \in 1 .. 2
      /\ \A v \in Objects : v # o => rights'[v] = rights[v]
  BY <1>3, <1>4
<1>7. vp'[c] = o /\ \A d \in Cpus \ {c} : vp'[d] = vp[d]
  BY <1>3, <1>4
<1>8. old'[c] = ref[o] /\ \A d \in Cpus \ {c} : old'[d] = old[d]
  BY <1>3, <1>5
<1>9. /\ \A d \in Cpus : Pending(d)' <=> Pending(d)
      /\ \A m : Rooted(m)' <=> Rooted(m)
      /\ \A d \in Cpus : pc'[d] = "alloc" => pc[d] = "alloc"
  BY <1>1, <1>2 DEF Pending, Rooted
<1>10. /\ \A v : ~User(c, v) /\ (User(c, v)' <=> v = o)
       /\ \A d \in Cpus \ {c} : \A v : User(d, v)' <=> User(d, v)
  BY <1>2, <1>7 DEF User
<1>11. Mounts'
  BY <1>i, <1>1, <1>9 DEF Mounts
<1>12. Roots'
  <2> SUFFICES ASSUME NEW m \in Objects, Rooted(m)
               PROVE  /\ mnt[mnt[m].vp].fip = NULL /\ mnt[m].vp \in heap
                      /\ rights'[mnt[m].vp] = 0 /\ \A d \in Cpus : ~User(d, mnt[m].vp)'
    BY <1>1, <1>9 DEF Roots
  <2>1. PICK r : r = mnt[m].vp
    OBVIOUS
  <2>2. r \in heap /\ mnt[r].fip = NULL /\ rights[r] = 0 /\ \A d \in Cpus : ~User(d, r)
    BY <1>i, <2>1 DEF Roots
  <2>3. r # o /\ r \in Objects
    <3>1. heap \subseteq Objects
      BY <1>i DEF TypeOK
    <3> QED
      BY <1>6, <2>2, <3>1
  <2>4. rights'[r] = 0 /\ \A d \in Cpus : ~User(d, r)'
    BY <1>6, <1>10, <2>2, <2>3
  <2> QED
    BY <1>1, <2>1, <2>2, <2>4 DEF User
<1>13. Vnodes'
  <2>1. o \in heap /\ mnt[o].fip = NULL
    BY <1>i, <1>6 DEF Vnodes
  <2>2. \A v \in Objects : rights'[v] > 0 => v \in heap' /\ mnt'[v].fip = NULL
    BY <1>i, <1>1, <1>6, <2>1 DEF Vnodes
  <2>3. \A v \in Objects : rights'[v] = 2 => ref'[v] > 0
    BY <1>i, <1>1, <1>6 DEF Vnodes
  <2>4. \A d \in Cpus : pc'[d] \in {"ref", "free"} => vp'[d] \in Objects
    BY <1>i, <1>2, <1>7 DEF Vnodes
  <2>5. \A d \in Cpus, v \in Objects : User(d, v)' =>
          /\ v \in heap' /\ mnt'[v].fip = NULL
          /\ rights'[v] < 2
          /\ rights'[v] = 1 => pc'[d] = "ref" /\ old'[d] > 0 /\ ref'[v] > 0
          /\ rights'[v] = 1 \/ pc'[d] = "free" \/ old'[d] <= 0 =>
               \A e \in Cpus : User(e, v)' => e = d
    <3> SUFFICES ASSUME NEW d \in Cpus, NEW v \in Objects, User(d, v)'
                 PROVE  /\ v \in heap' /\ mnt'[v].fip = NULL
                        /\ rights'[v] < 2
                        /\ rights'[v] = 1 => pc'[d] = "ref" /\ old'[d] > 0 /\ ref'[v] > 0
                        /\ rights'[v] = 1 \/ pc'[d] = "free" \/ old'[d] <= 0 =>
                             \A e \in Cpus : User(e, v)' => e = d
      OBVIOUS
    <3>1. CASE v # o
      <4>1. d # c /\ User(d, v) /\ \A e \in Cpus : User(e, v)' => User(e, v)
        BY <1>10, <3>1
      <4>2. rights'[v] = rights[v] /\ pc'[d] = pc[d] /\ old'[d] = old[d] /\ ref'[v] = ref[v]
        BY <1>1, <1>2, <1>6, <1>8, <3>1, <4>1
      <4> QED
        BY <1>i, <1>1, <4>1, <4>2 DEF Vnodes
    <3>2. CASE v = o /\ d = c
      <4>1. \A e \in Cpus \ {c} : User(e, o) => rights[o] = 1 /\ ref[o] > 0
        BY <1>i, <1>6 DEF Vnodes
      <4>2. rights[o] = 2 => ref[o] > 0
        BY <1>i DEF Vnodes
      <4>3. rights'[o] = 1 => rights[o] = 2
        BY <1>6
      <4>4. rights'[o] = 1 \/ old'[c] <= 0 => \A e \in Cpus : User(e, o)' => e = c
        BY <1>5, <1>6, <1>8, <1>10, <4>1, <4>3
      <4> QED
        BY <1>1, <1>2, <1>6, <1>8, <2>1, <3>2, <4>2, <4>3, <4>4
    <3>3. CASE v = o /\ d # c
      <4>1. User(d, o) /\ rights[o] = 1 /\ pc[d] = "ref" /\ old[d] > 0
        BY <1>i, <1>6, <1>10, <3>3 DEF Vnodes
      <4>2. rights'[o] = 0 /\ pc'[d] = "ref" /\ old'[d] = old[d] /\ old[d] \in Int
        BY <1>2, <1>5, <1>6, <1>8, <3>3, <4>1
      <4> QED
        BY <1>1, <2>1, <3>3, <4>1, <4>2
    <3> QED
      BY <3>1, <3>2, <3>3
  <2> QED
    BY <2>2, <2>3, <2>4, <2>5 DEF Vnodes
<1>14. Listed'
  BY <1>i, <1>1 DEF Listed
<1> QED
  BY <1>11, <1>12, <1>13, <1>14 DEF ObjectInv

(* The store may be of an old value, but then another call is still to     *)
(* free the vnode.                                                         *)
LEMMA DecrementStep == ASSUME Inv, NEW c \in Cpus, Decrement(c) PROVE ObjectInv'
<1>i. TypeOK /\ Mounts /\ Roots /\ Vnodes /\ Listed
  BY DEF Inv
<1>1. UNCHANGED <<heap, mountlist, mnt, rights, mounted>>
  BY DEF Decrement, listVars
<1>2. /\ pc'[c] = "reread" \/ (pc'[c] = "free" /\ old[c] <= 0)
      /\ UNCHANGED <<name, mp, vp, old>> /\ \A d \in Cpus \ {c} : pc'[d] = pc[d]
  BY <1>i, GotoOthers DEF Decrement, locals
<1>3. pc[c] = "ref" /\ Others(c)
  BY <1>2 DEF Decrement, Others
<1>4. PICK o \in Objects : o = vp[c]
  BY <1>i, <1>3 DEF Vnodes
<1>5. \A v \in Objects : v # o => ref'[v] = ref[v]
  <2>1. ref \in [Objects -> Int] /\ ref' = [ref EXCEPT ![o] = old[c] - 1]
    BY <1>i, <1>4 DEF Decrement, TypeOK
  <2> QED
    BY <2>1
<1>6. User(c, o)
  BY <1>3, <1>4 DEF User
<1>7. /\ \A v : User(c, v)' => v = o /\ pc'[c] = "free" /\ old'[c] = old[c] /\ old[c] <= 0
      /\ \A d \in Cpus \ {c} : \A v : User(d, v)' <=> User(d, v)
  BY <1>2, <1>3, <1>4 DEF User, Others
<1>8. /\ \A d \in Cpus : /\ Pending(d)' <=> Pending(d)
                         /\ Pending(d) => mp'[d] = mp[d]
                         /\ pc'[d] \in {"lock", "insert"} <=> pc[d] \in {"lock", "insert"}
      /\ \A d \in Cpus : pc[d] \in {"lock", "insert"} => Pending(d)
      /\ \A d \in Cpus : pc'[d] = "alloc" => pc[d] = "alloc" /\ name'[d] = name[d]
  BY <1>2, <1>3 DEF Pending, Others
<1>9. \A m : Rooted(m)' <=> Rooted(m)
  BY <1>1, <1>8 DEF Rooted
<1>10. Mounts'
  BY <1>i, <1>1, <1>8 DEF Mounts
<1>11. Roots'
  <2> SUFFICES ASSUME NEW m \in Objects, Rooted(m)
               PROVE  /\ mnt[mnt[m].vp].fip = NULL /\ mnt[m].vp \in heap
                      /\ rights[mnt[m].vp] = 0 /\ \A d \in Cpus : ~User(d, mnt[m].vp)'
    BY <1>1, <1>9 DEF Roots
  <2>1. PICK r : r = mnt[m].vp
    OBVIOUS
  <2>2. r \in heap /\ mnt[r].fip = NULL /\ rights[r] = 0 /\ \A d \in Cpus : ~User(d, r)
    BY <1>i, <2>1 DEF Roots
  <2>3. \A d \in Cpus : ~User(d, r)'
    BY <1>6, <1>7, <2>2
  <2> QED
    BY <1>1, <2>1, <2>2, <2>3 DEF User
<1>12. Vnodes'
  <2>1. \A v \in Objects : rights[v] > 0 => v \in heap /\ mnt[v].fip = NULL
    BY <1>i DEF Vnodes
  <2>2. rights[o] < 2 /\ o \in heap /\ mnt[o].fip = NULL
    BY <1>i, <1>6 DEF Vnodes
  <2>3. \A v \in Objects : rights'[v] = 2 => ref'[v] > 0
    BY <1>i, <1>1, <1>5, <2>2 DEF Vnodes
  <2>4. \A d \in Cpus : pc'[d] \in {"ref", "free"} => vp'[d] \in Objects
    BY <1>i, <1>2, <1>3 DEF Vnodes, Others
  <2>5. \A d \in Cpus, v \in Objects : User(d, v)' =>
          /\ v \in heap' /\ mnt'[v].fip = NULL
          /\ rights'[v] < 2
          /\ rights'[v] = 1 => pc'[d] = "ref" /\ old'[d] > 0 /\ ref'[v] > 0
          /\ rights'[v] = 1 \/ pc'[d] = "free" \/ old'[d] <= 0 =>
               \A e \in Cpus : User(e, v)' => e = d
    <3> SUFFICES ASSUME NEW d \in Cpus, NEW v \in Objects, User(d, v)'
                 PROVE  /\ v \in heap /\ mnt[v].fip = NULL
                        /\ rights[v] < 2
                        /\ rights[v] = 1 => pc'[d] = "ref" /\ old'[d] > 0 /\ ref'[v] > 0
                        /\ rights[v] = 1 \/ pc'[d] = "free" \/ old'[d] <= 0 =>
                             \A e \in Cpus : User(e, v)' => e = d
      BY <1>1
    <3>1. CASE d = c
      <4>1. v = o /\ pc'[c] = "free" /\ old[c] <= 0
        BY <1>7, <3>1
      <4>2. old[c] \in Int
        BY <1>i DEF TypeOK
      <4>3. rights[o] # 1 /\ \A e \in Cpus : User(e, o) => e = c
        BY <1>i, <1>6, <4>1, <4>2 DEF Vnodes
      <4> QED
        BY <1>7, <2>2, <3>1, <4>1, <4>3
    <3>2. CASE d # c
      <4>1. User(d, v) /\ pc'[d] = pc[d] /\ old'[d] = old[d]
        BY <1>3, <1>7, <3>2 DEF Others
      <4>2. \A e \in Cpus : User(e, v)' => User(e, v)
        BY <1>6, <1>7
      <4>3. v = o => rights[v] # 1
        BY <1>i, <1>6, <3>2, <4>1 DEF Vnodes
      <4> QED
        BY <1>i, <1>5, <4>1, <4>2, <4>3 DEF Vnodes
    <3> QED
      BY <3>1, <3>2
  <2> QED
    BY <1>1, <2>1, <2>3, <2>4, <2>5 DEF Vnodes
<1>13. Listed'
  BY <1>i, <1>1 DEF Listed
<1> QED
  BY <1>10, <1>11, <1>12, <1>13 DEF ObjectInv

LEMMA FreeStep == ASSUME Inv, NEW c \in Cpus, Free(c) PROVE ObjectInv'
<1>i. TypeOK /\ Mounts /\ Roots /\ Vnodes /\ Listed
  BY DEF Inv
<1>1. UNCHANGED <<mountlist, mnt, rights, mounted>>
  BY DEF Free, listVars
<1>2. pc[c] = "free" /\ pc'[c] = "idle" /\ Others(c)
  BY <1>i, ReturnOthers DEF Free
<1>3. PICK o \in Objects : o = vp[c]
  BY <1>i, <1>2 DEF Vnodes
<1>4. heap' = heap \ {o}
  BY <1>3 DEF Free
<1>5. \A v \in Objects : v # o => ref'[v] = ref[v]
  <2>1. ref \in [Objects -> Int] /\ ref' = [ref EXCEPT ![o] = 0]
    BY <1>i, <1>3 DEF Free, TypeOK
  <2> QED
    BY <2>1
<1>6. User(c, o)
  BY <1>2, <1>3 DEF User
<1>7. mnt[o].fip = NULL /\ \A d \in Cpus : User(d, o) => d = c
  BY <1>i, <1>2, <1>6 DEF Vnodes
<1>8. rights[o] = 0
  <2>1. rights[o] \in 0 .. 2
    BY <1>i DEF TypeOK
  <2>2. rights[o] < 2 /\ rights[o] # 1
    BY <1>i, <1>2, <1>6 DEF Vnodes
  <2> QED
    BY <2>1, <2>2
<1>9. /\ \A v : ~User(c, v)'
      /\ \A d \in Cpus \ {c} : \A v : User(d, v)' <=> User(d, v)
  BY <1>2 DEF User, Others
<1>10. /\ \A d \in Cpus : /\ Pending(d)' <=> Pending(d)
                          /\ Pending(d) => mp'[d] = mp[d]
                          /\ pc'[d] \in {"lock", "insert"} <=> pc[d] \in {"lock", "insert"}
       /\ \A d \in Cpus : pc[d] \in {"lock", "insert"} => Pending(d)
       /\ \A d \in Cpus : pc'[d] = "alloc" => pc[d] = "alloc" /\ name'[d] = name[d]
  BY <1>2 DEF Pending, Others
<1>11. \A m : Rooted(m)' <=> Rooted(m)
  BY <1>1, <1>10 DEF Rooted
<1>12. Mounts'
  BY <1>i, <1>1, <1>4, <1>7, <1>10 DEF Mounts
<1>13. Roots'
  <2> SUFFICES ASSUME NEW m \in Objects, Rooted(m)
               PROVE  /\ mnt[mnt[m].vp].fip = NULL /\ mnt[m].vp \in heap'
                      /\ rights[mnt[m].vp] = 0 /\ \A d \in Cpus : ~User(d, mnt[m].vp)'
    BY <1>1, <1>11 DEF Roots
  <2>1. PICK r : r = mnt[m].vp
    OBVIOUS
  <2>2. r \in heap /\ mnt[r].fip = NULL /\ rights[r] = 0 /\ \A d \in Cpus : ~User(d, r)
    BY <1>i, <2>1 DEF Roots
  <2>3. r # o /\ \A d \in Cpus : ~User(d, r)'
    BY <1>6, <1>9, <2>2
  <2> QED
    BY <1>1, <1>4, <2>1, <2>2, <2>3 DEF User
<1>14. Vnodes'
  <2>1. \A v \in Objects : rights'[v] > 0 => v \in heap' /\ mnt'[v].fip = NULL
    BY <1>i, <1>1, <1>4, <1>8 DEF Vnodes
  <2>2. \A v \in Objects : rights'[v] = 2 => ref'[v] > 0
    BY <1>i, <1>1, <1>5, <1>8 DEF Vnodes
  <2>3. \A d \in Cpus : pc'[d] \in {"ref", "free"} => vp'[d] \in Objects
    BY <1>i, <1>2 DEF Vnodes, Others
  <2>4. ASSUME NEW d \in Cpus, NEW v \in Objects, User(d, v)'
        PROVE  /\ v \in heap' /\ mnt'[v].fip = NULL
               /\ rights'[v] < 2
               /\ rights'[v] = 1 => pc'[d] = "ref" /\ old'[d] > 0 /\ ref'[v] > 0
               /\ rights'[v] = 1 \/ pc'[d] = "free" \/ old'[d] <= 0 =>
                    \A e \in Cpus : User(e, v)' => e = d
    <3>1. d # c /\ User(d, v) /\ pc'[d] = pc[d] /\ old'[d] = old[d] /\ v # o
      BY <1>2, <1>7, <1>9, <2>4 DEF Others
    <3>2. \A e \in Cpus : User(e, v)' => User(e, v)
      BY <1>9
    <3> QED
      BY <1>i, <1>1, <1>4, <1>5, <3>1, <3>2 DEF Vnodes
  <2> QED
    BY <2>1, <2>2, <2>3, <2>4 DEF Vnodes
<1>15. Listed'
  BY <1>i, <1>1 DEF Listed
<1> QED
  BY <1>12, <1>13, <1>14, <1>15 DEF ObjectInv

LEMMA NextObjects == Inv /\ [Next]_vars => ObjectInv'
<1> SUFFICES ASSUME Inv, [Next]_vars PROVE ObjectInv'
  OBVIOUS
<1>t. TypeOK /\ Booting /\ Bsp \in Cpus
  BY VfsAssumption DEF Inv
<1>n. {"idle", "tmpfs_init", "mount", "list_init", "flag", "byname", "alloc",
       "unlock", "lookup", "scan", "reread"} = Neutral
  BY DEF Neutral
<1>o. name \in [Cpus -> fs_list \cup Names \cup {""}]
  BY <1>t DEF TypeOK
<1>v. mp \in [Cpus -> Objects \cup {NULL}] /\ vp \in [Cpus -> Objects \cup {NULL}]
  BY <1>t DEF TypeOK
<1>g. \A c \in Cpus : \A from, to : Goto(c, from, to) =>
        pc[c] = from /\ pc'[c] = to /\ \A d \in Cpus \ {c} : pc'[d] = pc[d]
  BY <1>t, GotoOthers
<1>r. \A c \in Cpus : \A from : Return(c, from) =>
        pc[c] = from /\ pc'[c] = "idle" /\ Others(c)
  BY <1>t, ReturnOthers
<1>1. CASE vfs_init
  <2>1. pc[Bsp] = "idle" /\ pc'[Bsp] = "tmpfs_init" /\ Others(Bsp)
    BY <1>1, <1>g, <1>t DEF vfs_init, Others, locals
  <2> QED
    BY <1>1, <1>n, <1>t, <2>1, NeutralStep DEF vfs_init, listVars
<1>2. CASE tmpfs_init
  <2>1. pc[Bsp] = "tmpfs_init" /\ pc'[Bsp] = "mount" /\ Others(Bsp)
    BY <1>2, <1>g, <1>o, <1>t DEF tmpfs_init, Others
  <2> QED
    BY <1>2, <1>n, <1>t, <2>1, NeutralStep DEF tmpfs_init, listVars
<1>3. CASE cpu_start_aps
  <2>1. pc[Bsp] = "idle" /\ pc'[Bsp] = "idle" /\ Others(Bsp)
    BY <1>3, <1>t DEF cpu_start_aps, Others, locals
  <2> QED
    BY <1>3, <1>n, <1>t, <2>1, NeutralStep DEF cpu_start_aps, listVars
<1>4. ASSUME NEW c \in Cpus, CallMount(c) \/ namei(c) PROVE ObjectInv'
  <2>1. pc[c] = "idle" /\ pc'[c] \in {"mount", "lookup"} /\ Others(c)
    BY <1>4, <1>g, <1>o DEF CallMount, namei, Others
  <2> QED
    BY <1>4, <1>n, <2>1, NeutralStep DEF CallMount, namei, listVars
<1>5. ASSUME NEW c \in Cpus, CheckInit(c) \/ SetFlag(c) PROVE ObjectInv'
  <2>1. /\ pc[c] \in {"mount", "flag"} /\ pc'[c] \in {"byname", "list_init"}
        /\ Others(c)
    BY <1>5, <1>g DEF CheckInit, SetFlag, Others, locals
  <2> QED
    BY <1>5, <1>n, <2>1, NeutralStep DEF CheckInit, SetFlag, listVars
<1>6. ASSUME NEW c \in Cpus, ListInit(c) PROVE ObjectInv'
  <2>1. pc[c] = "list_init" /\ pc'[c] = "flag" /\ Others(c)
    BY <1>6, <1>g DEF ListInit, Others, locals
  <2>2. mountlist = <<>> /\ mountlist' = <<>>
    BY <1>6, <1>t, <2>1 DEF Booting, ListInit
  <2> QED
    BY <1>6, <1>n, <2>1, <2>2, NeutralStep DEF ListInit
<1>7. ASSUME NEW c \in Cpus, vfs_byname(c) PROVE ObjectInv'
  <2>1. /\ pc[c] = "byname" /\ pc'[c] \in {"idle", "alloc"} /\ Others(c)
        /\ pc'[c] = "alloc" => name'[c] \in fs_list
    BY <1>7, <1>g, <1>r DEF vfs_byname, Others, locals
  <2> QED
    BY <1>7, <1>n, <2>1, NeutralStep DEF vfs_byname, listVars
<1>8. ASSUME NEW c \in Cpus, spinlock_release(c) PROVE ObjectInv'
  BY <1>8, <1>n, <1>r, NeutralStep DEF spinlock_release
<1>9. ASSUME NEW c \in Cpus, mount_lookup(c) PROVE ObjectInv'
  <2>1. pc[c] = "scan" /\ pc'[c] = "unlock" /\ Others(c)
    BY <1>9, <1>g, <1>v DEF mount_lookup, Others
  <2> QED
    BY <1>9, <1>n, <2>1, NeutralStep DEF mount_lookup, listVars
<1>10. ASSUME NEW c \in Cpus, Reread(c) PROVE ObjectInv'
  BY <1>10, <1>n, <1>r, NeutralStep DEF Reread, listVars
<1>11. CASE UNCHANGED vars
  BY <1>11 DEF vars, listVars, locals, Inv, ObjectInv, Mounts, Pending, Roots, Rooted, User,
               Vnodes, Listed
<1> QED
  BY <1>1, <1>2, <1>3, <1>4, <1>5, <1>6, <1>7, <1>8, <1>9, <1>10, <1>11, AllocMountStep,
     TmpfsMountStep, FreeMountStep, AcquireStep, InsertStep, VnodeInitStep, VnodeReleaseStep,
     DecrementStep, FreeStep DEF Next

LEMMA Invariance == Spec => []Inv
<1>1. Inv /\ [Next]_vars => Inv'
  BY NextTypes, NextBooting, NextLocked, NextObjects DEF Inv, ObjectInv
<1> QED
  BY InitInv, <1>1, PTL DEF Spec

(* Every variable keeps its type: in particular mount() never stores a     *)
(* null name, and a count of calls to come stays between 0 and 2.          *)
THEOREM TypeCorrect == Spec => []TypeOK
<1>1. Inv => TypeOK
  BY DEF Inv
<1> QED
  BY Invariance, <1>1, PTL

(* A mount that mount() reported stays in the list, once, with its root,   *)
(* and mount()'s error paths leave nothing behind, for any number of       *)
(* processors and any order of their calls.                                *)
THEOREM MountsStay == Spec => []MountsKept
<1>1. Inv => MountsKept
  <2> SUFFICES ASSUME Inv PROVE MountsKept
    OBVIOUS
  <2>i. TypeOK /\ Mounts /\ Roots /\ Listed
    BY DEF Inv
  <2>1. ASSUME NEW m \in mounted
        PROVE  Cardinality({i \in DOMAIN mountlist : mountlist[i] = m}) = 1
    <3>1. PICK i \in DOMAIN mountlist : mountlist[i] = m
      BY <2>i DEF Listed
    <3>2. {j \in DOMAIN mountlist : mountlist[j] = m} = {i}
      BY <2>i, <3>1 DEF Listed
    <3>3. Cardinality({i}) = 1
      BY FS_Singleton
    <3> QED
      BY <3>2, <3>3
  <2>2. \A m \in mounted : m \in heap /\ mnt[m].vp \in heap
    BY <2>i DEF Mounts, Roots, Rooted, TypeOK
  <2>3. (\A c \in Cpus : pc[c] = "idle") => {o \in heap : mnt[o].fip # NULL} = mounted
    <3>1. heap \subseteq Objects
      BY <2>i DEF TypeOK
    <3> QED
      BY <2>i, <3>1 DEF Mounts, Pending
  <2> QED
    BY <2>1, <2>2, <2>3 DEF MountsKept
<1> QED
  BY Invariance, <1>1, PTL

(* A vnode is freed in a call's hands only before its last load.           *)
Late == /\ lost \in [Cpus -> BOOLEAN]
        /\ \A c \in Cpus : lost[c] => pc[c] = "reread"

(* Only Free takes a vnode from another call, and that one is rereading.   *)
LEMMA NextLate == Inv /\ Late /\ [Next]_vars => Late'
<1> SUFFICES ASSUME Inv, Late, [Next]_vars PROVE Late'
  OBVIOUS
<1>t. /\ pc \in [Cpus -> Locations] /\ lost \in [Cpus -> BOOLEAN] /\ Bsp \in Cpus
      /\ \A c \in Cpus : lost[c] => pc[c] = "reread"
  BY VfsAssumption DEF Inv, TypeOK, Late
<1>k. ASSUME NEW c \in Cpus, lost' = lost, \A d \in Cpus \ {c} : pc'[d] = pc[d], pc[c] # "reread"
      PROVE  Late'
  BY <1>k, <1>t DEF Late
<1>g. \A c \in Cpus : \A from, to : Goto(c, from, to) =>
        pc[c] = from /\ pc'[c] = to /\ \A d \in Cpus \ {c} : pc'[d] = pc[d]
  BY GotoOthers DEF Inv
<1>r. \A c \in Cpus : \A from : Return(c, from) => Goto(c, from, "idle")
  BY DEF Return
<1>1. CASE vfs_init \/ tmpfs_init \/ cpu_start_aps
  BY <1>1, <1>g, <1>k, <1>t DEF vfs_init, tmpfs_init, cpu_start_aps
<1>2. ASSUME NEW c \in Cpus, CallMount(c) \/ CheckInit(c) \/ ListInit(c) \/ SetFlag(c) \/ namei(c)
      PROVE  Late'
  BY <1>2, <1>g, <1>k DEF CallMount, CheckInit, ListInit, SetFlag, namei
<1>3. ASSUME NEW c \in Cpus, vfs_byname(c) \/ AllocMount(c) \/ tmpfs_mount(c) \/ FreeMount(c)
      PROVE  Late'
  <2>1. lost' = lost
    BY <1>3 DEF vfs_byname, AllocMount, tmpfs_mount, FreeMount
  <2>2. \E from \in {"byname", "alloc", "fs_mount", "kfree"} : \E to : Goto(c, from, to)
    BY <1>3, <1>r DEF vfs_byname, AllocMount, tmpfs_mount, FreeMount
  <2> QED
    BY <1>g, <1>k, <2>1, <2>2
<1>4. ASSUME NEW c \in Cpus,
             spinlock_acquire(c) \/ spinlock_release(c) \/ Insert(c) \/ mount_lookup(c)
      PROVE  Late'
  BY <1>4, <1>g, <1>k, <1>r DEF spinlock_acquire, spinlock_release, Insert, mount_lookup
<1>5. ASSUME NEW c \in Cpus, vnode_init(c) \/ vnode_release(c) \/ Decrement(c) PROVE Late'
  BY <1>5, <1>g, <1>k DEF vnode_init, vnode_release, Decrement
<1>6. ASSUME NEW c \in Cpus, Reread(c) PROVE Late'
  <2>1. /\ \A d \in Cpus \ {c} : pc'[d] = pc[d]
        /\ lost' = [lost EXCEPT ![c] = FALSE]
    BY <1>6, <1>g, <1>r DEF Reread
  <2> QED
    BY <1>t, <2>1 DEF Late
<1>7. ASSUME NEW c \in Cpus, Free(c) PROVE Late'
  <2>1. /\ pc[c] = "free" /\ \A d \in Cpus \ {c} : pc'[d] = pc[d]
        /\ lost' = [d \in Cpus |-> lost[d] \/ (d # c /\ Releasing(d, vp[c]))]
    BY <1>7, <1>g, <1>r DEF Free
  <2>2. User(c, vp[c]) /\ vp[c] \in Objects
    BY <2>1 DEF User, Inv, Vnodes
  <2>3. \A d \in Cpus : User(d, vp[c]) => d = c
    BY <2>1, <2>2 DEF Inv, Vnodes
  <2>4. \A d \in Cpus : d # c /\ Releasing(d, vp[c]) => pc[d] = "reread"
    BY <2>3 DEF Releasing, User
  <2>5. lost' \in [Cpus -> BOOLEAN]
    BY <1>t, <2>1, Zenon
  <2>6. \A d \in Cpus : lost'[d] => lost[d] \/ (d # c /\ Releasing(d, vp[c]))
    BY <2>1, Zenon
  <2>7. \A d \in Cpus : lost'[d] => d # c /\ pc[d] = "reread"
    BY <1>t, <2>1, <2>4, <2>6
  <2> QED
    BY <2>1, <2>5, <2>7 DEF Late
<1>8. CASE UNCHANGED vars
  BY <1>8, <1>t DEF vars, Late
<1> QED
  BY <1>1, <1>2, <1>3, <1>4, <1>5, <1>6, <1>7, <1>8 DEF Next

(* vnode_release stores to and frees only vnodes that are allocated, never *)
(* one twice and never the root of a mount, although it loads and stores   *)
(* the count without a lock: whether a vnode is released once or twice,    *)
(* the call that frees is alone with it but for calls that have only the   *)
(* load of their return statement to do.                                   *)
THEOREM ReleasesSafe == Spec => []ReleaseSafe
<1>1. Init => Late
  BY DEF Init, Late
<1>2. Inv /\ Late => ReleaseSafe
  BY DEF Inv, Vnodes, User, Mounts, Late, ReleaseSafe
<1> QED
  BY Invariance, NextLate, <1>1, <1>2, PTL DEF Spec

(* Inside mount() or mount_lookup with the lock of the mount list.         *)
InList(c) == pc[c] \in {"insert", "scan", "unlock"}

ListMutex == \A c, d \in Cpus : InList(c) /\ InList(d) => c = d

(* The list is changed and scanned by one processor at a time, although    *)
(* mountlist_init initialises its lock from within mount().                *)
THEOREM ListExclusive == Spec => []ListMutex
<1>1. Inv => ListMutex
  BY DEF Inv, Locked, ListMutex, InList
<1> QED
  BY Invariance, <1>1, PTL
-----------------------------------------------------------------------------
(* A step leaves the list or appends to it, and keeps the names in it.     *)
LEMMA NextList ==
  ASSUME Inv, [Next]_vars, mountlist # <<>>
  PROVE  /\ mountlist' = mountlist \/ \E x \in Objects : mountlist' = Append(mountlist, x)
         /\ \A m \in mounted : mnt'[m].fip = mnt[m].fip
<1>i. TypeOK /\ Booting /\ Mounts
  BY DEF Inv
<1>m. mounted \subseteq Objects /\ mnt \in [Objects -> Mount]
  BY <1>i DEF TypeOK
<1>1. CASE vfs_init \/ tmpfs_init \/ cpu_start_aps
  BY <1>1 DEF vfs_init, tmpfs_init, cpu_start_aps, listVars
<1>2. ASSUME NEW c \in Cpus,
             CallMount(c) \/ CheckInit(c) \/ SetFlag(c) \/ vfs_byname(c) \/ spinlock_acquire(c)
      PROVE  mountlist' = mountlist /\ mnt' = mnt
  BY <1>2 DEF CallMount, CheckInit, SetFlag, vfs_byname, spinlock_acquire, listVars
<1>3. ASSUME NEW c \in Cpus,
             \/ spinlock_release(c) \/ namei(c) \/ mount_lookup(c) \/ vnode_init(c)
             \/ vnode_release(c) \/ Decrement(c) \/ Reread(c) \/ Free(c)
      PROVE  mountlist' = mountlist /\ mnt' = mnt
  BY <1>3 DEF spinlock_release, namei, mount_lookup, vnode_init, vnode_release, Decrement, Reread,
              Free, listVars
<1>4. ASSUME NEW c \in Cpus, ListInit(c) PROVE FALSE
  BY <1>4, <1>i DEF Booting, ListInit, Goto
<1>5. ASSUME NEW c \in Cpus, AllocMount(c)
      PROVE  mountlist' = mountlist /\ \A m \in mounted : mnt'[m].fip = mnt[m].fip
  <2>1. mnt' = mnt \/ \E o \in Objects \ heap : mnt' = [mnt EXCEPT ![o].fip = name[c]]
    BY <1>5 DEF AllocMount
  <2>2. mounted \subseteq heap
    BY <1>i DEF Mounts
  <2>3. mountlist' = mountlist
    BY <1>5 DEF AllocMount, listVars
  <2> QED
    BY <1>m, <2>1, <2>2, <2>3
<1>6. ASSUME NEW c \in Cpus, tmpfs_mount(c)
      PROVE  mountlist' = mountlist /\ \A m \in mounted : mnt'[m].fip = mnt[m].fip
  <2>1. mnt' = mnt \/ \E o : mnt' = [mnt EXCEPT ![mp[c]].vp = o]
    BY <1>6 DEF tmpfs_mount
  <2>2. mountlist' = mountlist
    BY <1>6 DEF tmpfs_mount, listVars
  <2>3. \A m \in Objects : mnt'[m].fip = mnt[m].fip
    <3>1. CASE mnt' = mnt
      BY <3>1
    <3>2. ASSUME NEW o, mnt' = [mnt EXCEPT ![mp[c]].vp = o], NEW m \in Objects
          PROVE  mnt'[m].fip = mnt[m].fip
      <4>1. CASE m = mp[c]
        BY <1>m, <3>2, <4>1 DEF Mount
      <4>2. CASE m # mp[c]
        BY <1>m, <3>2, <4>2
      <4> QED
        BY <4>1, <4>2
    <3> QED
      BY <2>1, <3>1, <3>2
  <2> QED
    BY <1>m, <2>2, <2>3
<1>7. ASSUME NEW c \in Cpus, FreeMount(c)
      PROVE  mountlist' = mountlist /\ \A m \in mounted : mnt'[m].fip = mnt[m].fip
  <2>1. mnt' = [mnt EXCEPT ![mp[c]].fip = NULL] /\ mp[c] \notin mounted
    BY <1>7, <1>i DEF FreeMount, Return, Goto, Mounts, Pending
  <2>2. mountlist' = mountlist
    BY <1>7 DEF FreeMount, listVars
  <2> QED
    BY <1>m, <2>1, <2>2
<1>8. ASSUME NEW c \in Cpus, Insert(c)
      PROVE  mnt' = mnt /\ \E x \in Objects : mountlist' = Append(mountlist, x)
  <2>1. mp[c] \in Objects
    BY <1>8, <1>i DEF Insert, Goto, Mounts, Pending, TypeOK
  <2> QED
    BY <1>8, <2>1 DEF Insert
<1>9. CASE UNCHANGED vars
  BY <1>9 DEF vars, listVars
<1> QED
  BY <1>1, <1>2, <1>3, <1>4, <1>5, <1>6, <1>7, <1>8, <1>9 DEF Next

(* The first of a set of naturals, as mount_lookup's scan finds it.        *)
First(T) == CHOOSE i \in T : \A j \in T : i <= j

LEMMA FirstFacts ==
  ASSUME NEW T, T \subseteq Nat, T # {}
  PROVE  First(T) \in T /\ \A j \in T : First(T) <= j
<1>1. \E i \in T : \A j \in T : i <= j
  BY FirstNat
<1> QED
  BY <1>1 DEF First

(* What mount_lookup found for a name it finds after every later step.     *)
THEOREM LookupsStable == Spec => LookupStable
<1>1. ASSUME Inv, [Next]_vars, NEW n \in Names, Lookup(n) # NULL PROVE Lookup(n)' = Lookup(n)
  <2>1. PICK H : H = {i \in DOMAIN mountlist : mnt[mountlist[i]].fip = n}
    OBVIOUS
  <2>2. PICK G : G = {i \in DOMAIN mountlist' : mnt'[mountlist'[i]].fip = n}
    OBVIOUS
  <2>3. mountlist \in Seq(Objects)
    BY <1>1 DEF Inv, TypeOK
  <2>4. Len(mountlist) \in Nat /\ DOMAIN mountlist = 1 .. Len(mountlist)
    BY <2>3
  <2>5. H # {} /\ H \subseteq 1 .. Len(mountlist) /\ Lookup(n) = mountlist[First(H)]
    BY <1>1, <2>1, <2>4 DEF Lookup, First
  <2>6. mountlist # <<>>
    <3>1. 1 .. Len(mountlist) # {}
      BY <2>5
    <3> QED
      BY <2>4, <3>1
  <2>7. /\ mountlist' = mountlist \/ \E x \in Objects : mountlist' = Append(mountlist, x)
        /\ \A m \in mounted : mnt'[m].fip = mnt[m].fip
    BY <1>1, <2>6, NextList
  <2>8. \A i \in DOMAIN mountlist : mountlist[i] \in mounted
    BY <1>1 DEF Inv, Listed
  <2>9. /\ DOMAIN mountlist' = 1 .. Len(mountlist) \/ DOMAIN mountlist' = 1 .. Len(mountlist) + 1
        /\ \A i \in 1 .. Len(mountlist) : mountlist'[i] = mountlist[i]
    BY <2>3, <2>4, <2>7, AppendFacts
  <2>10. H \subseteq G /\ \A i \in G : i \in H \/ i = Len(mountlist) + 1
    BY <2>1, <2>2, <2>4, <2>7, <2>8, <2>9
  <2>11. G \subseteq Nat /\ H \subseteq Nat
    BY <2>4, <2>5, <2>10
  <2>12. /\ First(H) \in H /\ \A j \in H : First(H) <= j
         /\ First(G) \in G /\ \A j \in G : First(G) <= j
    BY <2>5, <2>10, <2>11, FirstFacts
  <2>13. First(G) = First(H)
    <3>h. First(H) \in 1 .. Len(mountlist) /\ First(G) \in Nat
      BY <2>5, <2>11, <2>12
    <3>1. First(H) \in Nat /\ First(H) <= Len(mountlist) /\ First(G) \in Nat
      BY <2>4, <3>h
    <3>2. First(G) <= First(H)
      BY <2>10, <2>12
    <3>3. First(G) \in H
      BY <2>4, <2>10, <2>12, <3>1, <3>2
    <3>4. First(H) <= First(G)
      BY <2>12, <3>3
    <3> QED
      BY <3>1, <3>2, <3>4
  <2>14. Lookup(n)' = mountlist'[First(G)]
    BY <2>2, <2>5, <2>10 DEF Lookup, First
  <2> QED
    BY <2>5, <2>9, <2>12, <2>13, <2>14
<1>2. Inv /\ [Next]_vars => [\A n \in Names : Lookup(n) # NULL => Lookup(n)' = Lookup(n)]_vars
  BY <1>1
<1> QED
  BY Invariance, <1>2, PTL DEF Spec, LookupStable
=============================================================================
