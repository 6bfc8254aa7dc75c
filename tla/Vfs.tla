--------------------------------- MODULE Vfs --------------------------------
(***************************************************************************)
(* The virtual file system: the mount list and mount() with its error      *)
(* paths (sys/kern/vfs_mount.c), the file system table (vfs_init.c), tmpfs *)
(* (sys/fs/tmpfs.c), vnodes and their reference counts (vfs_subr.c) and    *)
(* namei (kern_namei.c), called by several processors.  kmain runs         *)
(* vfs_init, which mounts tmpfs, before it starts the other processors.    *)
(*                                                                         *)
(* Mounts and vnodes are heap objects; an object is its address.  Names    *)
(* are values, "" is none, and a path is its first name.                   *)
(***************************************************************************)
EXTENDS Integers, Sequences, FiniteSets

CONSTANTS Cpus, Bsp,    \* processors, the boot processor
          Objects,      \* what kalloc can hand out
          NULL, None,
          fs_list,      \* names of the file systems
          Names,        \* names callers use
          Releases      \* how often a vnode may be released

ASSUME VfsAssumption ==
  /\ Bsp \in Cpus /\ None \notin Cpus
  /\ NULL \notin Objects \cup fs_list /\ "" \notin fs_list \cup Names
  /\ Releases \subseteq {1, 2}

VARIABLES stage,        \* kmain: "early", "vfs_init", "up"
          heap,         \* objects that are allocated
          is_mountlist_init, mountlist, mount_lock,
          mnt,          \* contents of a struct mount: fip and vp
          ref,          \* ref[v]: reference count of vnode v
          rights,       \* rights[v]: calls of vnode_release still to come
          pc, name, mp, vp, old,    \* per processor: location and locals
          mounted,      \* mounts for which mount() returned 0
          lost          \* per processor: the vnode in its hands was freed

listVars == <<is_mountlist_init, mountlist, mount_lock>>
locals == <<name, mp, vp, old>>
vars == <<stage, heap, listVars, mnt, ref, rights, pc, locals, mounted, lost>>

Init ==
  /\ stage = "early" /\ heap = {}
  /\ is_mountlist_init = FALSE /\ mountlist = <<>> /\ mount_lock = None
  /\ mnt = [o \in Objects |-> [fip |-> NULL, vp |-> NULL]]
  /\ ref = [o \in Objects |-> 0] /\ rights = [o \in Objects |-> 0]
  /\ pc = [c \in Cpus |-> "idle"] /\ name = [c \in Cpus |-> ""]
  /\ mp = [c \in Cpus |-> NULL] /\ vp = [c \in Cpus |-> NULL]
  /\ old = [c \in Cpus |-> 0] /\ mounted = {} /\ lost = [c \in Cpus |-> FALSE]

Goto(c, from, to) == pc[c] = from /\ pc' = [pc EXCEPT ![c] = to]

(* A call returns: its locals are gone.                                    *)
Return(c, from) ==
  /\ Goto(c, from, "idle")
  /\ name' = [name EXCEPT ![c] = ""] /\ mp' = [mp EXCEPT ![c] = NULL]
  /\ vp' = [vp EXCEPT ![c] = NULL] /\ old' = [old EXCEPT ![c] = 0]

(* MayCall of a kernel whose other processors do not wait for vfs_init.    *)
MayCall_Always(c) == stage # "early"

(* Who may call: the boot processor inside vfs_init, later everybody.      *)
MayCall(c) == stage = "up" \/ (stage = "vfs_init" /\ c = Bsp)
-----------------------------------------------------------------------------
(* vfs_init initialises the file systems, of which there is tmpfs; an      *)
(* error is only traced.                                                   *)
vfs_init ==
  /\ stage = "early" /\ stage' = "vfs_init"
  /\ Goto(Bsp, "idle", "tmpfs_init")
  /\ UNCHANGED <<heap, listVars, mnt, ref, rights, locals, mounted, lost>>

(* tmpfs mounts itself.                                                    *)
tmpfs_init ==
  /\ Goto(Bsp, "tmpfs_init", "mount")
  /\ \E n \in fs_list : name' = [name EXCEPT ![Bsp] = n]
  /\ UNCHANGED <<stage, heap, listVars, mnt, ref, rights, mp, vp, old, mounted, lost>>

cpu_start_aps ==
  /\ stage = "vfs_init" /\ pc[Bsp] = "idle" /\ stage' = "up"
  /\ UNCHANGED <<heap, listVars, mnt, ref, rights, pc, locals, mounted, lost>>

CallMount(c) ==
  /\ MayCall(c) /\ Goto(c, "idle", "mount")
  /\ \E n \in Names : name' = [name EXCEPT ![c] = n]
  /\ UNCHANGED <<stage, heap, listVars, mnt, ref, rights, mp, vp, old, mounted, lost>>

CheckInit(c) ==
  /\ Goto(c, "mount", IF is_mountlist_init THEN "byname" ELSE "list_init")
  /\ UNCHANGED <<stage, heap, listVars, mnt, ref, rights, locals, mounted, lost>>

(* TAILQ_INIT and spinlock_init, then the flag.                            *)
ListInit(c) ==
  /\ Goto(c, "list_init", "flag")
  /\ mountlist' = <<>> /\ mount_lock' = None
  /\ UNCHANGED <<stage, heap, is_mountlist_init, mnt, ref, rights, locals, mounted, lost>>

SetFlag(c) ==
  /\ Goto(c, "flag", "byname")
  /\ is_mountlist_init' = TRUE
  /\ UNCHANGED <<stage, heap, mountlist, mount_lock, mnt, ref, rights, locals, mounted, lost>>

vfs_byname(c) ==
  /\ \/ name[c] \in fs_list /\ Goto(c, "byname", "alloc") /\ UNCHANGED locals
     \/ name[c] \notin fs_list /\ Return(c, "byname")
  /\ UNCHANGED <<stage, heap, listVars, mnt, ref, rights, mounted, lost>>

AllocMount(c) ==
  /\ \/ \E o \in Objects \ heap :
          /\ Goto(c, "alloc", "fs_mount")
          /\ heap' = heap \cup {o}
          /\ mp' = [mp EXCEPT ![c] = o]
          /\ mnt' = [mnt EXCEPT ![o].fip = name[c]]
          /\ UNCHANGED <<name, vp, old>>
     \/ heap = Objects /\ Return(c, "alloc") /\ UNCHANGED <<heap, mnt>>
  /\ UNCHANGED <<stage, listVars, ref, rights, mounted, lost>>

(* A directory vnode for the root, if vnode_init has the memory.           *)
tmpfs_mount(c) ==
  /\ \/ \E o \in Objects \ heap :
          /\ Goto(c, "fs_mount", "lock")
          /\ heap' = heap \cup {o}
          /\ ref' = [ref EXCEPT ![o] = 1]
          /\ mnt' = [mnt EXCEPT ![mp[c]].vp = o]
     \/ heap = Objects /\ Goto(c, "fs_mount", "kfree") /\ UNCHANGED <<heap, mnt, ref>>
  /\ UNCHANGED <<stage, listVars, rights, locals, mounted, lost>>

(* mount() returns the error.                                              *)
FreeMount(c) ==
  /\ Return(c, "kfree")
  /\ heap' = heap \ {mp[c]}
  /\ mnt' = [mnt EXCEPT ![mp[c]].fip = NULL]
  /\ UNCHANGED <<stage, listVars, ref, rights, mounted, lost>>

spinlock_acquire(c) ==
  /\ mount_lock = None /\ mount_lock' = c
  /\ Goto(c, "lock", "insert") \/ Goto(c, "lookup", "scan")
  /\ UNCHANGED <<stage, heap, is_mountlist_init, mountlist, mnt, ref, rights, locals, mounted, lost>>

(* Insert at the head of the list.                                         *)
Insert_Head(c) ==
  /\ Goto(c, "insert", "unlock")
  /\ mountlist' = <<mp[c]>> \o mountlist
  /\ mounted' = mounted \cup {mp[c]}
  /\ UNCHANGED <<stage, heap, is_mountlist_init, mount_lock, mnt, ref, rights, locals, lost>>

(* TAILQ_INSERT_TAIL; mount() is going to return 0.                        *)
Insert(c) ==
  /\ Goto(c, "insert", "unlock")
  /\ mountlist' = Append(mountlist, mp[c])
  /\ mounted' = mounted \cup {mp[c]}
  /\ UNCHANGED <<stage, heap, is_mountlist_init, mount_lock, mnt, ref, rights, locals, lost>>

spinlock_release(c) ==
  /\ Return(c, "unlock") /\ mount_lock' = None
  /\ UNCHANGED <<stage, heap, is_mountlist_init, mountlist, mnt, ref, rights, mounted, lost>>
-----------------------------------------------------------------------------
(* The first mount of the file system called n.                            *)
Lookup(n) ==
  LET hits == {i \in DOMAIN mountlist : mnt[mountlist[i]].fip = n}
  IN  IF hits = {} THEN NULL ELSE mountlist[CHOOSE i \in hits : \A j \in hits : i <= j]

(* namei looks the first name of the path up in the mount list and ignores *)
(* the others; a path without a name succeeds with no vnode.  A name that  *)
(* fills the buffer is cut there and left without its zero: one that no    *)
(* file system has, which strcmp notices before it gets to the end.        *)
namei(c) ==
  /\ MayCall(c)
  /\ \E n \in Names : Goto(c, "idle", "lookup") /\ name' = [name EXCEPT ![c] = n]
  /\ UNCHANGED <<stage, heap, listVars, mnt, ref, rights, mp, vp, old, mounted, lost>>

mount_lookup(c) ==
  /\ Goto(c, "scan", "unlock")
  /\ mp' = [mp EXCEPT ![c] = Lookup(name[c])]
  /\ vp' = [vp EXCEPT ![c] = IF Lookup(name[c]) = NULL THEN NULL ELSE mnt[Lookup(name[c])].vp]
  /\ UNCHANGED <<stage, heap, listVars, mnt, ref, rights, name, old, mounted, lost>>

(* A vnode of the caller's own, with one reference.  It is released once,  *)
(* or twice: the call that frees it is the one that finds the count at 0.  *)
vnode_init(c) ==
  /\ MayCall(c) /\ pc[c] = "idle"
  /\ \E o \in Objects \ heap : /\ heap' = heap \cup {o}
                               /\ ref' = [ref EXCEPT ![o] = 1]
                               /\ \E k \in Releases : rights' = [rights EXCEPT ![o] = k]
  /\ UNCHANGED <<stage, listVars, mnt, pc, locals, mounted, lost>>

(* The load of vp->ref--.                                                  *)
vnode_release(c) ==
  /\ MayCall(c)
  /\ \E o \in Objects : /\ rights[o] > 0
                        /\ rights' = [rights EXCEPT ![o] = @ - 1]
                        /\ vp' = [vp EXCEPT ![c] = o]
                        /\ old' = [old EXCEPT ![c] = ref[o]]
  /\ Goto(c, "idle", "ref")
  /\ UNCHANGED <<stage, heap, listVars, mnt, ref, name, mp, mounted, lost>>

(* Decrement that frees with the last reference.                           *)
Decrement_Last(c) ==
  /\ pc[c] = "ref" /\ ref' = [ref EXCEPT ![vp[c]] = old[c] - 1]
  /\ \/ old[c] > 1 /\ Goto(c, "ref", "reread")
     \/ old[c] <= 1 /\ Goto(c, "ref", "free")
  /\ UNCHANGED <<stage, heap, listVars, mnt, rights, locals, mounted, lost>>

(* Its store, and the test of what was loaded.                             *)
Decrement(c) ==
  /\ pc[c] = "ref" /\ ref' = [ref EXCEPT ![vp[c]] = old[c] - 1]
  /\ \/ old[c] > 0 /\ Goto(c, "ref", "reread")
     \/ old[c] <= 0 /\ Goto(c, "ref", "free")
  /\ UNCHANGED <<stage, heap, listVars, mnt, rights, locals, mounted, lost>>

(* return vp->ref: the count is loaded again.                              *)
Reread(c) ==
  /\ Return(c, "reread") /\ lost' = [lost EXCEPT ![c] = FALSE]
  /\ UNCHANGED <<stage, heap, listVars, mnt, ref, rights, mounted>>

(* Inside vnode_release of v.                                              *)
Releasing(c, v) == pc[c] \in {"ref", "reread", "free"} /\ vp[c] = v

Free(c) ==
  /\ Return(c, "free")
  /\ heap' = heap \ {vp[c]}
  /\ ref' = [ref EXCEPT ![vp[c]] = 0]
  /\ lost' = [d \in Cpus |-> lost[d] \/ (d # c /\ Releasing(d, vp[c]))]
  /\ UNCHANGED <<stage, listVars, mnt, rights, mounted>>

Next ==
  \/ vfs_init \/ tmpfs_init \/ cpu_start_aps
  \/ \E c \in Cpus :
       \/ CallMount(c) \/ CheckInit(c) \/ ListInit(c) \/ SetFlag(c) \/ vfs_byname(c)
       \/ AllocMount(c) \/ tmpfs_mount(c) \/ FreeMount(c) \/ spinlock_acquire(c) \/ Insert(c)
       \/ spinlock_release(c) \/ namei(c) \/ mount_lookup(c)
       \/ vnode_init(c) \/ vnode_release(c) \/ Decrement(c) \/ Reread(c) \/ Free(c)

Spec == Init /\ [][Next]_vars
-----------------------------------------------------------------------------
(* MountsKept: a mount that mount() reported stays in the mount list,      *)
(* once, with its root vnode - no later call of mountlist_init drops it -  *)
(* and mount()'s error paths give back what they took: with no call in     *)
(* progress every struct mount on the heap is one that was reported.       *)
MountsKept ==
  /\ \A m \in mounted :
       /\ Cardinality({i \in DOMAIN mountlist : mountlist[i] = m}) = 1
       /\ {m, mnt[m].vp} \subseteq heap
  /\ (\A c \in Cpus : pc[c] = "idle") => {o \in heap : mnt[o].fip # NULL} = mounted

(* LookupStable: whatever mount_lookup found for a name it finds ever      *)
(* after, however many mounts of that file system follow                   *)
(* (TAILQ_INSERT_TAIL).                                                    *)
LookupStable ==
  [][\A n \in Names : Lookup(n) # NULL => Lookup(n)' = Lookup(n)]_vars

(* ReleaseSafe: although vnode_release loads and stores the count without  *)
(* a lock, no two of its calls free one vnode, none frees the root of a    *)
(* mount, and one that may still store to a vnode or free it holds one     *)
(* that is allocated: what another call has freed it touches at most in    *)
(* the load of its return statement.                                       *)
ReleaseSafe ==
  \A c \in Cpus :
    /\ pc[c] \in {"ref", "free"} => vp[c] \in heap /\ vp[c] \notin mounted
    /\ lost[c] => pc[c] = "reread"

(* NoUseAfterFree: a call that does not release the vnode returns its      *)
(* count, and so has it.  Violated: the count is loaded again for the      *)
(* return, and the call that found it at 0 may have freed the vnode.       *)
NoUseAfterFree == \A c \in Cpus : ~lost[c]

(* Reclaimed: a vnode without references is released from memory.          *)
(* Violated: the call that gives back the last reference keeps it.         *)
Reclaimed ==
  (\A c \in Cpus : pc[c] = "idle") => \A o \in heap \ mounted : ref[o] > 0
=============================================================================
