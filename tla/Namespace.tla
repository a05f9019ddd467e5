------------------------------ MODULE Namespace ------------------------------
(***************************************************************************)
(* The tree of names, kernel/src/fs/ext2.c: ext2_mkdir, file creation,     *)
(* ext2_unlink and ext2_rmdir, as the sequences of disk writes they are.   *)
(* A call returns false at the first block it cannot read or write, or for *)
(* want of an inode or a block; nothing that was written before is undone. *)
(* A crash at the same place leaves the same disk.  Directory contents are *)
(* sets of entries here; module Directory has their layout.                *)
(***************************************************************************)
EXTENDS Integers, FiniteSetsExt

CONSTANTS Names, NInodes

ASSUME NamespaceConstants == NInodes \in Nat \ {0}

Inodes == 1 .. NInodes
Root   == 1

VARIABLES
  entries,   \* [dir, name, ino]: the directory entries on disk
  used,      \* inodes that are marked in the bitmap
  kind,      \* i_mode of the inodes on disk, "none" when cleared
  links,     \* i_links_count
  dotdot,    \* the directory that ".." leads to, 0 without a first block
  call,      \* the call in progress: what it does and how far it is
  cut,       \* history: a call has ended before its last write
  blind      \* history: a scan has ended at a block it could not read

diskVars == <<entries, used, kind, links, dotdot>>
vars == <<diskVars, call, cut, blind>>

-----------------------------------------------------------------------------
\* i_links_count has 16 bits.
LinkLimit == 256 * 256

Idle == [op |-> "idle", at |-> "idle", dir |-> Root, name |-> 0, ino |-> 0]

Entry(d, n) == {e \in entries : e.dir = d /\ e.name = n}

\* Directories that a path leads to.
Reached ==
  {d \in Inodes : /\ kind[d] = "dir"
                  /\ d = Root \/ \E e \in entries : e.ino = d}

At(step) == call.at = step
Go(step) == call' = [call EXCEPT !.at = step]
Return   == call' = Idle

\* A call that cannot go on leaves the disk as it is.
Fail ==
  /\ call # Idle /\ Return /\ cut' = TRUE
  /\ UNCHANGED <<diskVars, blind>>

\* A scan that needs found to be FALSE to go on: a block that it cannot read
\* hides what is there.
Unseen(found) == \/ ~ found /\ UNCHANGED blind
                 \/ found /\ blind' = TRUE

-----------------------------------------------------------------------------
(* create_file, for regular files and for directories *)

\* The name must not be found.
Create(op, d, n) ==
  /\ call = Idle /\ d \in Reached
  /\ Unseen(Entry(d, n) # {})
  /\ call' = [op |-> op, at |-> "alloc", dir |-> d, name |-> n, ino |-> 0]
  /\ UNCHANGED <<diskVars, cut>>

\* The bits that are clear in the inode bitmap.
FreeInodes == Inodes \ used

\* The first free inode, which is cleared on disk.
ext2_allocate_inode ==
  /\ At("alloc")
  /\ \/ /\ FreeInodes # {}
        /\ LET i == Min(FreeInodes) IN
           /\ used' = used \cup {i}
           /\ kind' = [kind EXCEPT ![i] = "none"]
           /\ links' = [links EXCEPT ![i] = 0]
           /\ dotdot' = [dotdot EXCEPT ![i] = 0]
           /\ call' = [call EXCEPT !.at = "inode", !.ino = i]
     \/ FreeInodes = {} /\ Return /\ UNCHANGED <<used, kind, links, dotdot>>
  /\ UNCHANGED entries

WriteInode_Later ==
  /\ At("inode") /\ Go("entry")
  /\ UNCHANGED <<entries, used, dotdot, kind, links>>

WriteInode ==
  /\ At("inode") /\ Go("entry")
  /\ kind' = [kind EXCEPT ![call.ino] = IF call.op = "mkdir" THEN "dir"
                                        ELSE "reg"]
  /\ links' = [links EXCEPT ![call.ino] = 1]
  /\ UNCHANGED <<entries, used, dotdot>>

AddEntry ==
  /\ At("entry")
  /\ entries' = entries \cup
       {[dir |-> call.dir, name |-> call.name, ino |-> call.ino]}
  /\ IF call.op = "mkdir"
     THEN \E e \in entries' :     \* ext2_mkdir looks the path up again
            /\ e.dir = call.dir /\ e.name = call.name
            /\ call' = [call EXCEPT !.at = "dots", !.ino = e.ino]
     ELSE Return
  /\ UNCHANGED <<used, kind, links, dotdot>>

(* ext2_mkdir: the first block, the inode that refers to it, the parent *)

Dots ==
  /\ At("dots") /\ Go("parent")
  /\ dotdot' = [dotdot EXCEPT ![call.ino] = call.dir]
  /\ links' = [links EXCEPT ![call.ino] = 2]
  /\ UNCHANGED <<entries, used, kind>>

ParentLink ==
  /\ At("parent") /\ Return
  /\ links' = [links EXCEPT ![call.dir] = (@ + 1) % LinkLimit]
  /\ UNCHANGED <<entries, used, kind, dotdot>>

-----------------------------------------------------------------------------
(* ext2_unlink and ext2_rmdir *)

ext2_unlink(d, e) ==
  /\ call = Idle /\ d \in Reached /\ e \in entries /\ e.dir = d
  /\ kind[e.ino] # "dir"
  /\ call' = [op |-> "unlink", at |-> "remove", dir |-> d, name |-> e.name,
              ino |-> e.ino]
  /\ UNCHANGED <<diskVars, cut, blind>>

Empty_NoFiles(d) == \A e \in entries : e.dir = d => kind[e.ino] = "dir"

Empty(d) == \A e \in entries : e.dir # d

ext2_rmdir(d, e) ==
  /\ call = Idle /\ d \in Reached /\ e \in entries /\ e.dir = d
  /\ kind[e.ino] = "dir"
  /\ Unseen(~ Empty(e.ino))
  /\ call' = [op |-> "rmdir", at |-> "remove", dir |-> d, name |-> e.name,
              ino |-> e.ino]
  /\ UNCHANGED <<diskVars, cut>>

RemoveEntry ==
  /\ At("remove")
  /\ entries' = entries \
       {[dir |-> call.dir, name |-> call.name, ino |-> call.ino]}
  /\ Go(IF call.op = "rmdir" THEN "unparent" ELSE "drop")
  /\ UNCHANGED <<used, kind, links, dotdot>>

ParentUnlink_Skip ==
  /\ At("unparent") /\ Go("drop")
  /\ UNCHANGED <<entries, used, kind, dotdot, links>>

ParentUnlink ==
  /\ At("unparent") /\ Go("drop")
  /\ links' = [links EXCEPT ![call.dir] = (@ - 1) % LinkLimit]
  /\ UNCHANGED <<entries, used, kind, dotdot>>

\* The last write: one link less, or none.  Blocks and inode are not freed.
DropInode ==
  /\ At("drop") /\ Return
  /\ links' = [links EXCEPT ![call.ino] =
                 IF call.op = "rmdir" THEN 0 ELSE (@ - 1) % LinkLimit]
  /\ UNCHANGED <<entries, used, kind, dotdot>>

-----------------------------------------------------------------------------
\* A fresh file system: the root directory, with "." and ".." of its own.
Init ==
  /\ entries = {} /\ used = {Root}
  /\ kind = [i \in Inodes |-> IF i = Root THEN "dir" ELSE "none"]
  /\ links = [i \in Inodes |-> IF i = Root THEN 2 ELSE 0]
  /\ dotdot = [i \in Inodes |-> IF i = Root THEN Root ELSE 0]
  /\ call = Idle /\ cut = FALSE /\ blind = FALSE

Begin ==
  \/ \E op \in {"create", "mkdir"}, d \in Inodes, n \in Names :
       Create(op, d, n)
  \/ \E d \in Inodes, e \in entries : ext2_unlink(d, e) \/ ext2_rmdir(d, e)

Continue ==
  \/ ext2_allocate_inode \/ WriteInode \/ AddEntry \/ Dots \/ ParentLink
  \/ RemoveEntry \/ ParentUnlink \/ DropInode

Next == Begin \/ Fail \/ (Continue /\ UNCHANGED <<cut, blind>>)

Spec == Init /\ [][Next]_vars

-----------------------------------------------------------------------------
DiskOK ==
  /\ entries \subseteq [dir : Inodes, name : Names, ino : Inodes]
  /\ used \subseteq Inodes
  /\ kind \in [Inodes -> {"none", "reg", "dir"}]
  /\ links \in [Inodes -> 0 .. LinkLimit - 1]
  /\ dotdot \in [Inodes -> Inodes \cup {0}]

TypeOK ==
  /\ DiskOK
  /\ call.ino \in Inodes \cup {0} /\ call.dir \in Inodes
  /\ cut \in BOOLEAN /\ blind \in BOOLEAN

\* Whatever calls fail or are cut off by a crash, every entry leads to an inode
\* of its own that is marked and written: inodes are marked and written before
\* the entry is.  ".." of a directory, once it is there, leads to the directory
\* that has the entry.  The state is well typed.
EntriesLead ==
  /\ TypeOK
  /\ \A e \in entries : e.ino \in used /\ kind[e.ino] # "none"
  /\ \A e, f \in entries : e.ino = f.ino => e = f
  /\ \A e \in entries : dotdot[e.ino] \in {0, e.dir}

\* "Check if directory is empty (except for . and ..)" (ext2.c:1539): as long
\* as no block was unreadable, a directory that has entries is not removed, so
\* every entry stays in reach of a path; and no entry hides behind another,
\* since a directory has no name twice ("Check if file already exists",
\* ext2.c:944).
EntriesReachable ==
  ~ blind =>
    /\ \A e \in entries : e.dir = Root \/ \E f \in entries : f.ino = e.dir
    /\ \A e, f \in entries : (e.dir = f.dir /\ e.name = f.name) => e = f

\* The names, "." and ".." entries that lead to an inode.
References(i) ==
  Cardinality({e \in entries : e.ino = i})
    + (IF dotdot[i] # 0 THEN 1 ELSE 0)
    + Cardinality({d \in Inodes \ {Root} :
                     dotdot[d] = i /\ \E e \in entries : e.ino = d})
    + (IF i = Root THEN 1 ELSE 0)

\* As long as every call ran to its end, between calls the link count of
\* everything that has a name is the number of references to it, and every
\* directory that a path leads to has "." and ".." ("Create "." and ".."
\* entries", ext2.c:1068).
LinksExact ==
  (call = Idle /\ ~ cut /\ ~ blind) =>
    /\ \A i \in Inodes :
         (i = Root \/ \E e \in entries : e.ino = i) => links[i] = References(i)
    /\ \A d \in Reached : dotdot[d] # 0
=============================================================================
