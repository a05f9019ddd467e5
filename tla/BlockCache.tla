----------------------------- MODULE BlockCache -----------------------------
(***************************************************************************)
(* The block layer of the file system, kernel/src/fs/ext2.c: mount and     *)
(* unmount, reads and writes of blocks through the cache, sectors that     *)
(* cannot be read or written, and the pages that the layer takes from the  *)
(* physical memory manager, which may have none.                           *)
(***************************************************************************)
EXTENDS Naturals

CONSTANTS
  Drives, Blocks, Values,
  Torn,              \* a block of which only some sectors were written
  EXT2_CACHE_SIZE,
  DescPages,         \* pages that the group descriptors take
  MaxWrites          \* bound on the number of writes

ASSUME BlockCacheConstants ==
  /\ EXT2_CACHE_SIZE \in Nat \ {0} /\ DescPages \in Nat \ {0}
  /\ MaxWrites \in Nat /\ Torn \notin Values
  /\ Drives # {} /\ Blocks # {} /\ Values # {}

Entries == 0 .. EXT2_CACHE_SIZE - 1
Content == Values \cup {Torn}

VARIABLES
  stored,      \* what the drives hold
  drive,     \* fs.drive_index
  mounted,
  valid, block_no, data, dirty,   \* the fields of fs.cache
  page,      \* cache entries that have memory
  held,      \* pages held for the superblock and the group descriptors
  tainted,   \* history: blocks whose last write failed
  writes

layerVars == <<stored, drive, mounted, valid, block_no, data, dirty, page, held,
          tainted, writes>>

cacheVars == <<valid, block_no, data, dirty, page>>

-----------------------------------------------------------------------------
(* ext2_read_block *)

Holding(b) == {i \in Entries : valid[i] /\ block_no[i] = b}

\* The first entry that is not valid, else entry 0.
Victim ==
  LET unused == Entries \ {i \in Entries : valid[i]} IN
  IF unused = {} THEN 0 ELSE CHOOSE i \in unused : \A j \in unused : i <= j

Fill(i, b) ==
  /\ page' = page \cup {i}
  /\ valid' = [valid EXCEPT ![i] = TRUE]
  /\ block_no' = [block_no EXCEPT ![i] = b]
  /\ data' = [data EXCEPT ![i] = stored[drive][b]]
  /\ dirty' = [dirty EXCEPT ![i] = FALSE]

ReadMiss_NoCheck(b) ==
  /\ mounted
  /\ \/ Fill(Victim, b)
     \/ Victim \notin page /\ UNCHANGED cacheVars
  /\ UNCHANGED <<stored, drive, mounted, held, tainted, writes>>

\* A hit changes nothing, nor does a sector that cannot be read.  The entry
\* may have no memory, and get none.
ReadMiss(b) ==
  /\ mounted /\ Holding(b) = {}
  /\ \/ Fill(Victim, b)
     \/ Victim \notin page /\ UNCHANGED cacheVars
  /\ UNCHANGED <<stored, drive, mounted, held, tainted, writes>>

-----------------------------------------------------------------------------
(* ext2_write_block *)

UpdateCache_FirstOnly(b, v) ==
  LET first == {i \in Holding(b) : i = 0} IN
  /\ data' = [i \in Entries |-> IF i \in first THEN v ELSE data[i]]
  /\ dirty' = [i \in Entries |-> i \in first \/ dirty[i]]

UpdateCache(b, v) ==
  /\ data' = [i \in Entries |-> IF i \in Holding(b) THEN v ELSE data[i]]
  /\ dirty' = [i \in Entries |-> i \in Holding(b) \/ dirty[i]]

\* The cache first, then the sectors: all, none or some of them.
ext2_write_block(b, v) ==
  /\ mounted /\ writes < MaxWrites /\ writes' = writes + 1
  /\ UpdateCache(b, v)
  /\ \/ /\ stored' = [stored EXCEPT ![drive][b] = v]
        /\ tainted' = tainted \ {<<drive, b>>}
     \/ /\ \/ UNCHANGED stored
           \/ stored' = [stored EXCEPT ![drive][b] = Torn]
        /\ tainted' = tainted \cup {<<drive, b>>}
  /\ UNCHANGED <<drive, mounted, valid, block_no, page, held>>

-----------------------------------------------------------------------------
(* ext2_mount and ext2_unmount *)

\* A mount that fails: no drive, no superblock, no memory, or group
\* descriptors that cannot be read after their memory was allocated.
MountFails(d) ==
  /\ ~ mounted /\ drive' \in {drive, d}
  /\ held' \in {held, held + DescPages - 1}
  /\ UNCHANGED <<stored, mounted, cacheVars, tainted, writes>>

\* Cache entries get memory as far as there is some.
ext2_mount(d) ==
  /\ ~ mounted /\ mounted' = TRUE /\ drive' = d
  /\ held' = held + 1 + DescPages
  /\ page' \in {p \in SUBSET Entries : page \subseteq p}
  /\ UNCHANGED <<stored, valid, block_no, data, dirty, tainted, writes>>

Invalidate ==
  /\ valid' = [i \in Entries |-> FALSE] /\ dirty' = [i \in Entries |-> FALSE]

Release_CacheKept == UNCHANGED <<held, page>>

\* The pages that unmounting gives back.
Release == page' = {} /\ held' = held - 2

\* The blocks that a set of entries holds.
BlocksOf(entries) == {block_no[i] : i \in entries}

\* Dirty entries are written, and each write may fail or stop halfway; then
\* everything is freed.
ext2_unmount ==
  /\ mounted /\ mounted' = FALSE
  /\ \E failed \in SUBSET {i \in Entries : valid[i] /\ dirty[i]} :
     \E torn \in SUBSET failed :
       LET flushed == {i \in Entries : valid[i] /\ dirty[i]} \ failed
           After(b) ==
             IF b \in BlocksOf(torn) THEN Torn
             ELSE IF b \in BlocksOf(flushed)
             THEN data[CHOOSE i \in flushed : block_no[i] = b]
             ELSE stored[drive][b]
       IN  /\ stored' = [stored EXCEPT ![drive] = [b \in Blocks |-> After(b)]]
           /\ tainted' = (tainted \ ({drive} \X BlocksOf(flushed)))
                           \cup ({drive} \X BlocksOf(failed))
  /\ Invalidate
  /\ Release
  /\ UNCHANGED <<drive, block_no, data, writes>>

-----------------------------------------------------------------------------
CacheInit ==
  /\ stored \in [Drives -> [Blocks -> {CHOOSE v \in Values : TRUE}]]
  /\ drive \in Drives /\ mounted = FALSE
  /\ valid = [i \in Entries |-> FALSE] /\ dirty = valid
  /\ block_no = [i \in Entries |-> CHOOSE b \in Blocks : TRUE]
  /\ data = [i \in Entries |-> Torn]
  /\ page = {} /\ held = 0
  /\ tainted = {} /\ writes = 0

CacheNext ==
  \/ \E d \in Drives : ext2_mount(d) \/ MountFails(d)
  \/ \E b \in Blocks : ReadMiss(b)
  \/ \E b \in Blocks, v \in Values : ext2_write_block(b, v)
  \/ ext2_unmount

CacheSpec == CacheInit /\ [][CacheNext]_layerVars

-----------------------------------------------------------------------------
CacheTypeOK ==
  /\ stored \in [Drives -> [Blocks -> Content]]
  /\ drive \in Drives /\ mounted \in BOOLEAN
  /\ valid \in [Entries -> BOOLEAN] /\ dirty \in [Entries -> BOOLEAN]
  /\ block_no \in [Entries -> Blocks] /\ data \in [Entries -> Content]
  /\ page \subseteq Entries /\ held \in Nat
  /\ tainted \subseteq Drives \X Blocks
  /\ writes \in Nat

\* A block is in the cache once, whatever was read, written, replaced and
\* remounted: no write can update one copy and leave another.  The cache is
\* empty when nothing is mounted, and an entry that is valid has memory.  The
\* state is well typed.
NoDuplicates ==
  /\ CacheTypeOK
  /\ \A i \in Entries : valid[i] => (mounted /\ i \in page)
  /\ \A i, j \in Entries :
       (valid[i] /\ valid[j] /\ block_no[i] = block_no[j]) => i = j

\* A hit gives what the mounted drive holds, unless the last write of that
\* block failed: the cache is never stale, also across replacements,
\* failures and mounts of other drives.
Coherent ==
  \A i \in Entries :
    valid[i] => \/ data[i] = stored[drive][block_no[i]]
                \/ <<drive, block_no[i]>> \in tainted

\* "Free resources" (ext2.c:896): without a mounted file system nothing is
\* held but the I/O buffer.
PagesReturned == ~ mounted => (held = 0 /\ page = {})
=============================================================================
