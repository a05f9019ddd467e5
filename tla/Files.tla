-------------------------------- MODULE Files --------------------------------
(***************************************************************************)
(* Open files and their blocks, kernel/src/fs/ext2.c: ext2_open, _close,   *)
(* _read and _write, the blocks of an inode, direct and through the        *)
(* indirect block, and the allocation of blocks.  A handle works on its    *)
(* own copy of the inode and writes it back.  Contents are words of four   *)
(* bytes, the size of a block number.  The block layer delivers what was   *)
(* written (module BlockCache); the disk can be full.                      *)
(***************************************************************************)
EXTENDS Integers, Sequences, FiniteSetsExt

CONSTANTS
  File, Fd, Words,
  Flags,               \* of the handles
  Counts,              \* sizes of reads and writes, in words
  BlockWords,          \* fs.block_size / 4
  EXT2_NDIR_BLOCKS,
  NBlocks              \* blocks that files can use

ASSUME FilesConstants ==
  /\ BlockWords \in Nat \ {0} /\ EXT2_NDIR_BLOCKS \in Nat /\ NBlocks \in Nat
  /\ Words \subseteq Nat \ {0} /\ Counts \subseteq Nat \ {0}
  /\ \E m \in Counts : \A n \in Counts : n <= m
  /\ Flags \subseteq 1 .. 3

Blocks == 1 .. NBlocks
Slots  == 0 .. EXT2_NDIR_BLOCKS      \* of i_block; the last is the indirect

\* EXT2_O_RDONLY, EXT2_O_WRONLY and EXT2_O_RDWR.
RdOnly == 1
WrOnly == 2
RdWr   == 3

VARIABLES
  data,         \* contents of the blocks on disk
  used,         \* the block bitmap on disk
  free_count,   \* s_free_blocks_count of the superblock in memory
  inode,        \* [size, i_block]: the inodes on disk
  handle,       \* fs.open_files: file, flags, inode copy and position
  clashed       \* history: files that were open twice at a time

vars == <<data, used, free_count, inode, handle, clashed>>

Closed == [file |-> {}, flags |-> 0, pos |-> 0,
           ino |-> [size |-> 0, i_block |-> [s \in Slots |-> 0]]]

Zeroes == [w \in 0 .. BlockWords - 1 |-> 0]

-----------------------------------------------------------------------------
(* Blocks of an inode.  d is the disk, ino the inode, k a block index. *)

BlocksOfSize(size) == (size + BlockWords - 1) \div BlockWords

\* get_block_from_inode; 0 when there is none.
get_block(d, ino, k) ==
  IF k >= BlocksOfSize(ino.size) THEN 0
  ELSE IF k < EXT2_NDIR_BLOCKS THEN ino.i_block[k]
  ELSE IF k - EXT2_NDIR_BLOCKS >= BlockWords
            \/ ino.i_block[EXT2_NDIR_BLOCKS] = 0 THEN 0
  ELSE d[ino.i_block[EXT2_NDIR_BLOCKS]][k - EXT2_NDIR_BLOCKS]

\* A store: the parts of the state that a write works on.
\* ok says whether the last operation succeeded, got the block it gave.
Allocated_NotMarked(st) ==
  LET b == Min(Blocks \ st.used) IN
  [st EXCEPT !.free = @ - 1, !.data[b] = Zeroes, !.got = b]

Allocated(st) ==
  LET b == Min(Blocks \ st.used) IN
  [st EXCEPT !.used = @ \cup {b}, !.free = @ - 1, !.data[b] = Zeroes,
             !.got = b]

ext2_allocate_block(st) ==
  IF st.free = 0 \/ Blocks \subseteq st.used THEN [st EXCEPT !.got = 0]
  ELSE Allocated(st)

SetIndirect(st, k, b) ==
  LET ind == st.ino.i_block[EXT2_NDIR_BLOCKS] IN
  [st EXCEPT !.data[ind][k - EXT2_NDIR_BLOCKS] = b, !.ok = TRUE]

\* set_block_in_inode, which allocates the indirect block when it is missing.
set_block(st, k, b) ==
  IF k < EXT2_NDIR_BLOCKS
  THEN [st EXCEPT !.ino.i_block[k] = b, !.ok = TRUE]
  ELSE IF k - EXT2_NDIR_BLOCKS >= BlockWords THEN [st EXCEPT !.ok = FALSE]
  ELSE IF st.ino.i_block[EXT2_NDIR_BLOCKS] # 0 THEN SetIndirect(st, k, b)
  ELSE LET a == ext2_allocate_block(st)
           t == [a EXCEPT !.ino.i_block[EXT2_NDIR_BLOCKS] = a.got]
       IN  IF a.got = 0 THEN [t EXCEPT !.ok = FALSE] ELSE SetIndirect(t, k, b)

-----------------------------------------------------------------------------
(* ext2_write *)

BlockFor_IgnoreSet(st, p) ==
  LET k == p \div BlockWords
      b == get_block(st.data, st.ino, k)
      a == ext2_allocate_block(st)
      t == set_block(a, k, a.got)
  IN  IF b # 0 THEN [st EXCEPT !.got = b]
      ELSE IF a.got = 0 THEN a
      ELSE [t EXCEPT !.got = a.got]

\* The block to write at position p, allocated and entered when there is
\* none: got is 0 when that fails.
BlockFor(st, p) ==
  LET k == p \div BlockWords
      b == get_block(st.data, st.ino, k)
      a == ext2_allocate_block(st)
      t == set_block(a, k, a.got)
  IN  IF b # 0 THEN [st EXCEPT !.got = b]
      ELSE IF a.got = 0 THEN a
      ELSE IF t.ok THEN [t EXCEPT !.got = a.got] ELSE [t EXCEPT !.got = 0]

\* One round of the loop, for what is left of n words w from position p on: as
\* far as the block goes.  done counts the words; ok is FALSE after a break.
WriteBlock(st, p, n, w) ==
  LET at  == p + st.done
      off == at % BlockWords
      len == Min({BlockWords - off, n - st.done})
      t   == BlockFor(st, at)
      new == [i \in 0 .. BlockWords - 1 |->
                IF i \in off .. off + len - 1 THEN w ELSE t.data[t.got][i]]
  IN  IF st.done = n \/ ~ st.ok THEN st
      ELSE IF t.got = 0 THEN [t EXCEPT !.ok = FALSE]
      ELSE [t EXCEPT !.data[t.got] = new, !.done = @ + len]

\* The store after each round; n rounds are enough for n words.
Rounds(st, p, n, w) ==
  LET round[i \in 0 .. n] ==
        IF i = 0 THEN st ELSE WriteBlock(round[i - 1], p, n, w)
  IN  round

WriteLoop(st, p, n, w) == Rounds(st, p, n, w)[n]

\* flags & (EXT2_O_WRONLY | EXT2_O_RDWR), for flags below 4
Writable(flags) == flags % 4 # 0

ext2_write_KeepSize(fd, n, w) ==
  \E f \in handle[fd].file :
    LET h  == handle[fd]
        st == WriteLoop([data |-> data, used |-> used, free |-> free_count,
                         ino |-> h.ino, got |-> 0, ok |-> TRUE, done |-> 0],
                        h.pos, n, w)
        ino == [st.ino EXCEPT !.size = h.pos + st.done]
    IN  /\ Writable(h.flags)
        /\ data' = st.data /\ used' = st.used /\ free_count' = st.free
        /\ inode' = [inode EXCEPT ![f] = ino]
        /\ handle' = [handle EXCEPT ![fd].pos = @ + st.done, ![fd].ino = ino]
        /\ UNCHANGED clashed

ext2_write(fd, n, w) ==
  \E f \in handle[fd].file :
    LET h  == handle[fd]
        st == WriteLoop([data |-> data, used |-> used, free |-> free_count,
                         ino |-> h.ino, got |-> 0, ok |-> TRUE, done |-> 0],
                        h.pos, n, w)
        ino == [st.ino EXCEPT !.size = Max({@, h.pos + st.done})]
    IN  /\ Writable(h.flags)
        /\ data' = st.data /\ used' = st.used /\ free_count' = st.free
        /\ inode' = [inode EXCEPT ![f] = ino]
        /\ handle' = [handle EXCEPT ![fd].pos = @ + st.done, ![fd].ino = ino]
        /\ UNCHANGED clashed

-----------------------------------------------------------------------------
(* ext2_read, ext2_open, ext2_close *)

\* (flags & EXT2_O_WRONLY) && !(flags & EXT2_O_RDWR) refuses the read.
Readable(flags) == ~ (flags \in {WrOnly, RdWr} /\ flags % 4 = 0)

\* Every block below the size is there, so nothing stops a read before the
\* end of the file; the copy of the inode is written back.
ext2_read(fd, n) ==
  \E f \in handle[fd].file :
    LET h == handle[fd] IN
    /\ Readable(h.flags) /\ h.pos < h.ino.size
    /\ handle' = [handle EXCEPT ![fd].pos = Min({@ + n, h.ino.size})]
    /\ inode' = [inode EXCEPT ![f] = h.ino]
    /\ UNCHANGED <<data, used, free_count, clashed>>

ext2_open(fd, f, flags) ==
  /\ handle[fd].file = {} /\ \A g \in Fd : handle[g].file = {} => fd <= g
  /\ clashed' = IF \E g \in Fd : handle[g].file = {f} THEN clashed \cup {f}
                ELSE clashed
  /\ handle' = [handle EXCEPT ![fd] = [file |-> {f}, flags |-> flags,
                                       pos |-> 0, ino |-> inode[f]]]
  /\ UNCHANGED <<data, used, free_count, inode>>

ext2_close(fd) ==
  /\ handle[fd].file # {}
  /\ handle' = [handle EXCEPT ![fd] = Closed]
  /\ UNCHANGED <<data, used, free_count, inode, clashed>>

\* Unmounting closes everything; mounting reads the superblock, to which the
\* count in memory was never written.
Remount ==
  /\ handle' = [fd \in Fd |-> Closed]
  /\ free_count' = NBlocks
  /\ UNCHANGED <<data, used, inode, clashed>>

-----------------------------------------------------------------------------
Init ==
  /\ data = [b \in Blocks |-> Zeroes] /\ used = {} /\ free_count = NBlocks
  /\ inode = [f \in File |-> Closed.ino]
  /\ handle = [fd \in Fd |-> Closed] /\ clashed = {}

Next ==
  \/ \E fd \in Fd, f \in File, flags \in Flags : ext2_open(fd, f, flags)
  \/ \E fd \in Fd, n \in Counts : ext2_read(fd, n)
  \/ \E fd \in Fd, n \in Counts, w \in Words : ext2_write(fd, n, w)
  \/ \E fd \in Fd : ext2_close(fd)
  \/ Remount

Spec == Init /\ [][Next]_vars

-----------------------------------------------------------------------------
InodeType == [size : Nat, i_block : [Slots -> 0 .. NBlocks]]

HandleType == [file : {{}} \cup {{f} : f \in File}, flags : 0 .. 3, pos : Nat,
               ino : InodeType]

TypeOK ==
  /\ used \subseteq Blocks /\ free_count \in Nat /\ clashed \subseteq File
  /\ data \in [Blocks -> [0 .. BlockWords - 1 -> Nat]]
  /\ inode \in [File -> InodeType] /\ handle \in [Fd -> HandleType]
  /\ \A fd \in Fd : handle[fd].pos <= handle[fd].ino.size

\* The blocks with the contents of an inode, by index.
DataBlock(ino, k) == get_block(data, ino, k)
Indices(ino) == 0 .. BlocksOfSize(ino.size) - 1

\* Block b is the indirect block of file f (k is -1) or has its contents k.
Owns(f, k, b) ==
  IF k = -1 THEN inode[f].i_block[EXT2_NDIR_BLOCKS] = b
  ELSE k \in Indices(inode[f]) /\ DataBlock(inode[f], k) = b

Owners(b) ==
  {o \in File \X (-1 .. EXT2_NDIR_BLOCKS + BlockWords) : Owns(o[1], o[2], b)}

\* A block belongs to one place of one file at most, and is marked in the
\* bitmap when it does: also with stale copies of inodes in several handles
\* no file gets a block of another.
BlocksExclusive ==
  \A b \in Blocks : /\ \A o1, o2 \in Owners(b) : o1 = o2
                    /\ Owners(b) # {} => b \in used

\* There is a block for every word below the size of an inode, and no handle is
\* past the end of its copy.  The state is well typed.
NoHoles ==
  /\ TypeOK
  /\ \A f \in File : \A k \in Indices(inode[f]) : DataBlock(inode[f], k) # 0

Contents(f) ==
  [i \in 1 .. inode[f].size |->
     data[DataBlock(inode[f], (i - 1) \div BlockWords)][(i - 1) % BlockWords]]

Store == INSTANCE FileStore WITH
  content  <- [f \in File |-> IF f \in clashed THEN <<>> ELSE Contents(f)],
  opened   <- [fd \in Fd |-> handle[fd].file],
  pos      <- [fd \in Fd |-> IF handle[fd].file \subseteq clashed THEN 0
                             ELSE handle[fd].pos],
  lost     <- clashed,
  MaxCount <- Max(Counts)

\* Files are what ext2_read and ext2_write promise, words at positions,
\* whatever blocks hold them, until a file is open twice at a time; and what
\* the handles of such a file do never reaches another file.
IsFileStore == Store!StoreSpec
=============================================================================
