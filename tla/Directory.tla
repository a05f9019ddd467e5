------------------------------ MODULE Directory ------------------------------
(***************************************************************************)
(* The blocks of one directory, kernel/src/fs/ext2.c: entries that chain   *)
(* by their record lengths, found, added and removed in place.  A block is *)
(* modelled by units of four bytes; the bytes of names and of entries that *)
(* were removed stay where they are until they are written over.           *)
(***************************************************************************)
EXTENDS Naturals, Sequences, FiniteSetsExt

CONSTANTS
  FileNames,      \* of eight bytes, or
  Long,           \* of sixteen
  Dot, DotDot,    \* "." and ".."
  NoName,
  BlockUnits,     \* fs.block_size / 4
  MaxBlocks       \* blocks that can be allocated to the directory

ASSUME DirectoryConstants ==
  /\ Long \subseteq FileNames /\ {Dot, DotDot, NoName} \cap FileNames = {}
  /\ DotDot # NoName
  /\ BlockUnits \in Nat /\ BlockUnits >= 7 /\ MaxBlocks \in Nat \ {0}

VARIABLES
  blocks,   \* contents of the directory's blocks
  live,     \* history: the names that the directory should hold
  shrunk    \* history: an unused entry was reused and made shorter

dirVars == <<blocks, live, shrunk>>

-----------------------------------------------------------------------------
Units == 0 .. BlockUnits - 1

\* What a unit reads as when it is taken for the start of an entry.  The bytes
\* of a name make a record length beyond the end of every block.
Zero == [inode |-> 0, rec_len |-> 0, name |-> NoName]
NameBytes == [inode |-> 1, rec_len |-> 2 * BlockUnits, name |-> NoName]

\* The space that an entry needs, 8 bytes and the name, rounded up to 8.
EntrySize(n) == IF n = NoName THEN 26 ELSE IF n \in Long THEN 6 ELSE 4

\* An entry written at unit u, with its name behind it.
Put(m, u, n, rec) ==
  [v \in Units |->
     IF v = u THEN [inode |-> 1, rec_len |-> rec, name |-> n]
     ELSE IF v \in u + 1 .. u + EntrySize(n) - 1 THEN NameBytes
     ELSE m[v]]

\* The units at which a scan looks, up to an entry without length.
Visited(m) ==
  LET from[u \in Nat] ==
        IF u >= BlockUnits THEN {}
        ELSE IF m[u].rec_len = 0 THEN {u}
        ELSE {u} \cup from[u + m[u].rec_len]
  IN  from[0]

\* find_file_in_dir
Matches(m, n) ==
  {u \in Visited(m) : m[u].rec_len # 0 /\ m[u].inode # 0 /\ m[u].name = n}

Found(n) == \E k \in DOMAIN blocks : Matches(blocks[k], n) # {}

-----------------------------------------------------------------------------
(* add_dir_entry *)

Unused(m, u, n) ==
  \/ m[u].rec_len = 0
  \/ m[u].inode = 0 /\ m[u].rec_len >= EntrySize(n)

Roomy(m, u, n) == m[u].rec_len >= EntrySize(m[u].name) + EntrySize(n)

Spots(m, n) == {u \in Visited(m) : Unused(m, u, n) \/ Roomy(m, u, n)}

Split_KeepLength(m, u, n) ==
  LET at == u + EntrySize(m[u].name) IN
  Put([m EXCEPT ![u].rec_len = EntrySize(m[u].name)], at, n, EntrySize(n))

Split(m, u, n) ==
  LET at == u + EntrySize(m[u].name) IN
  Put([m EXCEPT ![u].rec_len = EntrySize(m[u].name)], at, n,
      m[u].rec_len - EntrySize(m[u].name))

AddTo(m, u, n) ==
  IF Unused(m, u, n) THEN Put(m, u, n, EntrySize(n)) ELSE Split(m, u, n)

\* In the first block that has a place, at its first place.
AddInPlace(n) ==
  LET k == Min({j \in DOMAIN blocks : Spots(blocks[j], n) # {}})
      u == Min(Spots(blocks[k], n))
  IN  /\ \E j \in DOMAIN blocks : Spots(blocks[j], n) # {}
      /\ blocks' = [blocks EXCEPT ![k] = AddTo(@, u, n)]
      /\ shrunk' = (shrunk \/ (Unused(blocks[k], u, n)
                                 /\ blocks[k][u].rec_len # EntrySize(n)))

AddBlock(n) ==
  /\ \A j \in DOMAIN blocks : Spots(blocks[j], n) = {}
  /\ Len(blocks) < MaxBlocks
  /\ blocks' = Append(blocks, Put([v \in Units |-> Zero], 0, n, BlockUnits))
  /\ UNCHANGED shrunk

add_dir_entry(n) ==
  /\ ~ Found(n)
  /\ AddInPlace(n) \/ AddBlock(n)
  /\ live' = live \cup {n}

-----------------------------------------------------------------------------
(* ext2_unlink and ext2_rmdir: removing the entry of a name *)

RemoveFrom_NoMark(m, u) ==
  LET prev == Max({v \in Visited(m) : v < u}) IN
  IF u = 0 THEN m ELSE [m EXCEPT ![prev].rec_len = @ + m[u].rec_len]

\* The entry before it takes over the space; the first is only marked.
RemoveFrom(m, u) ==
  LET prev == Max({v \in Visited(m) : v < u}) IN
  IF u = 0 THEN [m EXCEPT ![u].inode = 0]
  ELSE [m EXCEPT ![prev].rec_len = @ + m[u].rec_len]

remove_dir_entry(n) ==
  /\ Found(n)
  /\ LET k == Min({j \in DOMAIN blocks : Matches(blocks[j], n) # {}})
     IN  blocks' = [blocks EXCEPT ![k] = RemoveFrom(@, Min(Matches(@, n)))]
  /\ live' = live \ {n}
  /\ UNCHANGED shrunk

-----------------------------------------------------------------------------
\* The block that ext2_mkdir writes: "." of 12 bytes, ".." over the rest.
FirstBlock ==
  [v \in Units |->
     IF v = 0 THEN [inode |-> 1, rec_len |-> 3, name |-> Dot]
     ELSE IF v = 3 THEN [inode |-> 1, rec_len |-> BlockUnits - 3,
                         name |-> DotDot]
     ELSE IF v \in {1, 2, 4, 5} THEN NameBytes ELSE Zero]

DirInit == blocks = <<FirstBlock>> /\ live = {} /\ shrunk = FALSE

DirNext == \E n \in FileNames : add_dir_entry(n) \/ remove_dir_entry(n)

\* Beyond the reuse of a longer unused entry the chain runs through leftovers.
Uncut == ~ shrunk

DirSpec == DirInit /\ [][DirNext]_dirVars

-----------------------------------------------------------------------------
DirEntry == [inode : {0, 1}, rec_len : Nat,
             name : FileNames \cup {Dot, DotDot, NoName}]

DirTypeOK ==
  /\ blocks \in Seq([Units -> DirEntry]) /\ Len(blocks) \in 1 .. MaxBlocks
  /\ live \subseteq FileNames /\ shrunk \in BOOLEAN

\* Every entry of a block leads to the next, and the last one to the end of
\* the block.
Chained(m) ==
  \A u \in Visited(m) :
    /\ m[u].rec_len > 0
    /\ u + m[u].rec_len = BlockUnits \/ u + m[u].rec_len \in Visited(m)

\* As long as no unused first entry of a block was reused by a shorter one,
\* the entries of every block tile it, so that no byte of it is lost and none
\* is in two entries.  The state is well typed.
Tiled ==
  DirTypeOK /\ (shrunk \/ \A k \in DOMAIN blocks :
    LET m == blocks[k] IN
    /\ Chained(m)
    /\ \A u \in Visited(m) :
         m[u].rec_len >= EntrySize(m[u].name) \/ m[u].name = Dot)

\* The entries with name n, by block and unit.
Hits(n) ==
  {o \in (DOMAIN blocks) \X Units : o[2] \in Matches(blocks[o[1]], n)}

\* A name that was added is found, in one entry, until it is removed, and in
\* none before and after, under the same condition: splitting and merging
\* entries neither loses one nor brings one back.
FoundWhileUncut ==
  shrunk \/ \A n \in FileNames :
    Cardinality(Hits(n)) = IF n \in live THEN 1 ELSE 0
=============================================================================
