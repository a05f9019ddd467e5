---------------------------- MODULE WriteProofs -----------------------------
(***************************************************************************)
(* Proofs about the operators of Files: the blocks of an inode, their      *)
(* allocation, and the loop of ext2_write.                                 *)
(***************************************************************************)
EXTENDS Files, WellFoundedInduction, TLAPS

\* A set of numbers that is not empty has a least element.
LEMMA LeastNumber ==
  ASSUME NEW S \in SUBSET Nat, S # {}
  PROVE  \E n \in S : \A m \in S : n <= m
<1>1. PICK n \in S : \A m \in S : ~ (<<m, n>> \in OpToRel(<, Nat))
  BY NatLessThanWellFounded, WFMin
<1>2. \A m, k \in Nat : m < k => <<m, k>> \in OpToRel(<, Nat)
  BY Zenon DEF OpToRel
<1>3. \A m, k \in Nat : ~ (m < k) => k <= m
  OBVIOUS
<1> QED BY <1>1, <1>2, <1>3, Zenon

-----------------------------------------------------------------------------
(* Positions, blocks and offsets *)

LEMMA MinOfTwo ==
  ASSUME NEW a \in Int, NEW b \in Int
  PROVE  Min({a, b}) = IF a <= b THEN a ELSE b
<1>1. \E x \in {a, b} : \A y \in {a, b} : x <= y
  OBVIOUS
<1>2. Min({a, b}) \in {a, b} /\ \A y \in {a, b} : Min({a, b}) <= y
  BY <1>1 DEF Min
<1> QED BY <1>2

LEMMA MaxOfTwo ==
  ASSUME NEW a \in Int, NEW b \in Int
  PROVE  Max({a, b}) = IF a >= b THEN a ELSE b
<1>1. \E x \in {a, b} : \A y \in {a, b} : x >= y
  OBVIOUS
<1>2. Max({a, b}) \in {a, b} /\ \A y \in {a, b} : Max({a, b}) >= y
  BY <1>1 DEF Max
<1> QED BY <1>2

LEMMA DivMod ==
  ASSUME NEW a \in Nat, NEW b \in Nat \ {0}
  PROVE  /\ a \div b \in Nat /\ a % b \in 0 .. b - 1
         /\ a = b * (a \div b) + (a % b)
  OBVIOUS

LEMMA DivUnique ==
  ASSUME NEW b \in Nat \ {0}, NEW q \in Nat, NEW r \in 0 .. b - 1
  PROVE  (b * q + r) \div b = q /\ (b * q + r) % b = r
  OBVIOUS

LEMMA IndexBound ==
  ASSUME NEW k \in Nat, NEW size \in Nat
  PROVE  k < BlocksOfSize(size) <=> k * BlockWords < size
  BY FilesConstants DEF BlocksOfSize
-----------------------------------------------------------------------------
(* The loop of ext2_write *)

\* Rounds is a function that satisfies the equation it is defined by.
LEMMA RoundsEquation ==
  ASSUME NEW st, NEW p, NEW n \in Nat, NEW w
  PROVE  Rounds(st, p, n, w) =
           [i \in 0 .. n |-> IF i = 0 THEN st
                             ELSE WriteBlock(Rounds(st, p, n, w)[i - 1], p, n, w)]
<1> DEFINE Eqn(r, m) == r = [i \in 0 .. m |->
                               IF i = 0 THEN st
                               ELSE WriteBlock(r[i - 1], p, n, w)]
           bad == {m \in Nat : ~ \E r : Eqn(r, m)}
<1>1. bad = {}
  <2> SUFFICES ASSUME bad # {} PROVE FALSE
    OBVIOUS
  <2>1. PICK m \in bad : \A k \in bad : m <= k
    <3>1. bad \in SUBSET Nat
      OBVIOUS
    <3> HIDE DEF bad
    <3> QED BY <3>1, LeastNumber
  <2>2. m # 0
    <3>1. Eqn([i \in 0 .. 0 |-> st], 0)
      OBVIOUS
    <3> QED BY <3>1, Zenon
  <2>3. PICK r : Eqn(r, m - 1)
    <3>1. m - 1 \in Nat /\ ~ (m <= m - 1)
      BY <2>2
    <3>2. m - 1 \notin bad
      <4> HIDE DEF bad
      <4> QED BY <2>1, <3>1
    <3> HIDE DEF Eqn
    <3> QED BY <3>1, <3>2
  <2> DEFINE s == [i \in 0 .. m |-> IF i = m THEN WriteBlock(r[m - 1], p, n, w)
                                    ELSE r[i]]
  <2>4. Eqn(s, m)
    <3>1. \A i \in 0 .. m : s[i] = IF i = 0 THEN st
                                   ELSE WriteBlock(s[i - 1], p, n, w)
      <4> TAKE i \in 0 .. m
      <4>1. CASE i = m
        BY <4>1, <2>2
      <4>2. CASE i < m
        BY <4>2, <2>3
      <4> QED BY <4>1, <4>2
    <3> QED BY <3>1
  <2> QED BY <2>4, Zenon
<1>2. \E r : Eqn(r, n)
  BY <1>1
<1>3. Rounds(st, p, n, w) = CHOOSE r : Eqn(r, n)
  BY DEF Rounds
<1> HIDE DEF Eqn
<1>4. Eqn(Rounds(st, p, n, w), n)
  BY <1>2, <1>3
<1> QED BY <1>4 DEF Eqn
-----------------------------------------------------------------------------
(* The store that a write works on.  home says which place of which file a   *)
(* block was allocated for: <<f, k>> for the contents k of file f, and       *)
(* <<f, -1>> for its indirect block.  No block ever changes its home, also   *)
(* when several copies of the inode of f are about.                          *)

BlockType == [0 .. BlockWords - 1 -> Nat]

StoreType == [data : [Blocks -> BlockType], used : SUBSET Blocks, free : Nat,
              ino : InodeType, got : 0 .. NBlocks, ok : BOOLEAN, done : Nat]

\* What the inode has for block k, whatever its size.
At(d, ino, k) ==
  IF k < EXT2_NDIR_BLOCKS THEN ino.i_block[k]
  ELSE IF k - EXT2_NDIR_BLOCKS >= BlockWords
            \/ ino.i_block[EXT2_NDIR_BLOCKS] = 0 THEN 0
  ELSE d[ino.i_block[EXT2_NDIR_BLOCKS]][k - EXT2_NDIR_BLOCKS]

\* The indirect blocks hold the numbers of blocks of the same file.
IndirectHomes(home, d, us) ==
  \A b \in us, f \in File : home[b] = <<f, -1>> =>
    \A j \in 0 .. BlockWords - 1 : d[b][j] # 0 =>
      d[b][j] \in us /\ home[d[b][j]] = <<f, EXT2_NDIR_BLOCKS + j>>

\* So does an inode of file f.
InodeHomes(home, us, f, ino) ==
  \A s \in Slots : ino.i_block[s] # 0 =>
    /\ ino.i_block[s] \in us
    /\ home[ino.i_block[s]] = <<f, IF s = EXT2_NDIR_BLOCKS THEN -1 ELSE s>>

\* There is a block for everything below the size.
Filled(d, ino) == \A k \in 0 .. BlocksOfSize(ino.size) - 1 : At(d, ino, k) # 0

LEMMA GetIsAt ==
  ASSUME NEW d, NEW ino \in InodeType, NEW k \in Nat
  PROVE  get_block(d, ino, k) = IF k < BlocksOfSize(ino.size)
                                THEN At(d, ino, k) ELSE 0
<1>1. BlocksOfSize(ino.size) \in Int
  BY FilesConstants DEF BlocksOfSize, InodeType
<1> QED BY <1>1, FilesConstants DEF get_block, At

LEMMA AtHome ==
  ASSUME NEW home, NEW d \in [Blocks -> BlockType], NEW us \in SUBSET Blocks,
         NEW f \in File, NEW ino \in InodeType, NEW k \in Nat,
         IndirectHomes(home, d, us), InodeHomes(home, us, f, ino),
         At(d, ino, k) # 0
  PROVE  At(d, ino, k) \in us /\ home[At(d, ino, k)] = <<f, k>>
<1>1. CASE k < EXT2_NDIR_BLOCKS
  BY <1>1, FilesConstants DEF At, InodeHomes, Slots
<1>2. CASE k >= EXT2_NDIR_BLOCKS
  <2> DEFINE ind == ino.i_block[EXT2_NDIR_BLOCKS]
             j   == k - EXT2_NDIR_BLOCKS
  <2>1. ind # 0 /\ j \in 0 .. BlockWords - 1 /\ At(d, ino, k) = d[ind][j]
    BY <1>2, FilesConstants DEF At
  <2>2. ind \in us /\ home[ind] = <<f, -1>>
    BY <2>1, FilesConstants DEF InodeHomes, Slots
  <2>3. d[ind][j] \in us /\ home[d[ind][j]] = <<f, EXT2_NDIR_BLOCKS + j>>
    BY <2>1, <2>2 DEF IndirectHomes
  <2>4. EXT2_NDIR_BLOCKS + j = k
    BY FilesConstants
  <2> QED BY <2>1, <2>3, <2>4
<1> QED BY <1>1, <1>2, FilesConstants

\* ext2_allocate_block gives a block that was free, zeroed, or nothing.
LEMMA LeastBlock ==
  ASSUME NEW us \in SUBSET Blocks, ~ (Blocks \subseteq us)
  PROVE  Min(Blocks \ us) \in Blocks \ us
<1>1. PICK b \in Blocks \ us : \A c \in Blocks \ us : b <= c
  <2> DEFINE S == Blocks \ us
  <2>1. S \in SUBSET Nat /\ S # {}
    BY FilesConstants DEF Blocks
  <2> HIDE DEF S
  <2>2. \E b \in S : \A c \in S : b <= c
    BY <2>1, LeastNumber
  <2> QED BY <2>2 DEF S
<1> QED BY <1>1 DEF Min

LEMMA ZeroesType == Zeroes \in BlockType
  BY FilesConstants DEF Zeroes, BlockType

LEMMA AllocateGives ==
  ASSUME NEW st \in StoreType
  PROVE  LET a == ext2_allocate_block(st) IN
         /\ a \in StoreType
         /\ a.ino = st.ino /\ a.done = st.done
         /\ \/ a.got = 0 /\ a.data = st.data /\ a.used = st.used
            \/ /\ a.got \in Blocks \ st.used /\ a.used = st.used \cup {a.got}
               /\ a.data = [st.data EXCEPT ![a.got] = Zeroes]
<1>1. CASE st.free = 0 \/ Blocks \subseteq st.used
  BY <1>1, FilesConstants DEF ext2_allocate_block, StoreType
<1>2. CASE ~ (st.free = 0 \/ Blocks \subseteq st.used)
  <2> DEFINE b == Min(Blocks \ st.used)
  <2>1. b \in Blocks \ st.used
    BY <1>2, LeastBlock DEF StoreType
  <2>2. ext2_allocate_block(st) =
          [st EXCEPT !.used = @ \cup {b}, !.free = @ - 1,
                     !.data[b] = Zeroes, !.got = b]
    BY <1>2, Zenon DEF ext2_allocate_block, Allocated
  <2>3. st.free - 1 \in Nat /\ b \in 0 .. NBlocks
    BY <1>2, <2>1, FilesConstants DEF StoreType, Blocks
  <2> HIDE DEF b
  <2> DEFINE a == ext2_allocate_block(st)
             d == [st.data EXCEPT ![b] = Zeroes]
             u == st.used \cup {b}
  <2>4. d \in [Blocks -> BlockType] /\ u \in SUBSET Blocks
    BY <2>1, ZeroesType DEF StoreType
  <2>5. a = [st EXCEPT !.used = u, !.free = st.free - 1, !.data = d, !.got = b]
    BY <2>2 DEF StoreType
  <2> HIDE DEF d, u, a
  <2>6. a \in StoreType
    BY <2>3, <2>4, <2>5, Zenon DEF StoreType
  <2>7. /\ a.ino = st.ino /\ a.done = st.done /\ a.got = b
        /\ a.data = d /\ a.used = u
    BY <2>5 DEF StoreType
  <2> QED BY <2>1, <2>6, <2>7 DEF a, d, u
<1> QED BY <1>1, <1>2, Zenon
\* A store for a write to file f.
Sound(st, home, f) ==
  /\ st \in StoreType
  /\ IndirectHomes(home, st.data, st.used) /\ InodeHomes(home, st.used, f, st.ino)

\* What an operation on block k of file f may do to a store: only indirect
\* blocks of f change among the blocks that were in use, and they lose no
\* entry; every other block of f stays where it is.
Continues(st, home, t, homes, f, k) ==
  /\ Sound(t, homes, f) /\ t.ino.size = st.ino.size /\ t.done = st.done
  /\ st.used \subseteq t.used /\ \A b \in st.used : homes[b] = home[b]
  /\ \A b \in st.used : home[b] # <<f, -1>> => t.data[b] = st.data[b]
  /\ \A b \in st.used, j \in 0 .. BlockWords - 1 :
       home[b] = <<f, -1>> /\ st.data[b][j] # 0 => t.data[b][j] # 0
  /\ \A i \in Nat : i # k => At(t.data, t.ino, i) = At(st.data, st.ino, i)

\* Block b is entered as block k, or nothing is.
Entered(st, home, t, homes, f, k, b) ==
  Continues(st, home, t, homes, f, k) /\ t.ok = TRUE /\ At(t.data, t.ino, k) = b

Refused(st, home, t, homes, f, k) ==
  /\ Continues(st, home, t, homes, f, k) /\ t.ok = FALSE
  /\ At(t.data, t.ino, k) = At(st.data, st.ino, k)

\* Block b is allocated for the place loc, or nothing is.
Given(st, home, t, homes, f, k, loc) ==
  /\ Continues(st, home, t, homes, f, k) /\ t.ino = st.ino
  /\ At(t.data, t.ino, k) = At(st.data, st.ino, k)
  /\ t.got # 0 => /\ t.got \in t.used /\ t.got \in Blocks
                  /\ homes[t.got] = loc /\ t.data[t.got] = Zeroes

LEMMA SoundAt ==
  ASSUME NEW st, NEW home, NEW f \in File, NEW k \in Nat, Sound(st, home, f),
         At(st.data, st.ino, k) # 0
  PROVE  At(st.data, st.ino, k) \in st.used
         /\ home[At(st.data, st.ino, k)] = <<f, k>>
<1> DEFINE d   == st.data
           us  == st.used
           ino == st.ino
<1>1. d \in [Blocks -> BlockType] /\ us \in SUBSET Blocks /\ ino \in InodeType
  BY DEF Sound, StoreType
<1>2. /\ IndirectHomes(home, d, us) /\ InodeHomes(home, us, f, ino)
      /\ At(d, ino, k) # 0
  BY DEF Sound
<1> HIDE DEF d, us, ino
<1>3. At(d, ino, k) \in us /\ home[At(d, ino, k)] = <<f, k>>
  BY <1>1, <1>2, AtHome
<1> QED BY <1>3 DEF d, us, ino

LEMMA ContinuesTwice ==
  ASSUME NEW st, NEW home, NEW t, NEW homes, NEW u, NEW homes2, NEW f, NEW k,
         Continues(st, home, t, homes, f, k), Continues(t, homes, u, homes2, f, k)
  PROVE  Continues(st, home, u, homes2, f, k)
<1>1. Sound(u, homes2, f) /\ u.ino.size = st.ino.size /\ u.done = st.done
  BY DEF Continues
<1>2. st.used \subseteq u.used /\ \A b \in st.used : homes2[b] = home[b]
  BY DEF Continues
<1>3. \A b \in st.used : home[b] # <<f, -1>> => u.data[b] = st.data[b]
  BY DEF Continues
<1>4. \A b \in st.used, j \in 0 .. BlockWords - 1 :
         home[b] = <<f, -1>> /\ st.data[b][j] # 0 => u.data[b][j] # 0
  BY DEF Continues
<1>5. \A i \in Nat : i # k => At(u.data, u.ino, i) = At(st.data, st.ino, i)
  BY DEF Continues
<1> QED BY <1>1, <1>2, <1>3, <1>4, <1>5 DEF Continues

LEMMA AllocateContinues ==
  ASSUME NEW st, NEW home, NEW f \in File, NEW k \in Nat, NEW loc,
         Sound(st, home, f)
  PROVE  \E homes : Given(st, home, ext2_allocate_block(st), homes, f, k, loc)
<1> USE DEF Sound
<1> DEFINE a == ext2_allocate_block(st)
           homes == [c \in Blocks |-> IF c = a.got THEN loc ELSE home[c]]
<1>1. /\ a \in StoreType /\ a.ino = st.ino /\ a.done = st.done
      /\ \/ a.got = 0 /\ a.data = st.data /\ a.used = st.used
         \/ /\ a.got \in Blocks \ st.used /\ a.used = st.used \cup {a.got}
            /\ a.data = [st.data EXCEPT ![a.got] = Zeroes]
  BY AllocateGives
<1> HIDE DEF a
<1>0. st.used \subseteq Blocks /\ st.data \in [Blocks -> BlockType]
      /\ st.ino \in InodeType
  BY DEF StoreType
<1>2. st.used \subseteq a.used /\ \A b \in st.used : homes[b] = home[b]
  <2>1. 0 \notin Blocks
    BY DEF Blocks
  <2> QED BY <1>0, <1>1, <2>1
<1>3. \A b \in st.used : a.data[b] = st.data[b]
  BY <1>0, <1>1
<1>4. a.got # 0 => a.got \in a.used /\ homes[a.got] = loc
                     /\ a.data[a.got] = Zeroes /\ a.got \in Blocks
  BY <1>0, <1>1
<1> HIDE DEF homes
<1>5. IndirectHomes(homes, a.data, a.used)
  <2> SUFFICES ASSUME NEW b \in a.used, NEW g \in File, homes[b] = <<g, -1>>,
                      NEW j \in 0 .. BlockWords - 1, a.data[b][j] # 0
               PROVE  /\ a.data[b][j] \in a.used
                      /\ homes[a.data[b][j]] = <<g, EXT2_NDIR_BLOCKS + j>>
    BY DEF IndirectHomes
  <2>1. b \in st.used
    <3>1. CASE a.got = 0
      BY <3>1, <1>1 DEF Blocks
    <3>2. CASE a.got # 0
      BY <3>2, <1>1, <1>4, FilesConstants DEF Zeroes
    <3> QED BY <3>1, <3>2
  <2> QED BY <2>1, <1>2, <1>3 DEF IndirectHomes
<1>6. InodeHomes(homes, a.used, f, a.ino)
  BY <1>1, <1>2 DEF InodeHomes
<1>7. \A i \in Nat : At(a.data, a.ino, i) = At(st.data, st.ino, i)
  <2> TAKE i \in Nat
  <2>1. CASE st.ino.i_block[EXT2_NDIR_BLOCKS] = 0
    BY <2>1, <1>1 DEF At
  <2>2. CASE st.ino.i_block[EXT2_NDIR_BLOCKS] # 0
    <3>1. st.ino.i_block[EXT2_NDIR_BLOCKS] \in st.used
      BY <2>2, FilesConstants DEF InodeHomes, Slots
    <3> QED BY <3>1, <1>1, <1>3 DEF At
  <2> QED BY <2>1, <2>2
<1>8. Continues(st, home, a, homes, f, k)
  BY <1>1, <1>2, <1>3, <1>5, <1>6, <1>7 DEF Continues
<1> QED BY <1>1, <1>4, <1>7, <1>8 DEF a, Given
\* An entry of an inode, and of an indirect block.
LEMMA SetDirect ==
  ASSUME NEW st, NEW home, NEW f \in File, NEW k \in Nat,
         NEW b \in st.used,
         Sound(st, home, f),
         home[b] = <<f, k>>, k < EXT2_NDIR_BLOCKS
  PROVE  Entered(st, home, set_block(st, k, b), home, f, k, b)
<1> USE DEF Sound
<1> DEFINE t == set_block(st, k, b)
           blk == [st.ino.i_block EXCEPT ![k] = b]
           ino == [st.ino EXCEPT !.i_block = blk]
<1>1. k \in Slots /\ b \in 0 .. NBlocks /\ EXT2_NDIR_BLOCKS \in Slots
  BY FilesConstants DEF Slots, StoreType, Blocks
<1>2. blk \in [Slots -> 0 .. NBlocks] /\ ino \in InodeType
  BY <1>1 DEF StoreType, InodeType
<1>3. t = [st EXCEPT !.ino = ino, !.ok = TRUE]
  BY Zenon DEF set_block
<1> HIDE DEF t
<1>4. /\ t \in StoreType /\ t.ok = TRUE /\ t.ino = ino /\ t.done = st.done
      /\ t.data = st.data /\ t.used = st.used
  <2> HIDE DEF ino
  <2> QED BY <1>2, <1>3, Zenon DEF StoreType
<1>5. ino.size = st.ino.size /\ ino.i_block = blk
  BY <1>1 DEF StoreType, InodeType
<1>6. /\ \A s \in Slots : s # k => blk[s] = st.ino.i_block[s]
      /\ blk[k] = b
  BY <1>1 DEF StoreType, InodeType
<1> HIDE DEF ino, blk
<1>7. InodeHomes(home, t.used, f, t.ino)
  BY <1>1, <1>4, <1>5, <1>6 DEF InodeHomes
<1>8. \A i \in Nat : i # k => At(t.data, t.ino, i) = At(st.data, st.ino, i)
  BY <1>1, <1>4, <1>5, <1>6, FilesConstants DEF At, Slots
<1>9. At(t.data, t.ino, k) = b
  BY <1>4, <1>5, <1>6 DEF At
<1>10. Continues(st, home, t, home, f, k)
  BY <1>4, <1>5, <1>7, <1>8 DEF Continues
<1> QED BY <1>4, <1>9, <1>10 DEF t, Entered

LEMMA SetEntry ==
  ASSUME NEW st, NEW home, NEW f \in File, NEW k \in Nat,
         NEW b \in st.used,
         Sound(st, home, f),
         home[b] = <<f, k>>, k >= EXT2_NDIR_BLOCKS,
         k - EXT2_NDIR_BLOCKS < BlockWords,
         st.ino.i_block[EXT2_NDIR_BLOCKS] # 0
  PROVE  Entered(st, home, SetIndirect(st, k, b), home, f, k, b)
<1> USE DEF Sound
<1> DEFINE t == SetIndirect(st, k, b)
           ind == st.ino.i_block[EXT2_NDIR_BLOCKS]
           j   == k - EXT2_NDIR_BLOCKS
           blk == [st.data[ind] EXCEPT ![j] = b]
           d   == [st.data EXCEPT ![ind] = blk]
<1>1. /\ j \in 0 .. BlockWords - 1 /\ b \in Nat \ {0} /\ EXT2_NDIR_BLOCKS \in Slots
      /\ EXT2_NDIR_BLOCKS + j = k
  BY FilesConstants DEF Slots, StoreType, Blocks
<1>2. ind \in st.used /\ ind \in Blocks /\ home[ind] = <<f, -1>>
  BY <1>1 DEF InodeHomes, StoreType
<1>3. blk \in BlockType /\ d \in [Blocks -> BlockType]
  BY <1>1, <1>2 DEF StoreType, BlockType
<1>4. t = [st EXCEPT !.data = d, !.ok = TRUE]
  BY Zenon DEF SetIndirect
<1> HIDE DEF t
<1>5. /\ t \in StoreType /\ t.ok = TRUE /\ t.ino = st.ino /\ t.done = st.done
      /\ t.data = d /\ t.used = st.used
  <2> HIDE DEF d
  <2> QED BY <1>3, <1>4, Zenon DEF StoreType
<1>6. /\ \A c \in st.used : c # ind => d[c] = st.data[c]
      /\ d[ind] = blk
      /\ \A i \in 0 .. BlockWords - 1 : i # j => blk[i] = st.data[ind][i]
      /\ blk[j] = b
  BY <1>1, <1>2, Zenon DEF StoreType, BlockType
<1> HIDE DEF d, blk
<1>7. IndirectHomes(home, d, st.used)
  <2> SUFFICES ASSUME NEW c \in st.used, NEW g \in File, home[c] = <<g, -1>>,
                      NEW i \in 0 .. BlockWords - 1, d[c][i] # 0
               PROVE  /\ d[c][i] \in st.used
                      /\ home[d[c][i]] = <<g, EXT2_NDIR_BLOCKS + i>>
    BY DEF IndirectHomes
  <2>1. CASE c = ind /\ i = j
    BY <2>1, <1>1, <1>2, <1>6
  <2>2. CASE c = ind /\ i # j
    BY <2>2, <1>2, <1>6 DEF IndirectHomes
  <2>3. CASE c # ind
    BY <2>3, <1>6 DEF IndirectHomes
  <2> QED BY <2>1, <2>2, <2>3
<1>8. \A i \in Nat : i # k => At(t.data, t.ino, i) = At(st.data, st.ino, i)
  <2> TAKE i \in Nat
  <2>1. CASE i >= EXT2_NDIR_BLOCKS /\ i - EXT2_NDIR_BLOCKS < BlockWords /\ i # k
    <3>1. i - EXT2_NDIR_BLOCKS \in 0 .. BlockWords - 1 /\ i - EXT2_NDIR_BLOCKS # j
      BY <2>1, FilesConstants
    <3> QED BY <2>1, <3>1, <1>5, <1>6 DEF At
  <2>2. CASE ~ (i >= EXT2_NDIR_BLOCKS /\ i - EXT2_NDIR_BLOCKS < BlockWords)
    BY <2>2, <1>5, FilesConstants DEF At
  <2> QED BY <2>1, <2>2
<1>9. At(t.data, t.ino, k) = b
  BY <1>1, <1>5, <1>6, FilesConstants DEF At
<1>10. \A c \in st.used : home[c] # <<f, -1>> => d[c] = st.data[c]
  BY <1>2, <1>6
<1>11. \A c \in st.used, i \in 0 .. BlockWords - 1 :
         home[c] = <<f, -1>> /\ st.data[c][i] # 0 => d[c][i] # 0
  BY <1>1, <1>6
<1>12. Continues(st, home, t, home, f, k)
  BY <1>5, <1>7, <1>8, <1>10, <1>11 DEF Continues
<1> QED BY <1>5, <1>9, <1>12 DEF t, Entered
\* A new indirect block is empty, so that entering it in the inode changes
\* nothing yet.
WithIndirect(st, b) == [st EXCEPT !.ino.i_block[EXT2_NDIR_BLOCKS] = b]

LEMMA EnterIndirect ==
  ASSUME NEW st, NEW home, NEW f \in File, NEW k \in Nat,
         NEW b \in st.used,
         Sound(st, home, f),
         home[b] = <<f, -1>>, st.data[b] = Zeroes,
         st.ino.i_block[EXT2_NDIR_BLOCKS] = 0
  PROVE  /\ Continues(st, home, WithIndirect(st, b), home, f, k)
         /\ WithIndirect(st, b).used = st.used
         /\ WithIndirect(st, b).ino.i_block[EXT2_NDIR_BLOCKS] = b
<1> USE DEF Sound
<1> DEFINE t == WithIndirect(st, b)
           blk == [st.ino.i_block EXCEPT ![EXT2_NDIR_BLOCKS] = b]
           ino == [st.ino EXCEPT !.i_block = blk]
<1>1. b \in 0 .. NBlocks /\ EXT2_NDIR_BLOCKS \in Slots
  BY FilesConstants DEF Slots, StoreType, Blocks
<1>2. blk \in [Slots -> 0 .. NBlocks] /\ ino \in InodeType
  BY <1>1 DEF StoreType, InodeType
<1>3. t = [st EXCEPT !.ino = ino]
  BY Zenon DEF WithIndirect
<1> HIDE DEF t
<1>4. /\ t \in StoreType /\ t.ino = ino /\ t.done = st.done
      /\ t.data = st.data /\ t.used = st.used
  <2> HIDE DEF ino
  <2> QED BY <1>2, <1>3 DEF StoreType
<1>5. ino.size = st.ino.size /\ ino.i_block = blk
  BY <1>1 DEF StoreType, InodeType
<1>6. /\ \A s \in Slots : s # EXT2_NDIR_BLOCKS => blk[s] = st.ino.i_block[s]
      /\ blk[EXT2_NDIR_BLOCKS] = b
  BY <1>1 DEF StoreType, InodeType
<1> HIDE DEF ino, blk
<1>7. InodeHomes(home, t.used, f, t.ino)
  BY <1>1, <1>4, <1>5, <1>6 DEF InodeHomes
<1>8. \A i \in Nat : At(t.data, t.ino, i) = At(st.data, st.ino, i)
  <2> TAKE i \in Nat
  <2>1. CASE i < EXT2_NDIR_BLOCKS
    BY <2>1, <1>4, <1>5, <1>6, FilesConstants DEF At, Slots
  <2>2. CASE i >= EXT2_NDIR_BLOCKS /\ i - EXT2_NDIR_BLOCKS < BlockWords
    <3>1. i - EXT2_NDIR_BLOCKS \in 0 .. BlockWords - 1
      BY <2>2, FilesConstants
    <3>2. st.data[b][i - EXT2_NDIR_BLOCKS] = 0
      BY <3>1 DEF Zeroes
    <3> QED BY <2>2, <3>2, <1>4, <1>5, <1>6, FilesConstants DEF At
  <2>3. CASE i >= EXT2_NDIR_BLOCKS /\ i - EXT2_NDIR_BLOCKS >= BlockWords
    BY <2>3, FilesConstants DEF At
  <2> QED BY <2>1, <2>2, <2>3, FilesConstants
<1>9. Continues(st, home, t, home, f, k)
  BY <1>4, <1>5, <1>7, <1>8 DEF Continues
<1> QED BY <1>4, <1>5, <1>6, <1>9 DEF t

\* set_block_in_inode enters the block, or fails and enters nothing.
LEMMA SetBlockContinues ==
  ASSUME NEW st, NEW home, NEW f \in File, NEW k \in Nat, NEW b \in st.used,
         Sound(st, home, f), home[b] = <<f, k>>
  PROVE  \E homes : \/ Entered(st, home, set_block(st, k, b), homes, f, k, b)
                    \/ Refused(st, home, set_block(st, k, b), homes, f, k)
<1> DEFINE t == set_block(st, k, b)
<1>1. CASE k < EXT2_NDIR_BLOCKS
  BY <1>1, SetDirect
<1>2. CASE k >= EXT2_NDIR_BLOCKS /\ k - EXT2_NDIR_BLOCKS >= BlockWords
  <2>1. t = [st EXCEPT !.ok = FALSE]
    BY <1>2, FilesConstants DEF set_block
  <2>2. /\ t \in StoreType /\ t.ino = st.ino /\ t.done = st.done
        /\ t.data = st.data /\ t.used = st.used /\ t.ok = FALSE
    BY <2>1, Zenon DEF StoreType, Sound
  <2> HIDE DEF t
  <2>3. Continues(st, home, t, home, f, k)
    BY <2>2 DEF Continues, Sound
  <2>4. Refused(st, home, t, home, f, k)
    BY <2>2, <2>3 DEF Refused
  <2> QED BY <2>4 DEF t
<1>3. CASE /\ k >= EXT2_NDIR_BLOCKS /\ k - EXT2_NDIR_BLOCKS < BlockWords
           /\ st.ino.i_block[EXT2_NDIR_BLOCKS] # 0
  <2>1. t = SetIndirect(st, k, b)
    BY <1>3, FilesConstants DEF set_block
  <2>2. Entered(st, home, t, home, f, k, b)
    BY <1>3, <2>1, SetEntry
  <2> QED BY <2>2
<1>4. CASE /\ k >= EXT2_NDIR_BLOCKS /\ k - EXT2_NDIR_BLOCKS < BlockWords
           /\ st.ino.i_block[EXT2_NDIR_BLOCKS] = 0
  <2> DEFINE a == ext2_allocate_block(st)
             u == [a EXCEPT !.ino.i_block[EXT2_NDIR_BLOCKS] = a.got]
  <2>1. t = IF a.got = 0 THEN [u EXCEPT !.ok = FALSE] ELSE SetIndirect(u, k, b)
    <3>1. ~ (k < EXT2_NDIR_BLOCKS) /\ ~ (k - EXT2_NDIR_BLOCKS >= BlockWords)
      BY <1>4, FilesConstants
    <3> QED BY <1>4, <3>1, Zenon DEF set_block
  <2>2. PICK homes : Given(st, home, a, homes, f, k, <<f, -1>>)
    BY AllocateContinues
  <2>3. Sound(a, homes, f) /\ b \in a.used /\ homes[b] = <<f, k>>
        /\ a.ino = st.ino
    BY <2>2 DEF Continues, Given
  <2> HIDE DEF a, t
  <2>4. CASE a.got = 0
    <3>1. u = a
      BY <2>3, <2>4, <1>4, FilesConstants DEF StoreType, InodeType, Slots, Sound
    <3>2. t = [a EXCEPT !.ok = FALSE]
      BY <2>1, <2>4, <3>1, Zenon
    <3> HIDE DEF u
    <3>3. /\ t \in StoreType /\ t.ino = a.ino /\ t.done = a.done
          /\ t.data = a.data /\ t.used = a.used /\ t.ok = FALSE
      BY <2>3, <3>2, Zenon DEF StoreType, Sound
    <3>4. Continues(a, homes, t, homes, f, k)
      BY <2>3, <3>3 DEF Continues, Sound
    <3>5. Continues(st, home, t, homes, f, k)
      BY <2>2, <3>4, ContinuesTwice DEF Given
    <3>6. Refused(st, home, t, homes, f, k)
      BY <2>2, <3>3, <3>5 DEF Refused, Given
    <3> QED BY <3>6 DEF t
  <2>5. CASE a.got # 0
    <3>1. /\ Continues(a, homes, u, homes, f, k)
          /\ u.used = a.used /\ u.ino.i_block[EXT2_NDIR_BLOCKS] = a.got
      <4>1. /\ a.got \in a.used /\ homes[a.got] = <<f, -1>>
            /\ a.data[a.got] = Zeroes /\ a.ino.i_block[EXT2_NDIR_BLOCKS] = 0
        BY <1>4, <2>2, <2>5 DEF Given
      <4>2. u = WithIndirect(a, a.got)
        BY Zenon DEF WithIndirect
      <4> HIDE DEF u
      <4> QED BY <2>3, <4>1, <4>2, EnterIndirect
    <3>2. t = SetIndirect(u, k, b)
      BY <2>1, <2>5
    <3> HIDE DEF u
    <3>3. Sound(u, homes, f) /\ u.ino.i_block[EXT2_NDIR_BLOCKS] # 0 /\ b \in u.used
      BY <2>3, <2>5, <3>1 DEF Continues
    <3>4. Entered(u, homes, t, homes, f, k, b)
      BY <1>4, <2>3, <3>2, <3>3, SetEntry
    <3>5. Continues(st, home, u, homes, f, k)
      BY <2>2, <3>1, ContinuesTwice DEF Given
    <3>6. Entered(st, home, t, homes, f, k, b)
      BY <3>4, <3>5, ContinuesTwice DEF Entered
    <3> QED BY <3>6 DEF t
  <2> QED BY <2>4, <2>5
<1> QED BY <1>1, <1>2, <1>3, <1>4, FilesConstants
\* The block for position at is there, in its place; a block that was there
\* below the size is the same as before.
Ready(st, t, homes, f, k) ==
  /\ t.got \in t.used /\ homes[t.got] = <<f, k>> /\ At(t.data, t.ino, k) = t.got
  /\ k < BlocksOfSize(st.ino.size) =>
       t.data = st.data /\ t.got = At(st.data, st.ino, k)

\* Or there is none, and the inode has what it had.
Missing(st, t, k) ==
  t.got = 0 /\ At(t.data, t.ino, k) = At(st.data, st.ino, k)

LEMMA BlockForContinues ==
  ASSUME NEW st, NEW home, NEW f \in File, NEW at \in Nat, NEW k \in Nat,
         k = at \div BlockWords, Sound(st, home, f), Filled(st.data, st.ino)
  PROVE  \E homes : /\ Continues(st, home, BlockFor(st, at), homes, f, k)
                    /\ \/ Ready(st, BlockFor(st, at), homes, f, k)
                       \/ Missing(st, BlockFor(st, at), k)
<1> DEFINE t == BlockFor(st, at)
           b == get_block(st.data, st.ino, k)
           a == ext2_allocate_block(st)
           e == set_block(a, k, a.got)
<1>1. t = IF b # 0 THEN [st EXCEPT !.got = b]
          ELSE IF a.got = 0 THEN a
          ELSE IF e.ok THEN [e EXCEPT !.got = a.got] ELSE [e EXCEPT !.got = 0]
  BY Zenon DEF BlockFor
<1>2. b = IF k < BlocksOfSize(st.ino.size) THEN At(st.data, st.ino, k) ELSE 0
  BY GetIsAt DEF Sound, StoreType
<1>3. BlocksOfSize(st.ino.size) \in Int
  BY FilesConstants DEF BlocksOfSize, InodeType, Sound, StoreType
<1>4. k < BlocksOfSize(st.ino.size) => b # 0
  BY <1>2, <1>3 DEF Filled
<1> HIDE DEF t, b, a, e
<1>5. CASE b # 0
  <2>1. b \in st.used /\ home[b] = <<f, k>> /\ b = At(st.data, st.ino, k)
    BY <1>2, <1>5, AtHome DEF Sound, StoreType
  <2>2. b \in 0 .. NBlocks
    BY <2>1 DEF Sound, StoreType, Blocks
  <2>3. t = [st EXCEPT !.got = b]
    BY <1>1, <1>5
  <2>4. /\ t \in StoreType /\ t.ino = st.ino /\ t.done = st.done
        /\ t.data = st.data /\ t.used = st.used /\ t.got = b
    BY <2>2, <2>3 DEF StoreType, Sound
  <2>5. Continues(st, home, t, home, f, k)
    BY <2>4 DEF Continues, Sound
  <2>6. Ready(st, t, home, f, k)
    BY <2>1, <2>4 DEF Ready
  <2> QED BY <2>5, <2>6 DEF t
<1>6. CASE b = 0
  <2>1. ~ (k < BlocksOfSize(st.ino.size))
    BY <1>4, <1>6
  <2>2. PICK homes : Given(st, home, a, homes, f, k, <<f, k>>)
    BY AllocateContinues DEF a
  <2>3. CASE a.got = 0
    <3>1. t = a
      BY <1>1, <1>6, <2>3
    <3>2. Continues(st, home, t, homes, f, k) /\ Missing(st, t, k)
      BY <2>2, <2>3, <3>1 DEF Given, Missing
    <3> QED BY <3>2 DEF t
  <2>4. CASE a.got # 0
    <3>1. /\ Sound(a, homes, f) /\ a.got \in a.used /\ homes[a.got] = <<f, k>>
          /\ a.got \in 0 .. NBlocks
      BY <2>2, <2>4, FilesConstants DEF Given, Continues, Blocks
    <3>2. PICK homes2 : \/ Entered(a, homes, e, homes2, f, k, a.got)
                        \/ Refused(a, homes, e, homes2, f, k)
      BY <3>1, SetBlockContinues DEF e
    <3>3. Continues(a, homes, e, homes2, f, k)
      BY <3>2 DEF Entered, Refused
    <3>4. Continues(st, home, e, homes2, f, k)
      BY <2>2, <3>3, ContinuesTwice DEF Given
    <3>5. CASE Entered(a, homes, e, homes2, f, k, a.got)
      <4>1. t = [e EXCEPT !.got = a.got]
        BY <1>1, <1>6, <2>4, <3>5 DEF Entered
      <4>2. /\ t \in StoreType /\ t.ino = e.ino /\ t.done = e.done
            /\ t.data = e.data /\ t.used = e.used /\ t.got = a.got
        BY <3>1, <3>3, <4>1 DEF StoreType, Sound, Continues
      <4>3. Continues(st, home, t, homes2, f, k)
        BY <3>4, <4>2 DEF Continues, Sound
      <4>4. Ready(st, t, homes2, f, k)
        <5>1. a.got \in e.used /\ homes2[a.got] = <<f, k>>
          BY <3>1, <3>3 DEF Continues
        <5> QED BY <2>1, <3>5, <4>2, <5>1 DEF Ready, Entered
      <4> QED BY <4>3, <4>4 DEF t
    <3>6. CASE Refused(a, homes, e, homes2, f, k)
      <4>1. t = [e EXCEPT !.got = 0]
        BY <1>1, <1>6, <2>4, <3>6 DEF Refused
      <4>2. /\ t \in StoreType /\ t.ino = e.ino /\ t.done = e.done
            /\ t.data = e.data /\ t.used = e.used /\ t.got = 0
        BY <3>3, <4>1, FilesConstants DEF StoreType, Sound, Continues
      <4>3. Continues(st, home, t, homes2, f, k)
        BY <3>4, <4>2 DEF Continues, Sound
      <4>4. Missing(st, t, k)
        BY <2>2, <3>6, <4>2 DEF Missing, Refused, Given
      <4> QED BY <4>3, <4>4 DEF t
    <3> QED BY <3>2, <3>5, <3>6
  <2> QED BY <2>3, <2>4
<1> QED BY <1>5, <1>6

\* How far a round goes: to the end of the block or of what is left.
LEMMA RoundLength ==
  ASSUME NEW at \in Nat, NEW left \in Nat \ {0}
  PROVE  LET k   == at \div BlockWords
             off == at % BlockWords
             len == Min({BlockWords - off, left})
         IN  /\ k \in Nat /\ off \in 0 .. BlockWords - 1
             /\ at = BlockWords * k + off
             /\ len \in 1 .. left /\ off + len <= BlockWords
             /\ len = left \/ (at + len) % BlockWords = 0
<1> DEFINE k   == at \div BlockWords
           off == at % BlockWords
           len == Min({BlockWords - off, left})
<1>1. k \in Nat /\ off \in 0 .. BlockWords - 1 /\ at = BlockWords * k + off
  BY DivMod, FilesConstants, Zenon
<1> HIDE DEF k, off
<1>2. len \in {BlockWords - off, left} /\ len <= left /\ len <= BlockWords - off
  BY <1>1, FilesConstants DEF Min
<1>3. len = BlockWords - off => at + len = BlockWords * (k + 1) + 0
  BY <1>1, FilesConstants
<1> HIDE DEF len
<1>4. (BlockWords * (k + 1) + 0) % BlockWords = 0
  BY <1>1, DivUnique, FilesConstants
<1>5. len \in 1 .. left /\ off + len <= BlockWords
  BY <1>1, <1>2, FilesConstants
<1>6. len = left \/ (at + len) % BlockWords = 0
  BY <1>2, <1>3, <1>4
<1> QED BY <1>1, <1>5, <1>6 DEF k, off, len
\* The positions that a round fills are those of a part of its block.
LEMMA RoundPositions ==
  ASSUME NEW at \in Nat, NEW k \in Nat, NEW off \in 0 .. BlockWords - 1,
         at = BlockWords * k + off, NEW len \in Nat, off + len <= BlockWords,
         NEW q \in Nat
  PROVE  /\ q \in at .. at + len - 1 => q \div BlockWords = k
         /\ q \div BlockWords = k =>
              (q \in at .. at + len - 1 <=>
                 q % BlockWords \in off .. off + len - 1)
<1> DEFINE i == q \div BlockWords
           r == q % BlockWords
<1>1. i \in Nat /\ r \in 0 .. BlockWords - 1 /\ q = BlockWords * i + r
  BY DivMod, FilesConstants, Zenon
<1>2. ASSUME q \in at .. at + len - 1 PROVE i = k
  <2>1. q = BlockWords * k + (q - BlockWords * k)
        /\ q - BlockWords * k \in 0 .. BlockWords - 1
    BY <1>2, FilesConstants
  <2> QED BY <2>1, DivUnique, FilesConstants
<1> HIDE DEF i, r
<1>3. i = k => (q \in at .. at + len - 1 <=> r \in off .. off + len - 1)
  BY <1>1, FilesConstants
<1> QED BY <1>2, <1>3 DEF i, r

LEMMA IndexFacts ==
  ASSUME NEW i \in Nat, NEW k \in Nat, NEW off \in 0 .. BlockWords - 1,
         NEW len \in Nat, off + len <= BlockWords,
         i * BlockWords < BlockWords * k + off + len
  PROVE  i = k \/ i * BlockWords < BlockWords * k + off
<1>1. i <= k
  <2> SUFFICES ASSUME i >= k + 1 PROVE FALSE
    OBVIOUS
  <2>1. i * BlockWords >= (k + 1) * BlockWords
    BY FilesConstants
  <2> QED BY <2>1, FilesConstants
<1>2. i <= k - 1 => i * BlockWords <= (k - 1) * BlockWords
  BY FilesConstants
<1> QED BY <1>1, <1>2, FilesConstants
\* The word at position q.
Word(st, q) == st.data[At(st.data, st.ino, q \div BlockWords)][q % BlockWords]

\* What the loop has done, from store st0 on: the words from p on that it has
\* counted are w, the others are what they were, and there is a block for each.
\* Blocks of other files are as they were.
Kept(st0, home0, st, home, f) ==
  /\ Sound(st, home, f) /\ st.ino.size = st0.ino.size
  /\ st0.used \subseteq st.used /\ \A b \in st0.used : home[b] = home0[b]
  /\ \A b \in st0.used :
       (\A i \in Int : home0[b] # <<f, i>>) => st.data[b] = st0.data[b]
  /\ \A b \in st0.used, j \in 0 .. BlockWords - 1 :
       home0[b] = <<f, -1>> /\ st0.data[b][j] # 0 => st.data[b][j] # 0
  /\ \A i \in Nat : i < BlocksOfSize(st0.ino.size) =>
       At(st.data, st.ino, i) = At(st0.data, st0.ino, i)

Reached(st, p, n) ==
  /\ st.done \in 0 .. n
  /\ st.done = 0 \/ st.done = n \/ (p + st.done) % BlockWords = 0
  /\ \A i \in Nat : i * BlockWords < p + st.done => At(st.data, st.ino, i) # 0

FillingTo(st0, st, p, w, end) ==
  \A q \in Nat : q < st0.ino.size \/ q < end =>
    Word(st, q) = IF q \in p .. end - 1 THEN w ELSE Word(st0, q)

Filling(st0, st, p, w) == FillingTo(st0, st, p, w, p + st.done)

Written(st0, home0, st, home, f, p, n, w) ==
  Kept(st0, home0, st, home, f) /\ Reached(st, p, n) /\ Filling(st0, st, p, w)

\* The blocks stay as they are when the loop is left or finds no block.
LEMMA KeptOn ==
  ASSUME NEW st0, NEW home0, NEW st, NEW home, NEW t, NEW homes, NEW f \in File,
         NEW k \in Nat, Kept(st0, home0, st, home, f),
         Continues(st, home, t, homes, f, k),
         ~ (k < BlocksOfSize(st0.ino.size))
           \/ At(t.data, t.ino, k) = At(st.data, st.ino, k)
  PROVE  Kept(st0, home0, t, homes, f)
<1>1. Sound(t, homes, f) /\ t.ino.size = st0.ino.size
  BY DEF Kept, Continues
<1>2. st0.used \subseteq t.used /\ \A b \in st0.used : homes[b] = home0[b]
  BY DEF Kept, Continues
<1>3. \A b \in st0.used :
        (\A i \in Int : home0[b] # <<f, i>>) => t.data[b] = st0.data[b]
  <2> TAKE b \in st0.used
  <2> HAVE \A i \in Int : home0[b] # <<f, i>>
  <2>1. b \in st.used /\ home[b] = home0[b] /\ st.data[b] = st0.data[b]
    BY DEF Kept
  <2>2. home[b] # <<f, -1>>
    BY <2>1
  <2> QED BY <2>1, <2>2 DEF Continues
<1>4. \A b \in st0.used, j \in 0 .. BlockWords - 1 :
        home0[b] = <<f, -1>> /\ st0.data[b][j] # 0 => t.data[b][j] # 0
  BY DEF Kept, Continues
<1>5. \A i \in Nat : i < BlocksOfSize(st0.ino.size) =>
        At(t.data, t.ino, i) = At(st0.data, st0.ino, i)
  BY DEF Kept, Continues
<1> QED BY <1>1, <1>2, <1>3, <1>4, <1>5 DEF Kept

\* Words of the blocks that are there stay the same.
LEMMA WordsKept ==
  ASSUME NEW st, NEW home, NEW t, NEW homes, NEW f \in File, NEW k \in Nat,
         NEW q \in Nat, Sound(st, home, f),
         Continues(st, home, t, homes, f, k),
         At(st.data, st.ino, q \div BlockWords) # 0,
         q \div BlockWords # k
           \/ At(t.data, t.ino, k) = At(st.data, st.ino, k)
  PROVE  Word(t, q) = Word(st, q)
<1> DEFINE i == q \div BlockWords
<1>1. i \in Nat
  BY DivMod, FilesConstants, Zenon
<1> HIDE DEF i
<1>2. At(t.data, t.ino, i) = At(st.data, st.ino, i)
  BY <1>1 DEF Continues, i
<1>3. At(st.data, st.ino, i) \in st.used
      /\ home[At(st.data, st.ino, i)] = <<f, i>>
  BY <1>1, SoundAt DEF i
<1>4. <<f, i>> # <<f, -1>>
  BY <1>1
<1> QED BY <1>2, <1>3, <1>4 DEF Word, Continues, i
\* There is a block for every position below the size or written by the loop.
LEMMA PositionsFilled ==
  ASSUME NEW st0, NEW home0, NEW st, NEW home, NEW f, NEW p \in Nat,
         NEW n \in Nat, NEW q \in Nat, st0 \in StoreType,
         Filled(st0.data, st0.ino), Kept(st0, home0, st, home, f),
         Reached(st, p, n), q < st0.ino.size \/ q < p + st.done
  PROVE  At(st.data, st.ino, q \div BlockWords) # 0
<1> DEFINE i == q \div BlockWords
           r == q % BlockWords
<1>0. i \in Nat /\ r \in 0 .. BlockWords - 1 /\ q = BlockWords * i + r
  BY DivMod, FilesConstants, Zenon
<1> HIDE DEF i, r
<1>1. i \in Nat /\ i * BlockWords <= q
  BY <1>0, FilesConstants
<1>2. CASE q < st0.ino.size
  <2>1. st0.ino.size \in Nat
    BY DEF StoreType, InodeType
  <2>2. i * BlockWords < st0.ino.size
    BY <1>1, <1>2, <2>1, FilesConstants
  <2>3. i < BlocksOfSize(st0.ino.size)
    BY <1>1, <2>1, <2>2, IndexBound
  <2>4. BlocksOfSize(st0.ino.size) \in Int
    BY <2>1, FilesConstants DEF BlocksOfSize
  <2>5. At(st0.data, st0.ino, i) # 0
    BY <1>1, <2>3, <2>4 DEF Filled
  <2> QED BY <1>1, <2>3, <2>5 DEF Kept, i
<1>3. CASE q < p + st.done
  <2>1. i * BlockWords < p + st.done
    BY <1>1, <1>3, FilesConstants DEF Reached
  <2> QED BY <1>1, <2>1 DEF Reached, i
<1> QED BY <1>2, <1>3

LEMMA StillFilled ==
  ASSUME NEW st0, NEW home0, NEW st, NEW home, NEW f,
         Filled(st0.data, st0.ino), Kept(st0, home0, st, home, f),
         st0 \in StoreType
  PROVE  Filled(st.data, st.ino)
<1>1. BlocksOfSize(st0.ino.size) \in Int
  BY FilesConstants DEF BlocksOfSize, StoreType, InodeType
<1>2. st.ino.size = st0.ino.size
  BY DEF Kept
<1> SUFFICES ASSUME NEW i \in 0 .. BlocksOfSize(st0.ino.size) - 1
             PROVE  At(st.data, st.ino, i) # 0
  BY <1>2 DEF Filled
<1>3. i \in Nat /\ i < BlocksOfSize(st0.ino.size)
  BY <1>1
<1> QED BY <1>3 DEF Filled, Kept

LEMMA RoundMissing ==
  ASSUME NEW st0, NEW home0, NEW st, NEW home, NEW f \in File, NEW p \in Nat,
         NEW n \in Nat, NEW w, st0 \in StoreType, Filled(st0.data, st0.ino),
         Written(st0, home0, st, home, f, p, n, w),
         NEW k \in Nat, NEW t, NEW homes, Continues(st, home, t, homes, f, k),
         Missing(st, t, k)
  PROVE  Written(st0, home0, [t EXCEPT !.ok = FALSE], homes, f, p, n, w)
<1> DEFINE u == [t EXCEPT !.ok = FALSE]
<1>1. Kept(st0, home0, t, homes, f)
  BY KeptOn DEF Written, Missing
<1>2. \A i \in Nat : At(t.data, t.ino, i) = At(st.data, st.ino, i)
  BY DEF Continues, Missing
<1>3. t.done = st.done
  BY DEF Continues
<1>4. Reached(t, p, n)
  BY <1>2, <1>3 DEF Written, Reached
<1>5. Filling(st0, t, p, w)
  <2> SUFFICES ASSUME NEW q \in Nat, q < st0.ino.size \/ q < p + st.done
               PROVE  Word(t, q) = Word(st, q)
    BY <1>3 DEF Filling, FillingTo, Written
  <2>1. At(st.data, st.ino, q \div BlockWords) # 0
    BY PositionsFilled, Zenon DEF Written
  <2>2. Sound(st, home, f) /\ At(t.data, t.ino, k) = At(st.data, st.ino, k)
    BY Zenon DEF Missing, Written, Kept
  <2> QED BY <2>1, <2>2, WordsKept
<1>6. /\ u \in StoreType /\ u.ino = t.ino /\ u.done = t.done
      /\ u.data = t.data /\ u.used = t.used
  BY <1>1, Zenon DEF Kept, Sound, StoreType
<1> HIDE DEF u
<1>7. Kept(st0, home0, u, homes, f)
  BY <1>1, <1>6 DEF Kept, Sound
<1>8. Reached(u, p, n) /\ Filling(st0, u, p, w)
  BY <1>4, <1>5, <1>6 DEF Reached, Filling, FillingTo, Word
<1> QED BY <1>7, <1>8 DEF Written, u
\* Writing the block changes the words from at on, and no entry.
WithBlock(t, new, done) ==
  [t EXCEPT !.data = [t.data EXCEPT ![t.got] = new], !.done = done]

Overwrites(t, homes, u, f, new, done) ==
  /\ Sound(u, homes, f) /\ u.ino = t.ino /\ u.used = t.used
  /\ u.done = done /\ u.data[t.got] = new
  /\ \A b \in t.used : b # t.got => u.data[b] = t.data[b]
  /\ \A i \in Nat : At(u.data, u.ino, i) = At(t.data, t.ino, i)

LEMMA RoundWrites ==
  ASSUME NEW t, NEW homes, NEW f \in File, NEW k \in Nat, Sound(t, homes, f),
         t.got \in t.used, homes[t.got] = <<f, k>>, NEW new \in BlockType,
         NEW done \in Nat
  PROVE  Overwrites(t, homes, WithBlock(t, new, done), f, new, done)
<1> DEFINE u == WithBlock(t, new, done)
           d == [t.data EXCEPT ![t.got] = new]
<1>1. t.got \in Blocks /\ t.data \in [Blocks -> BlockType] /\ t \in StoreType
      /\ t.used \subseteq Blocks
  BY DEF Sound, StoreType
<1>2. /\ d \in [Blocks -> BlockType] /\ d[t.got] = new
      /\ \A b \in t.used : b # t.got => d[b] = t.data[b]
  BY <1>1
<1>0. u = [t EXCEPT !.data = d, !.done = done]
  BY DEF WithBlock
<1> HIDE DEF d, u
<1>3. /\ u \in StoreType /\ u.ino = t.ino /\ u.used = t.used
      /\ u.done = done /\ u.data = d
  BY <1>0, <1>1, <1>2, Zenon DEF StoreType
<1>4. \A g \in File : <<f, k>> # <<g, -1>>
  OBVIOUS
<1>5. IndirectHomes(homes, d, t.used)
  <2> SUFFICES ASSUME NEW c \in t.used, NEW g \in File, homes[c] = <<g, -1>>,
                      NEW i \in 0 .. BlockWords - 1, d[c][i] # 0
               PROVE  /\ d[c][i] \in t.used
                      /\ homes[d[c][i]] = <<g, EXT2_NDIR_BLOCKS + i>>
    BY DEF IndirectHomes
  <2>1. d[c] = t.data[c]
    BY <1>2, <1>4
  <2> QED BY <2>1 DEF IndirectHomes, Sound
<1>6. \A i \in Nat : At(u.data, u.ino, i) = At(t.data, t.ino, i)
  <2> TAKE i \in Nat
  <2>1. CASE t.ino.i_block[EXT2_NDIR_BLOCKS] = 0
    BY <2>1, <1>3 DEF At
  <2>2. CASE t.ino.i_block[EXT2_NDIR_BLOCKS] # 0
    <3>1. /\ t.ino.i_block[EXT2_NDIR_BLOCKS] \in t.used
          /\ homes[t.ino.i_block[EXT2_NDIR_BLOCKS]] = <<f, -1>>
      BY <2>2, FilesConstants DEF InodeHomes, Slots, Sound
    <3>2. d[t.ino.i_block[EXT2_NDIR_BLOCKS]] =
            t.data[t.ino.i_block[EXT2_NDIR_BLOCKS]]
      BY <3>1, <1>2, <1>4
    <3> QED BY <3>2, <1>3 DEF At
  <2> QED BY <2>1, <2>2
<1>7. Sound(u, homes, f)
  BY <1>3, <1>5 DEF Sound
<1> QED BY <1>2, <1>3, <1>6, <1>7 DEF u, Overwrites

\* A round that fills len words of block k from at on.
RoundAt(p, n, done, at, k, off, len) ==
  /\ done \in 0 .. n /\ done # n /\ at = p + done /\ at \in Nat
  /\ k \in Nat /\ off \in 0 .. BlockWords - 1 /\ at = BlockWords * k + off
  /\ off = at % BlockWords
  /\ len \in 1 .. n - done /\ off + len <= BlockWords
  /\ len = n - done \/ (at + len) % BlockWords = 0

NewBlock(t, off, len, w) ==
  [i \in 0 .. BlockWords - 1 |->
     IF i \in off .. off + len - 1 THEN w ELSE t.data[t.got][i]]

\* A round writes no block but the one it has got: block k of the file.
LEMMA RoundKeeps ==
  ASSUME NEW st0, NEW home0, NEW t, NEW homes, NEW u, NEW f \in File,
         NEW k \in Nat, NEW new, NEW done, Kept(st0, home0, t, homes, f),
         homes[t.got] = <<f, k>>, Overwrites(t, homes, u, f, new, done)
  PROVE  Kept(st0, home0, u, homes, f)
<1>1. \A b \in st0.used :
        (\A i \in Int : home0[b] # <<f, i>>) => u.data[b] = st0.data[b]
  <2> SUFFICES ASSUME NEW b \in st0.used, \A i \in Int : home0[b] # <<f, i>>
               PROVE  u.data[b] = st0.data[b]
    OBVIOUS
  <2>1. b \in t.used /\ homes[b] = home0[b] /\ t.data[b] = st0.data[b]
    BY DEF Kept
  <2>2. homes[b] # <<f, k>>
    BY <2>1
  <2>3. b # t.got
    BY <2>2
  <2> QED BY <2>1, <2>3, Zenon DEF Overwrites
<1>2. \A b \in st0.used, j \in 0 .. BlockWords - 1 :
        home0[b] = <<f, -1>> /\ st0.data[b][j] # 0 => u.data[b][j] # 0
  <2>0. \A b \in st0.used, j \in 0 .. BlockWords - 1 :
          home0[b] = <<f, -1>> /\ st0.data[b][j] # 0 => t.data[b][j] # 0
    BY DEF Kept
  <2> SUFFICES ASSUME NEW b \in st0.used, home0[b] = <<f, -1>>
               PROVE  u.data[b] = t.data[b]
    BY <2>0
  <2>1. b \in t.used /\ homes[b] = <<f, -1>>
    BY DEF Kept
  <2>2. <<f, -1>> # <<f, k>>
    OBVIOUS
  <2>3. b # t.got
    BY <2>1, <2>2
  <2> QED BY <2>1, <2>3, Zenon DEF Overwrites
<1> QED BY <1>1, <1>2, Zenon DEF Kept, Overwrites

\* The word at q: a new one in the block that was got, else what was there.
LEMMA RoundWord ==
  ASSUME NEW t, NEW homes, NEW u, NEW f \in File, NEW k \in Nat, NEW new,
         NEW done, NEW q \in Nat, Sound(t, homes, f), homes[t.got] = <<f, k>>,
         At(t.data, t.ino, k) = t.got, Overwrites(t, homes, u, f, new, done),
         At(t.data, t.ino, q \div BlockWords) # 0
  PROVE  /\ q \div BlockWords = k => Word(u, q) = new[q % BlockWords]
         /\ q \div BlockWords # k => Word(u, q) = Word(t, q)
<1> DEFINE i == q \div BlockWords
<1>1. i \in Nat
  BY DivMod, FilesConstants, Zenon
<1>2. Word(u, q) = u.data[At(t.data, t.ino, i)][q % BlockWords]
  BY <1>1, Zenon DEF Word, Overwrites
<1>3. i = k => u.data[At(t.data, t.ino, i)] = new
  BY Zenon DEF Overwrites
<1>4. i # k => u.data[At(t.data, t.ino, i)] = t.data[At(t.data, t.ino, i)]
  <2> HAVE i # k
  <2> HIDE DEF i
  <2>1. At(t.data, t.ino, i) \in t.used /\ homes[At(t.data, t.ino, i)] = <<f, i>>
    BY <1>1, SoundAt, Zenon DEF i
  <2>2. <<f, i>> # <<f, k>>
    OBVIOUS
  <2>3. At(t.data, t.ino, i) # t.got
    BY <2>1, <2>2
  <2> QED BY <2>1, <2>3, Zenon DEF Overwrites
<1> QED BY <1>2, <1>3, <1>4, Zenon DEF Word

LEMMA RoundNumbers ==
  ASSUME NEW p \in Nat, NEW n \in Nat, NEW done, NEW at, NEW k, NEW off, NEW len,
         RoundAt(p, n, done, at, k, off, len)
  PROVE  /\ k \in Nat /\ off \in 0 .. BlockWords - 1 /\ at = BlockWords * k + off
         /\ off = at % BlockWords /\ at = p + done /\ done # n /\ done \in Nat
         /\ at \in Nat
<1>1. done \in Nat
  BY DEF RoundAt
<1> QED BY <1>1, Zenon DEF RoundAt

\* A position of block k below the size, or before the round: then the block is
\* one of those below the size, since a later round starts at a block of its own.
LEMMA RoundBelowSize ==
  ASSUME NEW p \in Nat, NEW n \in Nat, NEW done, NEW at, NEW k, NEW off, NEW len,
         NEW size \in Nat, NEW q \in Nat, RoundAt(p, n, done, at, k, off, len),
         p <= size, done = 0 \/ done = n \/ (p + done) % BlockWords = 0,
         q \div BlockWords = k, q < size \/ q < at
  PROVE  k < BlocksOfSize(size)
<1>1. /\ k \in Nat /\ off \in 0 .. BlockWords - 1 /\ at = BlockWords * k + off
      /\ off = at % BlockWords /\ at = p + done /\ done # n /\ done \in Nat
      /\ at \in Nat
  BY RoundNumbers
<1> DEFINE first == k * BlockWords
<1>2. first \in Nat /\ first = BlockWords * k
  BY <1>1, FilesConstants
<1>3. q >= first
  <2> DEFINE i == q \div BlockWords
             r == q % BlockWords
  <2>1. q = BlockWords * i + r /\ r \in 0 .. BlockWords - 1
    BY DivMod, FilesConstants, Zenon
  <2>2. i = k
    OBVIOUS
  <2> HIDE DEF i, r
  <2>3. q = BlockWords * k + r
    BY <2>1, <2>2, Zenon
  <2> HIDE DEF first
  <2> QED BY <1>2, <2>1, <2>3
<1>4. SUFFICES ASSUME ~ (k < BlocksOfSize(size)) PROVE FALSE
  OBVIOUS
<1>5. first >= size
  BY <1>1, <1>4, IndexBound, FilesConstants
<1> HIDE DEF first
<1>6. q < at
  BY <1>2, <1>3, <1>5
<1>7. off # 0
  BY <1>1, <1>2, <1>3, <1>6
<1>8. done = 0
  BY <1>1, <1>7, Zenon
<1>9. at = p
  BY <1>1, <1>8
<1> QED BY <1>2, <1>3, <1>5, <1>6, <1>9

\* A round from st on: block k is ready in t, one that was there below the size
\* being the same as before, and u is t with len words of the block filled.
Round(st, home, t, homes, u, f, p, n, w, at, k, off, len) ==
  /\ f \in File /\ p \in Nat /\ n \in Nat /\ k \in Nat
  /\ RoundAt(p, n, st.done, at, k, off, len)
  /\ Continues(st, home, t, homes, f, k)
  /\ Sound(t, homes, f) /\ homes[t.got] = <<f, k>> /\ t.got # 0
  /\ At(t.data, t.ino, k) = t.got
  /\ k < BlocksOfSize(st.ino.size) =>
       t.data = st.data /\ t.got = At(st.data, st.ino, k)
  /\ Overwrites(t, homes, u, f, NewBlock(t, off, len, w), st.done + len)

\* It ends at the end of its block, or where the write ends.
LEMMA RoundReaches ==
  ASSUME NEW st, NEW home, NEW t, NEW homes, NEW u, NEW f, NEW p, NEW n, NEW w,
         NEW at, NEW k, NEW off, NEW len,
         Round(st, home, t, homes, u, f, p, n, w, at, k, off, len),
         Reached(st, p, n)
  PROVE  Reached(u, p, n)
<1> DEFINE done == st.done
           new  == NewBlock(t, off, len, w)
<1>0. /\ Continues(st, home, t, homes, f, k) /\ At(t.data, t.ino, k) # 0
      /\ Overwrites(t, homes, u, f, new, done + len)
  BY Zenon DEF Round
<1>R. RoundAt(p, n, done, at, k, off, len) /\ p \in Nat /\ n \in Nat
  BY Zenon DEF Round
<1> HIDE DEF done, new
<1>1. u.done = done + len
  BY <1>0, Zenon DEF Overwrites
<1>2. /\ done + len \in 0 .. n /\ p + (done + len) = at + len
      /\ done + len = n \/ (at + len) % BlockWords = 0
  BY <1>R DEF RoundAt
<1>3. \A i \in Nat : i * BlockWords < at + len => At(u.data, u.ino, i) # 0
  <2> SUFFICES ASSUME NEW i \in Nat, i * BlockWords < at + len
               PROVE  At(t.data, t.ino, i) # 0
    BY <1>0, Zenon DEF Overwrites
  <2>1. /\ off \in 0 .. BlockWords - 1 /\ len \in Nat /\ off + len <= BlockWords
        /\ at = BlockWords * k + off /\ k \in Nat /\ at = p + done
    BY <1>R DEF RoundAt
  <2>2. i = k \/ i * BlockWords < at
    <3>1. i * BlockWords < BlockWords * k + off + len
      BY <2>1
    <3>2. i = k \/ i * BlockWords < BlockWords * k + off
      BY <2>1, <3>1, IndexFacts, Zenon
    <3> QED BY <2>1, <3>2, Zenon
  <2>3. i * BlockWords < at => At(st.data, st.ino, i) # 0
    BY <2>1, Zenon DEF Reached, done
  <2>4. i # k => At(t.data, t.ino, i) = At(st.data, st.ino, i)
    BY <1>0, Zenon DEF Continues
  <2> QED BY <1>0, <2>2, <2>3, <2>4, Zenon
<1>4. /\ u.done \in 0 .. n /\ p + u.done = at + len
      /\ u.done = n \/ (p + u.done) % BlockWords = 0
  BY <1>1, <1>2
<1>5. \A i \in Nat : i * BlockWords < p + u.done => At(u.data, u.ino, i) # 0
  BY <1>3, <1>4, Zenon
<1> QED BY <1>4, <1>5, Zenon DEF Reached

LEMMA RoundSizes ==
  ASSUME NEW st, NEW home, NEW t, NEW homes, NEW u, NEW f, NEW p, NEW n, NEW w,
         NEW at, NEW k, NEW off, NEW len,
         Round(st, home, t, homes, u, f, p, n, w, at, k, off, len)
  PROVE  /\ at \in Nat /\ k \in Nat /\ off \in 0 .. BlockWords - 1
         /\ at = BlockWords * k + off /\ len \in Nat /\ off + len <= BlockWords
         /\ p \in Nat /\ n \in Nat /\ p <= at /\ p + st.done = at
         /\ p + u.done = at + len
<1> DEFINE done == st.done
<1>0. u.done = done + len
  BY Zenon DEF Round, Overwrites
<1>1. RoundAt(p, n, done, at, k, off, len) /\ p \in Nat /\ n \in Nat
  BY Zenon DEF Round
<1> HIDE DEF done
<1>2. /\ at \in Nat /\ k \in Nat /\ off \in 0 .. BlockWords - 1
      /\ at = BlockWords * k + off /\ off + len <= BlockWords /\ p + done = at
  BY <1>1, Zenon DEF RoundAt
<1>3. len \in Nat /\ p <= at /\ p + (done + len) = at + len
  BY <1>1 DEF RoundAt
<1> QED BY <1>0, <1>1, <1>2, <1>3, Zenon DEF done

\* A word that the round writes.
LEMMA RoundWrittenWord ==
  ASSUME NEW st, NEW home, NEW t, NEW homes, NEW u, NEW f, NEW p, NEW n, NEW w,
         NEW at, NEW k, NEW off, NEW len, NEW q \in Nat,
         Round(st, home, t, homes, u, f, p, n, w, at, k, off, len),
         q \in at .. at + len - 1
  PROVE  Word(u, q) = w
<1> DEFINE r == q % BlockWords
<1>1. /\ at \in Nat /\ k \in Nat /\ off \in 0 .. BlockWords - 1
      /\ at = BlockWords * k + off /\ len \in Nat /\ off + len <= BlockWords
  BY RoundSizes
<1>2. q \div BlockWords = k /\ r \in off .. off + len - 1
  BY <1>1, RoundPositions, Zenon
<1>3. r \in 0 .. BlockWords - 1
  BY DivMod, FilesConstants, Zenon
<1>4. Word(u, q) = NewBlock(t, off, len, w)[r]
  <2>1. /\ f \in File /\ Sound(t, homes, f) /\ homes[t.got] = <<f, k>>
        /\ At(t.data, t.ino, k) = t.got /\ t.got # 0
        /\ Overwrites(t, homes, u, f, NewBlock(t, off, len, w), st.done + len)
    BY Zenon DEF Round
  <2>2. At(t.data, t.ino, q \div BlockWords) # 0
    BY <1>2, <2>1, Zenon
  <2> QED BY <1>1, <1>2, <2>1, <2>2, RoundWord
<1> HIDE DEF r
<1> QED BY <1>2, <1>3, <1>4, Zenon DEF NewBlock

\* Word q is one that the round leaves alone: it is of a block that was there,
\* and of the round's block only if that is below the size.
LeftAlone(st, at, k, len, q) ==
  /\ q \in Nat /\ q \notin at .. at + len - 1
  /\ At(st.data, st.ino, q \div BlockWords) # 0
  /\ q \div BlockWords = k => k < BlocksOfSize(st.ino.size)

SameWord(st, u, q) == Word(u, q) = Word(st, q)

LEMMA RoundOtherWord ==
  ASSUME NEW st, NEW home, NEW t, NEW homes, NEW u, NEW f, NEW p, NEW n, NEW w,
         NEW at, NEW k, NEW off, NEW len, NEW q,
         Round(st, home, t, homes, u, f, p, n, w, at, k, off, len),
         Sound(st, home, f), LeftAlone(st, at, k, len, q)
  PROVE  SameWord(st, u, q)
<1> SUFFICES ASSUME q \in Nat, q \notin at .. at + len - 1,
                    At(st.data, st.ino, q \div BlockWords) # 0,
                    q \div BlockWords = k => k < BlocksOfSize(st.ino.size)
             PROVE  Word(u, q) = Word(st, q)
  BY Zenon DEF LeftAlone, SameWord
<1> DEFINE i == q \div BlockWords
           r == q % BlockWords
<1>1. /\ at \in Nat /\ k \in Nat /\ off \in 0 .. BlockWords - 1
      /\ at = BlockWords * k + off /\ len \in Nat /\ off + len <= BlockWords
  BY RoundSizes
<1>2. /\ f \in File /\ Sound(t, homes, f) /\ homes[t.got] = <<f, k>>
      /\ At(t.data, t.ino, k) = t.got /\ t.got # 0
      /\ Continues(st, home, t, homes, f, k)
      /\ Overwrites(t, homes, u, f, NewBlock(t, off, len, w), st.done + len)
      /\ k < BlocksOfSize(st.ino.size) =>
           t.data = st.data /\ t.got = At(st.data, st.ino, k)
  BY Zenon DEF Round
<1>3. i \in Nat /\ r \in 0 .. BlockWords - 1
  BY DivMod, FilesConstants, Zenon
<1>4. CASE i # k
  <2>1. At(t.data, t.ino, i) = At(st.data, st.ino, i)
    BY <1>2, <1>3, <1>4, Zenon DEF Continues
  <2>2. Word(u, q) = Word(t, q)
    BY <1>1, <1>2, <1>4, <2>1, RoundWord
  <2>3. Word(t, q) = Word(st, q)
    BY <1>1, <1>2, <1>4, WordsKept
  <2> QED BY <2>2, <2>3, Zenon
<1>5. CASE i = k
  <2>1. ~ (r \in off .. off + len - 1)
    BY <1>1, <1>5, RoundPositions, Zenon
  <2>2. Word(u, q) = NewBlock(t, off, len, w)[r]
    BY <1>1, <1>2, <1>5, RoundWord
  <2>3. NewBlock(t, off, len, w)[r] = t.data[t.got][r]
    BY <1>3, <2>1, Zenon DEF NewBlock
  <2>4. Word(st, q) = t.data[t.got][r]
    BY <1>2, <1>5, Zenon DEF Word
  <2> QED BY <2>2, <2>3, <2>4, Zenon
<1> QED BY <1>4, <1>5, Zenon

\* So the words up to the end of the round are what they should be.
LEMMA RoundFills ==
  ASSUME NEW st0, NEW home0, NEW st, NEW home, NEW t, NEW homes, NEW u,
         NEW f \in File, NEW p \in Nat, NEW n \in Nat, NEW w, NEW at, NEW k,
         NEW off, NEW len, st0 \in StoreType, Filled(st0.data, st0.ino),
         p <= st0.ino.size, Written(st0, home0, st, home, f, p, n, w),
         Round(st, home, t, homes, u, f, p, n, w, at, k, off, len)
  PROVE  Filling(st0, u, p, w)
<1>1. /\ Kept(st0, home0, st, home, f) /\ Reached(st, p, n)
      /\ Filling(st0, st, p, w) /\ Sound(st, home, f)
      /\ st.ino.size = st0.ino.size
  BY Zenon DEF Written, Kept
<1>2. st0.ino.size \in Nat
  BY DEF StoreType, InodeType
<1>3. /\ at \in Nat /\ p <= at /\ len \in Nat /\ p + st.done = at
      /\ p + u.done = at + len
  BY RoundSizes
<1>E. FillingTo(st0, st, p, w, at)
  BY <1>1, <1>3, Zenon DEF Filling
<1> SUFFICES FillingTo(st0, u, p, w, at + len)
  BY <1>3, Zenon DEF Filling
<1> SUFFICES ASSUME NEW q \in Nat, q < st0.ino.size \/ q < at + len
             PROVE  Word(u, q) = IF q \in p .. (at + len) - 1 THEN w ELSE Word(st0, q)
  BY Zenon DEF FillingTo
<1>4. CASE q \in at .. at + len - 1
  <2>1. Word(u, q) = w
    BY <1>4, RoundWrittenWord
  <2>2. q \in p .. (at + len) - 1
    BY <1>3, <1>4
  <2> QED BY <2>1, <2>2, Zenon
<1>5. CASE q \notin at .. at + len - 1
  <2>1. q < st0.ino.size \/ q < at
    BY <1>3, <1>5
  <2>2. q \in p .. at - 1 <=> q \in p .. (at + len) - 1
    BY <1>3, <1>5
  <2>3. Word(st, q) = IF q \in p .. at - 1 THEN w ELSE Word(st0, q)
    BY <1>E, <2>1, Zenon DEF FillingTo
  <2>4. At(st.data, st.ino, q \div BlockWords) # 0
    BY <1>1, <1>3, <2>1, PositionsFilled, Zenon
  <2>5. q \div BlockWords = k => k < BlocksOfSize(st.ino.size)
    <3>1. st.done = 0 \/ st.done = n \/ (p + st.done) % BlockWords = 0
      BY <1>1, Zenon DEF Reached
    <3>2. RoundAt(p, n, st.done, at, k, off, len)
      BY Zenon DEF Round
    <3>3. q \div BlockWords = k => k < BlocksOfSize(st0.ino.size)
      BY <1>2, <2>1, <3>1, <3>2, RoundBelowSize
    <3> QED BY <1>1, <3>3, Zenon
  <2>6. Word(u, q) = Word(st, q)
    <3>1. Sound(st, home, f)
      BY <1>1, Zenon
    <3>2. LeftAlone(st, at, k, len, q)
      BY <1>5, <2>4, <2>5, Zenon DEF LeftAlone
    <3>3. SameWord(st, u, q)
      BY <3>1, <3>2, RoundOtherWord, Zenon
    <3> QED BY <3>3, Zenon DEF SameWord
  <2> QED BY <2>2, <2>3, <2>6, Zenon
<1> QED BY <1>4, <1>5, Zenon

\* A round with a block.
LEMMA RoundReady ==
  ASSUME NEW st0, NEW home0, NEW st, NEW home, NEW f \in File, NEW p \in Nat,
         NEW n \in Nat, NEW w \in Nat, st0 \in StoreType,
         Filled(st0.data, st0.ino), p <= st0.ino.size,
         Written(st0, home0, st, home, f, p, n, w),
         NEW at, NEW k, NEW off, NEW len, NEW t, NEW homes,
         RoundAt(p, n, st.done, at, k, off, len),
         Continues(st, home, t, homes, f, k), Ready(st, t, homes, f, k)
  PROVE  Written(st0, home0,
                 WithBlock(t, NewBlock(t, off, len, w), st.done + len),
                 homes, f, p, n, w)
<1> DEFINE new == NewBlock(t, off, len, w)
           u   == WithBlock(t, new, st.done + len)
<1>1. k \in Nat /\ st.done + len \in Nat
  BY DEF RoundAt
<1>2. /\ Sound(t, homes, f) /\ t.got \in t.used /\ homes[t.got] = <<f, k>>
      /\ At(t.data, t.ino, k) = t.got
  BY Zenon DEF Ready, Continues
<1>3. t.got \in Blocks /\ t.data[t.got] \in BlockType
  BY <1>2, Zenon DEF Sound, StoreType
<1>4. t.got # 0
  BY <1>3 DEF Blocks
<1>5. new \in BlockType
  BY <1>3, Zenon DEF BlockType, NewBlock
<1>6. Overwrites(t, homes, u, f, new, st.done + len)
  <2> HIDE DEF new
  <2> QED BY <1>1, <1>2, <1>5, RoundWrites, Zenon
<1>7. Round(st, home, t, homes, u, f, p, n, w, at, k, off, len)
  BY <1>1, <1>2, <1>4, <1>6, Zenon DEF Round, Ready
<1> HIDE DEF new, u
<1>8. /\ Kept(st0, home0, st, home, f) /\ Reached(st, p, n)
      /\ st.ino.size = st0.ino.size
  BY Zenon DEF Written, Kept
<1>9. Kept(st0, home0, t, homes, f)
  <2>1. \/ ~ (k < BlocksOfSize(st0.ino.size))
        \/ At(t.data, t.ino, k) = At(st.data, st.ino, k)
    BY <1>2, <1>8, Zenon DEF Ready
  <2> QED BY <1>1, <1>8, <2>1, KeptOn, Zenon
<1>10. Kept(st0, home0, u, homes, f)
  BY <1>1, <1>2, <1>6, <1>9, RoundKeeps, Zenon
<1>11. Reached(u, p, n)
  <2>1. Reached(st, p, n)
    BY <1>8, Zenon
  <2> QED BY <1>7, <2>1, RoundReaches, Zenon
<1>12. Filling(st0, u, p, w)
  BY <1>7, RoundFills, Zenon
<1> QED BY <1>10, <1>11, <1>12, Zenon DEF Written, u, new

\* One round, with or without a block.
LEMMA WriteBlockKeeps ==
  ASSUME NEW st0, NEW home0, NEW st, NEW home, NEW f \in File, NEW p \in Nat,
         NEW n \in Nat, NEW w \in Nat, st0 \in StoreType,
         Filled(st0.data, st0.ino), p <= st0.ino.size,
         Written(st0, home0, st, home, f, p, n, w)
  PROVE  \E homes : Written(st0, home0, WriteBlock(st, p, n, w), homes, f, p, n, w)
<1> DEFINE u   == WriteBlock(st, p, n, w)
           at  == p + st.done
           off == at % BlockWords
           len == Min({BlockWords - off, n - st.done})
           k   == at \div BlockWords
           t   == BlockFor(st, at)
           new == NewBlock(t, off, len, w)
<1>1. u = IF st.done = n \/ ~ st.ok THEN st
          ELSE IF t.got = 0 THEN [t EXCEPT !.ok = FALSE]
          ELSE [t EXCEPT !.data[t.got] = new, !.done = @ + len]
  BY Zenon DEF WriteBlock, NewBlock
<1>2. CASE st.done = n \/ ~ st.ok
  BY <1>1, <1>2
<1>3. CASE ~ (st.done = n \/ ~ st.ok)
  <2>1. st.done \in 0 .. n /\ at \in Nat /\ n - st.done \in Nat \ {0}
    <3>1. st.done \in 0 .. n /\ st.done # n
      BY <1>3, Zenon DEF Written, Reached
    <3> QED BY <3>1
  <2>2. RoundAt(p, n, st.done, at, k, off, len)
    <3>1. /\ k \in Nat /\ off \in 0 .. BlockWords - 1 /\ at = BlockWords * k + off
          /\ len \in 1 .. n - st.done /\ off + len <= BlockWords
          /\ len = n - st.done \/ (at + len) % BlockWords = 0
      <4> HIDE DEF at
      <4> QED BY <2>1, RoundLength, Zenon
    <3>2. at = p + st.done /\ off = at % BlockWords
      OBVIOUS
    <3> HIDE DEF at, off, len, k
    <3> QED BY <1>3, <2>1, <3>1, <3>2 DEF RoundAt
  <2>3. k \in Nat
    BY <2>2, Zenon DEF RoundAt
  <2>4. Sound(st, home, f) /\ Filled(st.data, st.ino)
    BY StillFilled DEF Written, Kept
  <2>5. PICK homes : /\ Continues(st, home, t, homes, f, k)
                     /\ Ready(st, t, homes, f, k) \/ Missing(st, t, k)
    <3>1. k = at \div BlockWords
      OBVIOUS
    <3> HIDE DEF k, at
    <3> QED BY <2>1, <2>3, <2>4, <3>1, BlockForContinues, Zenon DEF t
  <2> HIDE DEF u, at, off, len, k, t, new
  <2>6. CASE Missing(st, t, k)
    <3>1. u = [t EXCEPT !.ok = FALSE]
      BY <1>1, <1>3, <2>6 DEF Missing
    <3>2. Written(st0, home0, u, homes, f, p, n, w)
      BY <2>3, <2>5, <2>6, <3>1, RoundMissing
    <3> QED BY <3>2 DEF u
  <2>7. CASE Ready(st, t, homes, f, k)
    <3>1. t.got # 0 /\ t.got \in Blocks /\ t \in StoreType /\ t.done = st.done
      <4>1. t.got \in t.used /\ Sound(t, homes, f) /\ t.done = st.done
        BY <2>5, <2>7 DEF Ready, Continues
      <4>2. t.got \in Blocks /\ t \in StoreType
        BY <4>1, Zenon DEF Sound, StoreType
      <4> QED BY <4>1, <4>2 DEF Blocks
    <3>2. u = [t EXCEPT !.data[t.got] = new, !.done = @ + len]
      BY <1>1, <1>3, <3>1
    <3>3. u = WithBlock(t, new, st.done + len)
      BY <3>1, <3>2 DEF StoreType, WithBlock
    <3>4. Written(st0, home0, WithBlock(t, new, st.done + len), homes, f, p, n, w)
      BY <2>2, <2>5, <2>7, RoundReady, Zenon DEF new
    <3> QED BY <3>3, <3>4 DEF u
  <2> QED BY <2>5, <2>6, <2>7, Zenon
<1> QED BY <1>2, <1>3, Zenon

\* The loop of ext2_write, however many rounds it takes.
LEMMA WriteLoopWrites ==
  ASSUME NEW st, NEW home, NEW f \in File, NEW p \in Nat, NEW n \in Nat,
         NEW w \in Nat, Sound(st, home, f), Filled(st.data, st.ino),
         p <= st.ino.size, st.done = 0
  PROVE  \E homes : Written(st, home, WriteLoop(st, p, n, w), homes, f, p, n, w)
<1> DEFINE r == Rounds(st, p, n, w)
           Fine(i) == \E homes : Written(st, home, r[i], homes, f, p, n, w)
           bad == {i \in 0 .. n : ~ Fine(i)}
<1>1. r[0] = st /\ \A i \in 1 .. n : r[i] = WriteBlock(r[i - 1], p, n, w)
  <2>1. r = [i \in 0 .. n |-> IF i = 0 THEN st ELSE WriteBlock(r[i - 1], p, n, w)]
    BY RoundsEquation
  <2> HIDE DEF r
  <2> QED BY <2>1
<1> HIDE DEF r
<1>2. Fine(0)
  <2>1. Kept(st, home, st, home, f)
    BY DEF Kept
  <2>2. Reached(st, p, n)
    <3> SUFFICES ASSUME NEW i \in Nat, i * BlockWords < p
                 PROVE  At(st.data, st.ino, i) # 0
      BY DEF Reached
    <3>1. st.ino.size \in Nat
      BY DEF Sound, StoreType, InodeType
    <3>2. i * BlockWords < st.ino.size
      BY <3>1, FilesConstants
    <3>3. i < BlocksOfSize(st.ino.size) /\ BlocksOfSize(st.ino.size) \in Int
      BY <3>1, <3>2, IndexBound, FilesConstants DEF BlocksOfSize
    <3> QED BY <3>3 DEF Filled
  <2>3. Filling(st, st, p, w)
    BY DEF Filling, FillingTo
  <2> QED BY <1>1, <2>1, <2>2, <2>3 DEF Written
<1>3. \A i \in 1 .. n : Fine(i - 1) => Fine(i)
  <2> TAKE i \in 1 .. n
  <2> HAVE Fine(i - 1)
  <2>1. PICK homes : Written(st, home, r[i - 1], homes, f, p, n, w)
    OBVIOUS
  <2>2. st \in StoreType
    BY DEF Sound
  <2>3. \E homes2 : Written(st, home, WriteBlock(r[i - 1], p, n, w), homes2,
                            f, p, n, w)
    BY <2>1, <2>2, WriteBlockKeeps
  <2> QED BY <1>1, <2>3
<1>4. bad = {}
  <2> SUFFICES ASSUME bad # {} PROVE FALSE
    OBVIOUS
  <2>1. bad \in SUBSET Nat
    OBVIOUS
  <2>2. PICK i \in bad : \A j \in bad : i <= j
    <3> HIDE DEF bad
    <3> QED BY <2>1, LeastNumber
  <2> HIDE DEF Fine
  <2>3. i # 0 /\ i \in 1 .. n
    BY <1>2
  <2>4. i - 1 \in 0 .. n /\ i - 1 \notin bad
    BY <2>2, <2>3
  <2> QED BY <1>3, <2>3, <2>4
<1>5. Fine(n)
  <2> HIDE DEF Fine
  <2> QED BY <1>4
<1> QED BY <1>5 DEF WriteLoop, r
=============================================================================
