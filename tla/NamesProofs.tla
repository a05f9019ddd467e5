----------------------------- MODULE NamesProofs ----------------------------
(***************************************************************************)
(* The directories of the file system and the tree of names.               *)
(*                                                                         *)
(* Directory: the entries of a block are a chain of units, T, from 0 to    *)
(* the end of the block.  A scan visits T (VisitedChain, by the greatest   *)
(* unit at which it would not), so what adding, splitting and merging do   *)
(* to the entries found is what they do to T.                              *)
(*                                                                         *)
(* Namespace: every number of inodes and every set of names, however many  *)
(* calls fail or are cut off, and wherever.                                *)
(***************************************************************************)
EXTENDS Directory, Namespace, FiniteSetTheorems, WellFoundedInduction, TLAPS

-----------------------------------------------------------------------------
(* Numbers, units and scans of a block *)

\* A set of numbers that is not empty has a least element.
LEMMA LeastOf ==
  ASSUME NEW S \in SUBSET Nat, S # {}
  PROVE  \E n \in S : \A m \in S : n <= m
<1>1. PICK n \in S : \A m \in S : ~ (<<m, n>> \in OpToRel(<, Nat))
  BY NatLessThanWellFounded, WFMin
<1>2. \A m, k \in Nat : m < k => <<m, k>> \in OpToRel(<, Nat)
  BY Zenon DEF OpToRel
<1>3. \A m, k \in Nat : ~ (m < k) => k <= m
  OBVIOUS
<1> QED BY <1>1, <1>2, <1>3, Zenon

\* Units are bounded, so the last unit of a set can be taken first.
LEMMA GreatestUnit ==
  ASSUME NEW S \in SUBSET Units, S # {}
  PROVE  \E x \in S : \A y \in S : y <= x
<1> DEFINE R == {BlockUnits - u : u \in S}
<1>1. R \in SUBSET Nat /\ R # {}
  <2>1. \A u \in S : BlockUnits - u \in Nat
    BY DirectoryConstants DEF Units
  <2>2. PICK u : u \in S
    OBVIOUS
  <2> QED BY <2>1, <2>2
<1>2. PICK r \in R : \A q \in R : r <= q
  <2> HIDE DEF R
  <2> QED BY <1>1, LeastOf
<1>3. PICK x \in S : r = BlockUnits - x
  BY <1>2
<1>4. \A y \in S : BlockUnits - x <= BlockUnits - y
  BY <1>2, <1>3
<1>5. \A y \in S : y <= x
  BY <1>4, DirectoryConstants DEF Units
<1> QED BY <1>3, <1>5

LEMMA MaxUnit ==
  ASSUME NEW S \in SUBSET Units, S # {}
  PROVE  Max(S) \in S /\ \A y \in S : y <= Max(S)
<1>1. \E x \in S : \A y \in S : x >= y
  BY GreatestUnit, DirectoryConstants DEF Units
<1> QED BY <1>1 DEF Max

LEMMA MinNumber ==
  ASSUME NEW S \in SUBSET Nat, S # {}
  PROVE  Min(S) \in S
<1>1. \E x \in S : \A y \in S : x <= y
  BY LeastOf
<1> QED BY <1>1, Zenon DEF Min

-----------------------------------------------------------------------------
(* The scan of a block: the recursive function of Visited has its equation, *)
(* since every step of the scan goes towards the end of the block.           *)

BlockOf == [Units -> DirEntry]

Look(m, f, u) ==
  IF u >= BlockUnits THEN {}
  ELSE IF m[u].rec_len = 0 THEN {u} ELSE {u} \cup f[u + m[u].rec_len]

Scan(m) == CHOOSE f : f = [u \in Nat |-> Look(m, f, u)]

\* f is right for the last j units.
Solves(m, f, j) ==
  f = [u \in Nat |-> f[u]]
  /\ \A u \in Nat : u + j >= BlockUnits => f[u] = Look(m, f, u)

LEMMA SolvesMore ==
  ASSUME NEW m \in BlockOf, NEW f, NEW j \in Nat, Solves(m, f, j)
  PROVE  \E g : Solves(m, g, j + 1)
<1> DEFINE g == [u \in Nat |-> IF u + j + 1 = BlockUnits THEN Look(m, f, u) ELSE f[u]]
<1> SUFFICES ASSUME NEW u \in Nat, u + j + 1 >= BlockUnits
             PROVE  g[u] = Look(m, g, u)
  <2>1. g = [u \in Nat |-> g[u]]
    OBVIOUS
  <2> HIDE DEF g
  <2>2. (\A u \in Nat : u + j + 1 >= BlockUnits => g[u] = Look(m, g, u))
          => Solves(m, g, j + 1)
    BY <2>1, DirectoryConstants DEF Solves
  <2> QED BY <2>2
<1>1. g[u] = Look(m, f, u)
  <2>1. CASE u + j + 1 = BlockUnits
    BY <2>1
  <2>2. CASE u + j + 1 # BlockUnits
    <3>1. u + j >= BlockUnits
      BY <2>2, DirectoryConstants
    <3> QED BY <2>2, <3>1 DEF Solves
  <2> QED BY <2>1, <2>2
<1>2. Look(m, g, u) = Look(m, f, u)
  <2>1. CASE u >= BlockUnits
    BY <2>1 DEF Look
  <2>2. CASE ~ (u >= BlockUnits)
    <3>1. u \in Units /\ m[u].rec_len \in Nat
      BY <2>2, DirectoryConstants DEF Units, BlockOf, DirEntry
    <3> DEFINE v == u + m[u].rec_len
    <3>2. m[u].rec_len # 0 => v \in Nat /\ v + j + 1 # BlockUnits
      BY <3>1, DirectoryConstants
    <3>3. m[u].rec_len # 0 => g[v] = f[v]
      BY <3>2
    <3> QED BY <3>3, Zenon DEF Look
  <2> QED BY <2>1, <2>2
<1> QED BY <1>1, <1>2

LEMMA ScanEquation ==
  ASSUME NEW m \in BlockOf
  PROVE  /\ Visited(m) = Scan(m)[0]
         /\ \A u \in Nat : Scan(m)[u] = Look(m, Scan(m), u)
<1> DEFINE bad == {j \in Nat : ~ \E f : Solves(m, f, j)}
<1>1. 0 \notin bad
  <2>1. Solves(m, [u \in Nat |-> {}], 0)
    BY DEF Solves, Look
  <2> QED BY <2>1
<1>2. bad = {}
  <2> SUFFICES ASSUME bad # {} PROVE FALSE
    OBVIOUS
  <2>1. PICK j \in bad : \A i \in bad : j <= i
    <3>1. bad \in SUBSET Nat
      OBVIOUS
    <3> HIDE DEF bad
    <3> QED BY <3>1, LeastOf
  <2>2. j - 1 \in Nat /\ j - 1 \notin bad /\ (j - 1) + 1 = j
    BY <1>1, <2>1
  <2>3. PICK f : Solves(m, f, j - 1)
    BY <2>2
  <2>4. \E g : Solves(m, g, j)
    BY <2>2, <2>3, SolvesMore
  <2> QED BY <2>4
<1>3. PICK f : Solves(m, f, BlockUnits)
  BY <1>2, DirectoryConstants
<1>4. f = [u \in Nat |-> Look(m, f, u)]
  <2>1. \A u \in Nat : u + BlockUnits >= BlockUnits
    BY DirectoryConstants
  <2> QED BY <1>3, <2>1 DEF Solves
<1>5. Scan(m) = [u \in Nat |-> Look(m, Scan(m), u)]
  BY <1>4 DEF Scan
<1>6. Visited(m) = Scan(m)[0]
  BY DEF Visited, Scan, Look
<1> QED BY <1>5, <1>6
LEMMA VisitedUnits ==
  ASSUME NEW m \in BlockOf
  PROVE  Visited(m) \subseteq Units
<1> DEFINE bad == {u \in Units : ~ (Scan(m)[u] \subseteq Units)}
<1>1. \A u \in Nat : u \notin bad => Scan(m)[u] \subseteq Units
  <2> TAKE u \in Nat
  <2>1. CASE u \in Units
    BY <2>1
  <2>2. CASE u \notin Units
    <3>1. u >= BlockUnits
      BY <2>2, DirectoryConstants DEF Units
    <3>2. Scan(m)[u] = {}
      BY <3>1, ScanEquation, Zenon DEF Look
    <3> QED BY <3>2
  <2> QED BY <2>1, <2>2
<1>2. bad = {}
  <2> SUFFICES ASSUME bad # {} PROVE FALSE
    OBVIOUS
  <2>1. PICK u \in bad : \A v \in bad : v <= u
    <3>1. bad \in SUBSET Units
      OBVIOUS
    <3> HIDE DEF bad
    <3> QED BY <3>1, GreatestUnit
  <2>2. u \in Units /\ u \in Nat /\ ~ (u >= BlockUnits) /\ m[u].rec_len \in Nat
    BY DirectoryConstants DEF Units, BlockOf, DirEntry
  <2> DEFINE v == u + m[u].rec_len
  <2>3. m[u].rec_len # 0 => v \in Nat /\ v \notin bad
    <3>1. m[u].rec_len # 0 => v \in Nat /\ ~ (v <= u)
      BY <2>2
    <3> HIDE DEF bad, v
    <3> QED BY <2>1, <3>1
  <2>4. m[u].rec_len # 0 => Scan(m)[v] \subseteq Units
    <3> HIDE DEF bad, v
    <3> QED BY <1>1, <2>3
  <2>5. Scan(m)[u] = IF m[u].rec_len = 0 THEN {u} ELSE {u} \cup Scan(m)[v]
    BY <2>2, ScanEquation, Zenon DEF Look
  <2> QED BY <2>2, <2>4, <2>5
<1> QED BY <1>1, <1>2, ScanEquation

\* The entries of a block that starts at the units T.
ChainOf(m, T) ==
  /\ T \subseteq Units /\ 0 \in T
  /\ \A u \in T :
       /\ m[u].rec_len > 0
       /\ u + m[u].rec_len = BlockUnits \/ u + m[u].rec_len \in T
       /\ \A v \in T : v > u => v >= u + m[u].rec_len

LEMMA VisitedChain ==
  ASSUME NEW m \in BlockOf, NEW T, ChainOf(m, T)
  PROVE  Visited(m) = T
<1> DEFINE From(u) == {v \in T : v >= u}
           bad == {u \in T : Scan(m)[u] # From(u)}
<1>1. bad = {}
  <2> SUFFICES ASSUME bad # {} PROVE FALSE
    OBVIOUS
  <2>1. PICK u \in bad : \A v \in bad : v <= u
    <3>1. bad \in SUBSET Units
      BY DEF ChainOf
    <3> HIDE DEF bad
    <3> QED BY <3>1, GreatestUnit
  <2>2. u \in Units /\ u \in Nat /\ ~ (u >= BlockUnits) /\ m[u].rec_len \in Nat
        /\ u \in T /\ m[u].rec_len > 0
    BY DirectoryConstants DEF Units, BlockOf, DirEntry, ChainOf
  <2> DEFINE v == u + m[u].rec_len
  <2>3. v \in Nat /\ v > u /\ (v = BlockUnits \/ v \in T)
    BY <2>2 DEF ChainOf
  <2>4. \A w \in T : w > u => w >= v
    BY <2>2 DEF ChainOf
  <2>5. Scan(m)[u] = {u} \cup Scan(m)[v]
    <3>1. Scan(m)[u] = Look(m, Scan(m), u)
      BY <2>2, ScanEquation
    <3> HIDE DEF bad
    <3> QED BY <2>2, <3>1 DEF Look
  <2>T. \A w \in T : w \in Nat /\ w < BlockUnits
    BY DirectoryConstants DEF ChainOf, Units
  <2> HIDE DEF v
  <2>6. Scan(m)[v] = From(v)
    <3>1. CASE v = BlockUnits
      <4>1. Scan(m)[v] = {}
        <5>1. Scan(m)[v] = Look(m, Scan(m), v) /\ v >= BlockUnits
          BY <2>3, <3>1, ScanEquation, DirectoryConstants
        <5> QED BY <5>1 DEF Look
      <4>2. From(v) = {}
        BY <2>T, <3>1, DirectoryConstants
      <4> QED BY <4>1, <4>2
    <3>2. CASE v \in T
      BY <2>1, <2>2, <2>3, <3>2
    <3> QED BY <2>3, <3>1, <3>2
  <2>7. From(u) = {u} \cup From(v)
    <3> HIDE DEF bad
    <3>1. \A w \in T : w >= u <=> w = u \/ w >= v
      BY <2>2, <2>3, <2>4, <2>T
    <3> QED BY <2>2, <3>1, Zenon
  <2> QED BY <2>5, <2>6, <2>7
<1>2. Scan(m)[0] = From(0)
  BY <1>1 DEF ChainOf
<1>3. From(0) = T
  <2>1. \A w \in T : w >= 0
    BY DirectoryConstants DEF ChainOf, Units
  <2> QED BY <2>1
<1> QED BY <1>2, <1>3, ScanEquation

\* A block that is tiled by the entries at T.
Tidy(m, T) ==
  /\ m \in BlockOf /\ ChainOf(m, T)
  /\ \A u \in T : m[u].rec_len >= EntrySize(m[u].name) \/ m[u].name = Dot

\* The entries among them that have name n.
NamedIn(m, T, n) == {u \in T : m[u].inode # 0 /\ m[u].name = n}

LEMMA TidyVisited ==
  ASSUME NEW m, NEW T, Tidy(m, T)
  PROVE  Visited(m) = T /\ \A n : Matches(m, n) = NamedIn(m, T, n)
<1>1. Visited(m) = T
  BY VisitedChain DEF Tidy
<1>2. \A u \in T : m[u].rec_len # 0
  BY DEF Tidy, ChainOf
<1> QED BY <1>1, <1>2 DEF Matches, NamedIn

LEMMA Sizes ==
  /\ \A n : EntrySize(n) \in Nat /\ EntrySize(n) > 0
  /\ \A n \in FileNames : EntrySize(n) <= 6
BY DirectoryConstants DEF EntrySize
-----------------------------------------------------------------------------
(* What adding and removing do to one block. *)

\* The block gains an entry for n, at a, and no other.
Gains(m, T, mm, TT, n, a) ==
  /\ Tidy(mm, TT) /\ a \in Units
  /\ NamedIn(mm, TT, n) = NamedIn(m, T, n) \cup {a}
  /\ \A p \in FileNames : p # n => NamedIn(mm, TT, p) = NamedIn(m, T, p)

\* It loses the entry at u.
Loses(m, T, mm, TT, u) ==
  /\ Tidy(mm, TT)
  /\ \A p \in FileNames : NamedIn(mm, TT, p) = NamedIn(m, T, p) \ {u}

LEMMA PutEntry ==
  ASSUME NEW m \in BlockOf, NEW u \in Nat, NEW n \in FileNames, NEW rec \in Nat
  PROVE  /\ Put(m, u, n, rec) \in BlockOf
         /\ u \in Units =>
              Put(m, u, n, rec)[u] = [inode |-> 1, rec_len |-> rec, name |-> n]
         /\ \A v \in Units : v < u \/ v >= u + EntrySize(n) =>
              Put(m, u, n, rec)[v] = m[v]
<1> DEFINE e == [inode |-> 1, rec_len |-> rec, name |-> n]
<1>1. e \in DirEntry /\ NameBytes \in DirEntry
  BY DirectoryConstants DEF DirEntry, NameBytes
<1>2. \A v \in Units : m[v] \in DirEntry
  BY DEF BlockOf
<1> HIDE DEF e
<1>3. Put(m, u, n, rec) =
        [v \in Units |-> IF v = u THEN e
                         ELSE IF v \in u + 1 .. u + EntrySize(n) - 1
                         THEN NameBytes ELSE m[v]]
  BY DEF Put, e
<1>4. Put(m, u, n, rec) \in BlockOf
  BY <1>1, <1>2, <1>3 DEF BlockOf
<1>5. u \in Units => Put(m, u, n, rec)[u] = e
  BY <1>3
<1>6. \A v \in Units : v < u \/ v >= u + EntrySize(n) =>
        v # u /\ v \notin u + 1 .. u + EntrySize(n) - 1
  BY Sizes, DirectoryConstants DEF Units
<1>7. \A v \in Units : v < u \/ v >= u + EntrySize(n) =>
        Put(m, u, n, rec)[v] = m[v]
  BY <1>3, <1>6
<1> QED BY <1>4, <1>5, <1>7 DEF e

\* An unused entry of the right length is written over.
LEMMA ReuseGains ==
  ASSUME NEW m, NEW T, Tidy(m, T), NEW u \in T, NEW n \in FileNames,
         m[u].inode = 0, m[u].rec_len = EntrySize(n)
  PROVE  Gains(m, T, Put(m, u, n, EntrySize(n)), T, n, u)
<1> DEFINE mm == Put(m, u, n, EntrySize(n))
<1>1. m \in BlockOf /\ ChainOf(m, T) /\ T \subseteq Units /\ u \in Units /\ u \in Nat
      /\ EntrySize(n) \in Nat /\ EntrySize(n) > 0
  BY Sizes, DirectoryConstants DEF Tidy, ChainOf, Units
<1>2. \A v \in T : v # u => v < u \/ v >= u + EntrySize(n)
  BY <1>1, DirectoryConstants DEF ChainOf, Units
<1>3. /\ mm \in BlockOf
      /\ mm[u] = [inode |-> 1, rec_len |-> EntrySize(n), name |-> n]
      /\ \A v \in T : v # u => mm[v] = m[v]
  BY <1>1, <1>2, PutEntry
<1> HIDE DEF mm
<1>4. \A v \in T : mm[v].rec_len = m[v].rec_len
  BY <1>3
<1>5. ChainOf(mm, T)
  BY <1>1, <1>4 DEF ChainOf
<1>6. \A v \in T : mm[v].rec_len >= EntrySize(mm[v].name) \/ mm[v].name = Dot
  BY <1>1, <1>3 DEF Tidy
<1>7. NamedIn(mm, T, n) = NamedIn(m, T, n) \cup {u}
  BY <1>3 DEF NamedIn
<1>8. \A p \in FileNames : p # n => NamedIn(mm, T, p) = NamedIn(m, T, p)
  BY <1>3 DEF NamedIn
<1> QED BY <1>1, <1>3, <1>5, <1>6, <1>7, <1>8 DEF Gains, Tidy, mm

\* An entry with room behind it is split.
LEMMA SplitGains ==
  ASSUME NEW m, NEW T, Tidy(m, T), NEW u \in T, NEW n \in FileNames,
         Roomy(m, u, n)
  PROVE  Gains(m, T, Split(m, u, n), T \cup {u + EntrySize(m[u].name)}, n,
               u + EntrySize(m[u].name))
<1> DEFINE s  == EntrySize(m[u].name)
           at == u + s
           r  == m[u].rec_len
           m1 == [m EXCEPT ![u].rec_len = s]
           mm == Split(m, u, n)
           TT == T \cup {at}
<1>1. m \in BlockOf /\ ChainOf(m, T) /\ T \subseteq Units /\ u \in Units /\ u \in Nat
      /\ s \in Nat /\ s > 0 /\ EntrySize(n) \in Nat /\ EntrySize(n) > 0
  BY Sizes, DirectoryConstants DEF Tidy, ChainOf, Units
<1>2. r \in Nat /\ r >= s + EntrySize(n)
  BY <1>1 DEF Roomy, BlockOf, DirEntry
<1>3. /\ u + r = BlockUnits \/ u + r \in T
      /\ \A v \in T : v > u => v >= u + r
      /\ u + r <= BlockUnits
  BY <1>1, <1>2, DirectoryConstants DEF ChainOf, Units
<1>4. /\ m1 \in BlockOf /\ m1[u].rec_len = s /\ m1[u].name = m[u].name
      /\ m1[u].inode = m[u].inode /\ \A v \in Units : v # u => m1[v] = m[v]
  BY <1>1 DEF BlockOf, DirEntry
<1>5. mm = Put(m1, at, n, r - s)
  BY DEF Split
<1> HIDE DEF m1, mm, s, r
<1>6. at \in Units /\ at \in Nat /\ at \notin T /\ r - s \in Nat
      /\ r - s >= EntrySize(n) /\ at + (r - s) = u + r
  BY <1>1, <1>2, <1>3, DirectoryConstants DEF Units
<1>7. \A v \in T : v < at \/ v >= at + EntrySize(n)
  BY <1>1, <1>2, <1>3, DirectoryConstants DEF Units
<1>8. /\ mm \in BlockOf
      /\ mm[at] = [inode |-> 1, rec_len |-> r - s, name |-> n]
      /\ \A v \in T : mm[v] = m1[v]
  BY <1>1, <1>4, <1>5, <1>6, <1>7, PutEntry
<1>9. /\ mm[at].rec_len = r - s /\ mm[at].name = n /\ mm[at].inode = 1
      /\ mm[u].rec_len = s /\ mm[u].name = m[u].name /\ mm[u].inode = m[u].inode
      /\ \A v \in T : v # u => mm[v] = m[v]
  <2> HIDE DEF at
  <2>1. mm[at].rec_len = r - s /\ mm[at].name = n /\ mm[at].inode = 1
    BY <1>8
  <2>2. mm[u] = m1[u] /\ \A v \in T : v # u => mm[v] = m[v]
    BY <1>1, <1>4, <1>8
  <2> QED BY <1>4, <2>1, <2>2
<1>10. ChainOf(mm, TT)
  <2>1. TT \subseteq Units /\ 0 \in TT
    BY <1>1, <1>6 DEF ChainOf
  <2>2. ASSUME NEW v \in T, v # u
        PROVE  /\ mm[v].rec_len > 0
               /\ v + mm[v].rec_len = BlockUnits \/ v + mm[v].rec_len \in TT
               /\ \A w \in TT : w > v => w >= v + mm[v].rec_len
    <3>1. /\ mm[v].rec_len = m[v].rec_len /\ m[v].rec_len > 0
          /\ v + m[v].rec_len = BlockUnits \/ v + m[v].rec_len \in T
          /\ \A w \in T : w > v => w >= v + m[v].rec_len
          /\ m[v].rec_len \in Nat /\ v \in Nat
      <4>1. v \in Nat /\ m[v] \in DirEntry
        BY <1>1, DirectoryConstants DEF BlockOf, Units
      <4>2. m[v].rec_len \in Nat
        BY <4>1 DEF DirEntry
      <4>3. mm[v].rec_len = m[v].rec_len
        BY <1>9, <2>2
      <4> QED BY <1>1, <4>1, <4>2, <4>3 DEF ChainOf
    <3>2. at > v => at >= v + m[v].rec_len
      <4> SUFFICES ASSUME at > v PROVE u >= v + m[v].rec_len
        BY <1>1, <3>1
      <4>1. u > v
        BY <1>1, <1>2, <1>3, <2>2, <3>1
      <4> QED BY <3>1, <4>1
    <3> QED BY <3>1, <3>2
  <2>3. /\ mm[u].rec_len > 0 /\ u + mm[u].rec_len \in TT
        /\ \A w \in TT : w > u => w >= u + mm[u].rec_len
    <3>1. \A w \in T : w > u => w >= u + s
      BY <1>1, <1>2, <1>3, DirectoryConstants DEF Units
    <3> QED BY <1>1, <1>9, <3>1
  <2>4. /\ mm[at].rec_len > 0
        /\ at + mm[at].rec_len = BlockUnits \/ at + mm[at].rec_len \in TT
        /\ \A w \in TT : w > at => w >= at + mm[at].rec_len
    <3>1. \A w \in T : w > at => w >= u + r
      BY <1>1, <1>3, <1>6, DirectoryConstants DEF Units
    <3> HIDE DEF at
    <3>2. at + mm[at].rec_len = u + r
      BY <1>6, <1>9
    <3> QED BY <1>1, <1>3, <1>6, <1>9, <3>1, <3>2
  <2> HIDE DEF at
  <2> QED BY <2>1, <2>2, <2>3, <2>4 DEF ChainOf
<1>11. \A v \in TT : mm[v].rec_len >= EntrySize(mm[v].name) \/ mm[v].name = Dot
  <2>1. \A v \in T : m[v].rec_len >= EntrySize(m[v].name) \/ m[v].name = Dot
    BY DEF Tidy
  <2>2. \A v \in T : v # u =>
          mm[v].rec_len >= EntrySize(mm[v].name) \/ mm[v].name = Dot
    BY <1>9, <2>1
  <2>3. mm[u].rec_len = EntrySize(mm[u].name)
    BY <1>9 DEF s
  <2>4. mm[u].rec_len >= EntrySize(mm[u].name)
    BY <1>1, <1>9, <2>3
  <2>5. mm[at].rec_len >= EntrySize(mm[at].name)
    <3> HIDE DEF at
    <3> QED BY <1>6, <1>9
  <2> HIDE DEF at
  <2> QED BY <2>2, <2>4, <2>5
<1>12. NamedIn(mm, TT, n) = NamedIn(m, T, n) \cup {at}
  BY <1>9 DEF NamedIn
<1>13. \A p \in FileNames : p # n => NamedIn(mm, TT, p) = NamedIn(m, T, p)
  BY <1>9 DEF NamedIn
<1>14. Gains(m, T, mm, TT, n, at)
  BY <1>6, <1>8, <1>10, <1>11, <1>12, <1>13, Zenon DEF Gains, Tidy
<1> QED BY <1>14 DEF mm, s
\* The entry before it takes the space of one that is removed.
LEMMA RemoveLoses ==
  ASSUME NEW m, NEW T, Tidy(m, T), NEW u \in T
  PROVE  \E TT : Loses(m, T, RemoveFrom(m, u), TT, u)
<1>1. m \in BlockOf /\ ChainOf(m, T) /\ T \subseteq Units /\ u \in Units /\ u \in Nat
      /\ Visited(m) = T
  <2>1. Visited(m) = T
    BY TidyVisited
  <2> QED BY <2>1, DirectoryConstants DEF Tidy, ChainOf, Units
<1>2. CASE u = 0
  <2> DEFINE mm == [m EXCEPT ![u].inode = 0]
  <2>1. RemoveFrom(m, u) = mm
    BY <1>2 DEF RemoveFrom
  <2>2. /\ mm \in BlockOf /\ mm[u].inode = 0
        /\ \A v \in T : mm[v].rec_len = m[v].rec_len /\ mm[v].name = m[v].name
        /\ \A v \in T : v # u => mm[v] = m[v]
    BY <1>1 DEF BlockOf, DirEntry
  <2> HIDE DEF mm
  <2>3. Tidy(mm, T)
    BY <1>1, <2>2 DEF Tidy, ChainOf
  <2>4. \A p \in FileNames : NamedIn(mm, T, p) = NamedIn(m, T, p) \ {u}
    BY <2>2 DEF NamedIn
  <2> QED BY <2>1, <2>3, <2>4 DEF Loses
<1>3. CASE u # 0
  <2> DEFINE before == {v \in T : v < u}
             q  == Max(before)
             mm == [m EXCEPT ![q].rec_len = m[q].rec_len + m[u].rec_len]
             TT == T \ {u}
  <2>1. before \in SUBSET Units /\ 0 \in before
    <3>1. 0 \in T /\ 0 < u
      BY <1>1, <1>3 DEF ChainOf
    <3> QED BY <1>1, <3>1, Zenon
  <2>2. q \in before /\ \A v \in before : v <= q
    <3> HIDE DEF before
    <3> QED BY <2>1, MaxUnit
  <2>3. RemoveFrom(m, u) = mm
    BY <1>1, <1>3 DEF RemoveFrom
  <2>4. q \in T /\ q < u /\ q \in Units /\ q \in Nat
        /\ \A v \in T : v < u => v <= q
    <3> HIDE DEF q
    <3>1. q \in T /\ q < u /\ \A v \in T : v < u => v <= q
      BY <2>2
    <3> QED BY <1>1, <3>1, DirectoryConstants DEF Units
  <2> HIDE DEF q, before
  <2>T. /\ \A v \in T : v \in Nat /\ v < BlockUnits /\ v \in Units
        /\ \A v \in T : m[v].rec_len \in Nat /\ m[v].rec_len > 0
    <3>1. \A v \in T : v \in Nat /\ v < BlockUnits /\ v \in Units
      BY <1>1, DirectoryConstants DEF Units
    <3>2. \A v \in T : m[v] \in DirEntry /\ m[v].rec_len > 0
      BY <1>1, <3>1 DEF ChainOf, BlockOf
    <3> QED BY <3>1, <3>2 DEF DirEntry
  <2>5. q + m[q].rec_len = u
    <3>1. q + m[q].rec_len = BlockUnits \/ q + m[q].rec_len \in T
      BY <1>1, <2>4 DEF ChainOf
    <3>2. u >= q + m[q].rec_len
      BY <1>1, <2>4 DEF ChainOf
    <3>3. ~ (q + m[q].rec_len < u)
      <4> SUFFICES ASSUME q + m[q].rec_len < u PROVE FALSE
        OBVIOUS
      <4>1. q + m[q].rec_len \in T
        BY <1>1, <2>4, <2>T, <3>1, DirectoryConstants
      <4> QED BY <2>4, <2>T, <4>1
    <3> QED BY <1>1, <2>4, <2>T, <3>2, <3>3
  <2>6. /\ mm \in BlockOf /\ mm[q].rec_len = m[q].rec_len + m[u].rec_len
        /\ mm[q].name = m[q].name /\ mm[q].inode = m[q].inode
        /\ \A v \in T : v # q => mm[v] = m[v]
    <3> DEFINE r == m[q].rec_len + m[u].rec_len
    <3>1. r \in Nat
      BY <2>4, <2>T
    <3> HIDE DEF r
    <3>2. [m EXCEPT ![q].rec_len = r] \in BlockOf
      BY <1>1, <2>4, <3>1 DEF BlockOf, DirEntry
    <3>3. /\ [m EXCEPT ![q].rec_len = r][q] = [m[q] EXCEPT !.rec_len = r]
          /\ \A v \in T : v # q => [m EXCEPT ![q].rec_len = r][v] = m[v]
      BY <1>1, <2>4 DEF BlockOf
    <3>4. m[q] \in DirEntry
      BY <1>1, <2>4 DEF BlockOf
    <3> QED BY <3>2, <3>3, <3>4 DEF r, DirEntry
  <2> HIDE DEF mm
  <2>7. ChainOf(mm, TT)
    <3>1. TT \subseteq Units /\ 0 \in TT
      BY <1>1, <1>3 DEF ChainOf
    <3>2. ASSUME NEW v \in TT, v # q
          PROVE  /\ mm[v].rec_len > 0
                 /\ v + mm[v].rec_len = BlockUnits \/ v + mm[v].rec_len \in TT
                 /\ \A w \in TT : w > v => w >= v + mm[v].rec_len
      <4>1. /\ mm[v].rec_len = m[v].rec_len
            /\ v + m[v].rec_len = BlockUnits \/ v + m[v].rec_len \in T
            /\ \A w \in T : w > v => w >= v + m[v].rec_len
        BY <1>1, <2>6, <3>2 DEF ChainOf
      <4>2. v + m[v].rec_len # u
        <5> SUFFICES ASSUME v + m[v].rec_len = u PROVE FALSE
          OBVIOUS
        <5>1. v < u /\ v < q
          BY <2>4, <2>T, <3>2
        <5>2. q >= v + m[v].rec_len
          BY <2>4, <4>1, <5>1, <2>T
        <5> QED BY <2>4, <2>T, <5>2
      <4> QED BY <2>T, <4>1, <4>2
    <3>3. /\ mm[q].rec_len > 0
          /\ q + mm[q].rec_len = BlockUnits \/ q + mm[q].rec_len \in TT
          /\ \A w \in TT : w > q => w >= q + mm[q].rec_len
      <4>1. q + mm[q].rec_len = u + m[u].rec_len
        BY <1>1, <2>4, <2>5, <2>6, <2>T
      <4>2. /\ u + m[u].rec_len = BlockUnits \/ u + m[u].rec_len \in T
            /\ \A w \in T : w > u => w >= u + m[u].rec_len
        BY <1>1 DEF ChainOf
      <4>3. u + m[u].rec_len # u
        BY <2>T
      <4>4. \A w \in TT : w > q => w > u
        BY <2>4, <2>T
      <4> QED BY <2>4, <2>6, <2>T, <4>1, <4>2, <4>3, <4>4
    <3> QED BY <2>4, <3>1, <3>2, <3>3 DEF ChainOf
  <2>8. \A v \in TT : mm[v].rec_len >= EntrySize(mm[v].name) \/ mm[v].name = Dot
    <3>1. m[q].rec_len >= EntrySize(m[q].name) \/ m[q].name = Dot
      BY <2>4 DEF Tidy
    <3>2. m[q].rec_len + m[u].rec_len >= m[q].rec_len
      BY <2>4, <2>T
    <3>3. EntrySize(m[q].name) \in Nat
      BY Sizes
    <3>4. mm[q].rec_len >= EntrySize(mm[q].name) \/ mm[q].name = Dot
      BY <2>4, <2>6, <2>T, <3>1, <3>2, <3>3
    <3> QED BY <2>6, <3>4 DEF Tidy
  <2>9. \A p \in FileNames : NamedIn(mm, TT, p) = NamedIn(m, T, p) \ {u}
    BY <2>4, <2>6, Zenon DEF NamedIn
  <2>10. Loses(m, T, mm, TT, u)
    BY <2>6, <2>7, <2>8, <2>9 DEF Loses, Tidy
  <2> QED BY <2>3, <2>10
<1> QED BY <1>2, <1>3
-----------------------------------------------------------------------------
(* The invariant: every block is tiled by the entries that a scan visits,   *)
(* and every live name has one entry.                                        *)

\* Hits, of any blocks.
HitsIn(bs, n) ==
  {o \in (DOMAIN bs) \X Units : o[2] \in Matches(bs[o[1]], n)}

Ordered ==
  /\ \A k \in DOMAIN blocks : Tidy(blocks[k], Visited(blocks[k]))
  /\ \A n \in FileNames : IF n \in live THEN \E o : HitsIn(blocks, n) = {o}
                          ELSE HitsIn(blocks, n) = {}

DirInv == DirTypeOK /\ (shrunk \/ Ordered)

LEMMA AddTyped ==
  ASSUME NEW m \in BlockOf, NEW n \in FileNames, NEW u \in Spots(m, n)
  PROVE  AddTo(m, u, n) \in BlockOf
<1>1. u \in Units /\ u \in Nat /\ m[u].rec_len \in Nat
  BY VisitedUnits, DirectoryConstants DEF Spots, Units, BlockOf, DirEntry
<1>2. CASE Unused(m, u, n)
  BY <1>1, <1>2, PutEntry, Sizes, Zenon DEF AddTo
<1>3. CASE ~ Unused(m, u, n)
  <2> DEFINE s  == EntrySize(m[u].name)
             m1 == [m EXCEPT ![u].rec_len = s]
             rec == m[u].rec_len - s
  <2>1. s \in Nat /\ EntrySize(n) \in Nat
    BY Sizes
  <2>2. m[u].rec_len >= s + EntrySize(n)
    BY <1>3 DEF Spots, Roomy
  <2>3. rec \in Nat /\ u + s \in Nat
    BY <1>1, <2>1, <2>2
  <2>4. m1 \in BlockOf
    BY <1>1, <2>1 DEF BlockOf, DirEntry
  <2>5. AddTo(m, u, n) = Put(m1, u + s, n, rec)
    BY <1>3 DEF AddTo, Split
  <2> HIDE DEF s, m1, rec
  <2> QED BY <2>3, <2>4, <2>5, PutEntry, Zenon
<1> QED BY <1>2, <1>3

LEMMA RemoveTyped ==
  ASSUME NEW m \in BlockOf, NEW u \in Units
  PROVE  RemoveFrom(m, u) \in BlockOf
<1>1. CASE u = 0
  BY <1>1 DEF RemoveFrom, BlockOf, DirEntry
<1>2. CASE u # 0
  <2> DEFINE q == Max({v \in Visited(m) : v < u})
             r == m[q].rec_len + m[u].rec_len
  <2>1. RemoveFrom(m, u) = [m EXCEPT ![q].rec_len = r]
    BY <1>2 DEF RemoveFrom
  <2>2. CASE q \in Units
    <3>1. r \in Nat
      BY <2>2 DEF BlockOf, DirEntry
    <3> HIDE DEF q, r
    <3> QED BY <2>1, <2>2, <3>1 DEF BlockOf, DirEntry
  <2>3. CASE q \notin Units
    <3> HIDE DEF q, r
    <3>1. [m EXCEPT ![q].rec_len = r] = m
      BY <2>3 DEF BlockOf
    <3> QED BY <2>1, <3>1, Zenon
  <2> QED BY <2>2, <2>3
<1> QED BY <1>1, <1>2

\* What a scan finds in a block that gains or loses an entry.
LEMMA GainsMatches ==
  ASSUME NEW m, NEW T, Tidy(m, T), NEW mm, NEW TT, NEW n, NEW a,
         Gains(m, T, mm, TT, n, a)
  PROVE  /\ Tidy(mm, Visited(mm)) /\ a \in Units
         /\ Matches(mm, n) = Matches(m, n) \cup {a}
         /\ \A p \in FileNames : p # n => Matches(mm, p) = Matches(m, p)
<1>1. Tidy(mm, TT) /\ a \in Units
      /\ NamedIn(mm, TT, n) = NamedIn(m, T, n) \cup {a}
      /\ \A p \in FileNames : p # n => NamedIn(mm, TT, p) = NamedIn(m, T, p)
  BY DEF Gains
<1>2. Visited(m) = T /\ \A p : Matches(m, p) = NamedIn(m, T, p)
  BY TidyVisited
<1>3. Visited(mm) = TT /\ \A p : Matches(mm, p) = NamedIn(mm, TT, p)
  BY <1>1, TidyVisited
<1> QED BY <1>1, <1>2, <1>3

LEMMA LosesMatches ==
  ASSUME NEW m, NEW T, Tidy(m, T), NEW mm, NEW TT, NEW u,
         Loses(m, T, mm, TT, u)
  PROVE  /\ Tidy(mm, Visited(mm))
         /\ \A p \in FileNames : Matches(mm, p) = Matches(m, p) \ {u}
<1>1. Tidy(mm, TT)
      /\ \A p \in FileNames : NamedIn(mm, TT, p) = NamedIn(m, T, p) \ {u}
  BY DEF Loses
<1>2. \A p : Matches(m, p) = NamedIn(m, T, p)
  BY TidyVisited
<1>3. Visited(mm) = TT /\ \A p : Matches(mm, p) = NamedIn(mm, TT, p)
  BY <1>1, TidyVisited
<1> QED BY <1>1, <1>2, <1>3

\* The blocks that ext2_mkdir and add_dir_entry make.
LEMMA FirstTidy ==
  /\ FirstBlock \in BlockOf /\ Tidy(FirstBlock, Visited(FirstBlock))
  /\ \A n \in FileNames : Matches(FirstBlock, n) = {}
<1> DEFINE m == FirstBlock
           T == {0, 3}
<1>1. 0 \in Units /\ 3 \in Units /\ BlockUnits - 3 \in Nat /\ BlockUnits - 3 >= 4
  BY DirectoryConstants DEF Units
<1>2. /\ m[0].inode = 1 /\ m[0].rec_len = 3 /\ m[0].name = Dot
      /\ m[3].inode = 1 /\ m[3].rec_len = BlockUnits - 3 /\ m[3].name = DotDot
  BY <1>1 DEF FirstBlock
<1>3. m \in BlockOf
  <2>1. /\ Zero \in DirEntry /\ NameBytes \in DirEntry
        /\ [inode |-> 1, rec_len |-> 3, name |-> Dot] \in DirEntry
        /\ [inode |-> 1, rec_len |-> BlockUnits - 3, name |-> DotDot] \in DirEntry
    BY <1>1, DirectoryConstants DEF DirEntry, Zero, NameBytes
  <2> QED BY <2>1, Zenon DEF FirstBlock, BlockOf
<1> HIDE DEF m
<1>4. ChainOf(m, T)
  BY <1>1, <1>2, DirectoryConstants DEF ChainOf
<1>5. EntrySize(DotDot) = 4
  BY DirectoryConstants DEF EntrySize
<1>6. Tidy(m, T)
  BY <1>1, <1>2, <1>3, <1>4, <1>5 DEF Tidy
<1>7. \A n \in FileNames : NamedIn(m, T, n) = {}
  BY <1>2, DirectoryConstants DEF NamedIn
<1> QED BY <1>3, <1>6, <1>7, TidyVisited DEF m

LEMMA FreshTidy ==
  ASSUME NEW n \in FileNames
  PROVE  LET m == Put([v \in Units |-> Zero], 0, n, BlockUnits)
         IN  /\ m \in BlockOf /\ Tidy(m, Visited(m)) /\ Matches(m, n) = {0}
             /\ \A p \in FileNames : p # n => Matches(m, p) = {}
<1> DEFINE z == [v \in Units |-> Zero]
           m == Put(z, 0, n, BlockUnits)
           T == {0}
<1>1. z \in BlockOf
  BY DirectoryConstants DEF BlockOf, DirEntry, Zero
<1>2. 0 \in Units /\ 0 \in Nat /\ BlockUnits \in Nat /\ BlockUnits > 0
  BY DirectoryConstants DEF Units
<1> HIDE DEF z
<1>3. m \in BlockOf /\ m[0] = [inode |-> 1, rec_len |-> BlockUnits, name |-> n]
  BY <1>1, <1>2, PutEntry
<1> HIDE DEF m
<1>4. m[0].inode = 1 /\ m[0].rec_len = BlockUnits /\ m[0].name = n
  BY <1>3
<1>5. ChainOf(m, T)
  BY <1>2, <1>4 DEF ChainOf
<1>6. BlockUnits >= EntrySize(n)
  BY Sizes, DirectoryConstants
<1>7. Tidy(m, T)
  BY <1>3, <1>4, <1>5, <1>6 DEF Tidy
<1>8. NamedIn(m, T, n) = {0} /\ \A p \in FileNames : p # n => NamedIn(m, T, p) = {}
  BY <1>4 DEF NamedIn
<1>9. /\ m \in BlockOf /\ Tidy(m, Visited(m)) /\ Matches(m, n) = {0}
      /\ \A p \in FileNames : p # n => Matches(m, p) = {}
  BY <1>3, <1>7, <1>8, TidyVisited
<1> QED BY <1>9 DEF m, z
-----------------------------------------------------------------------------
(* The steps *)

\* When block k gains the entries at A and loses those at B, the others stay.
Turns(H, k, A, B, HH) == HH = (H \cup ({k} \X A)) \ ({k} \X B)

LEMMA HitsChanged ==
  ASSUME NEW bs \in Seq(BlockOf), NEW k \in DOMAIN bs, NEW mm \in BlockOf,
         NEW n, NEW A \in SUBSET Units, NEW B,
         Matches(mm, n) = (Matches(bs[k], n) \cup A) \ B
  PROVE  Turns(HitsIn(bs, n), k, A, B, HitsIn([bs EXCEPT ![k] = mm], n))
<1> DEFINE cs == [bs EXCEPT ![k] = mm]
           HH == (HitsIn(bs, n) \cup ({k} \X A)) \ ({k} \X B)
<1>1. /\ DOMAIN cs = DOMAIN bs /\ cs[k] = mm
      /\ \A j \in DOMAIN bs : j # k => cs[j] = bs[j]
  OBVIOUS
<1> HIDE DEF cs
<1>3. \A o \in (DOMAIN bs) \X Units : o \in HitsIn(cs, n) <=> o \in HH
  <2> TAKE o \in (DOMAIN bs) \X Units
  <2>1. PICK j \in DOMAIN bs, u \in Units : o = <<j, u>>
    OBVIOUS
  <2>2. /\ o \in HitsIn(cs, n) <=> u \in Matches(cs[j], n)
        /\ o \in HitsIn(bs, n) <=> u \in Matches(bs[j], n)
    BY <1>1, <2>1 DEF HitsIn
  <2>3. /\ o \in {k} \X A <=> j = k /\ u \in A
        /\ o \in {k} \X B <=> j = k /\ u \in B
    BY <2>1
  <2>4. CASE j = k
    BY <1>1, <2>2, <2>3, <2>4
  <2>5. CASE j # k
    BY <1>1, <2>2, <2>3, <2>5
  <2> QED BY <2>4, <2>5
<1>4. HitsIn(cs, n) \subseteq (DOMAIN bs) \X Units /\ HH \subseteq (DOMAIN bs) \X Units
  BY <1>1 DEF HitsIn
<1>5. HitsIn(cs, n) = HH
  <2> HIDE DEF HH
  <2> QED BY <1>3, <1>4
<1> QED BY <1>5, Zenon DEF cs, Turns

LEMMA InitDir == ASSUME DirInit PROVE DirInv
<1>1. /\ blocks = <<FirstBlock>> /\ DOMAIN blocks = {1} /\ blocks[1] = FirstBlock
      /\ Len(blocks) = 1 /\ live = {} /\ shrunk = FALSE
  BY DEF DirInit
<1>2. DirTypeOK
  <2>1. FirstBlock \in [Units -> DirEntry]
    BY FirstTidy DEF BlockOf
  <2>2. blocks \in Seq([Units -> DirEntry])
    BY <1>1, <2>1
  <2>3. 1 \in 1 .. MaxBlocks
    BY DirectoryConstants
  <2> QED BY <1>1, <2>2, <2>3, Zenon DEF DirTypeOK
<1>3. \A n \in FileNames : HitsIn(blocks, n) = {}
  BY <1>1, FirstTidy DEF HitsIn
<1> QED BY <1>1, <1>2, <1>3, FirstTidy DEF DirInv, Ordered

LEMMA ChangedTyped ==
  ASSUME DirTypeOK, NEW k \in DOMAIN blocks, NEW mm \in BlockOf,
         blocks' = [blocks EXCEPT ![k] = mm],
         live' \subseteq FileNames, shrunk' \in BOOLEAN
  PROVE  DirTypeOK'
<1>1. blocks' \in Seq([Units -> DirEntry]) /\ Len(blocks') = Len(blocks)
  BY DEF DirTypeOK, BlockOf
<1> QED BY <1>1 DEF DirTypeOK

LEMMA GainStep ==
  ASSUME DirTypeOK, Ordered, NEW k \in DOMAIN blocks, NEW n \in FileNames,
         HitsIn(blocks, n) = {}, NEW mm, NEW TT, NEW a,
         Gains(blocks[k], Visited(blocks[k]), mm, TT, n, a),
         blocks' = [blocks EXCEPT ![k] = mm], live' = live \cup {n}
  PROVE  Ordered'
<1>1. Tidy(blocks[k], Visited(blocks[k]))
  BY DEF Ordered
<1>2. /\ Tidy(mm, Visited(mm)) /\ a \in Units
      /\ Matches(mm, n) = Matches(blocks[k], n) \cup {a}
      /\ \A p \in FileNames : p # n => Matches(mm, p) = Matches(blocks[k], p)
  BY <1>1, GainsMatches
<1>3. mm \in BlockOf
  BY <1>2 DEF Tidy
<1>4. \A j \in DOMAIN blocks' : Tidy(blocks'[j], Visited(blocks'[j]))
  <2>1. /\ DOMAIN blocks' = DOMAIN blocks /\ blocks'[k] = mm
        /\ \A j \in DOMAIN blocks : j # k => blocks'[j] = blocks[j]
    BY DEF DirTypeOK
  <2>2. \A j \in DOMAIN blocks : Tidy(blocks[j], Visited(blocks[j]))
    BY DEF Ordered
  <2> QED BY <1>2, <2>1, <2>2
<1>S. blocks \in Seq(BlockOf)
  BY DEF DirTypeOK, BlockOf
<1>5. HitsIn(blocks', n) = {<<k, a>>}
  <2> DEFINE A == {a}
             B == {}
  <2>1. Matches(mm, n) = (Matches(blocks[k], n) \cup A) \ B /\ A \subseteq Units
    BY <1>2
  <2>2. Turns(HitsIn(blocks, n), k, A, B, HitsIn(blocks', n))
    <3>1. A \in SUBSET Units
      BY <2>1
    <3> HIDE DEF A, B
    <3> QED BY <1>3, <1>S, <2>1, <3>1, HitsChanged, Zenon
  <2>3. {k} \X A = {<<k, a>>} /\ {k} \X B = {}
    OBVIOUS
  <2> HIDE DEF A, B
  <2> QED BY <2>2, <2>3, Zenon DEF Turns
<1>6. \A p \in FileNames : p # n => HitsIn(blocks', p) = HitsIn(blocks, p)
  <2> SUFFICES ASSUME NEW p \in FileNames, p # n PROVE HitsIn(blocks', p) = HitsIn(blocks, p)
    BY Zenon
  <2> DEFINE A == {}
  <2>1. Matches(mm, p) = (Matches(blocks[k], p) \cup A) \ A /\ A \subseteq Units
    BY <1>2
  <2>2. Turns(HitsIn(blocks, p), k, A, A, HitsIn(blocks', p))
    <3>1. A \in SUBSET Units
      BY <2>1
    <3> HIDE DEF A
    <3> QED BY <1>3, <1>S, <2>1, <3>1, HitsChanged, Zenon
  <2> QED BY <2>2, Zenon DEF Turns
<1>7. \A p \in FileNames :
        IF p \in live' THEN \E o : HitsIn(blocks', p) = {o} ELSE HitsIn(blocks', p) = {}
  <2> TAKE p \in FileNames
  <2>1. CASE p = n
    BY <1>5, <2>1, Zenon
  <2>2. CASE p # n
    <3>1. IF p \in live THEN \E o : HitsIn(blocks, p) = {o} ELSE HitsIn(blocks, p) = {}
      BY DEF Ordered
    <3>2. HitsIn(blocks', p) = HitsIn(blocks, p) /\ (p \in live' <=> p \in live)
      BY <1>6, <2>2, Zenon
    <3> QED BY <3>1, <3>2, Zenon
  <2> QED BY <2>1, <2>2, Zenon
<1> QED BY <1>4, <1>7, Zenon DEF Ordered

LEMMA NotFound ==
  ASSUME NEW n, ~ Found(n)
  PROVE  HitsIn(blocks, n) = {}
BY DEF HitsIn, Found

LEMMA AddInPlaceDir ==
  ASSUME DirInv, NEW n \in FileNames, ~ Found(n), AddInPlace(n),
         live' = live \cup {n}
  PROVE  DirInv'
<1> DEFINE S == {j \in DOMAIN blocks : Spots(blocks[j], n) # {}}
           k == Min(S)
           m == blocks[k]
           u == Min(Spots(m, n))
           mm == AddTo(m, u, n)
<1>1. DirTypeOK
  BY DEF DirInv
<1>2. k \in S
  <2>1. DOMAIN blocks \subseteq Nat
    BY <1>1 DEF DirTypeOK
  <2>2. S # {}
    BY DEF AddInPlace
  <2>3. S \in SUBSET Nat
    BY <2>1
  <2> HIDE DEF S
  <2> QED BY <2>2, <2>3, MinNumber
<1>3. k \in DOMAIN blocks /\ Spots(m, n) # {}
  <2> HIDE DEF k
  <2> QED BY <1>2
<1>4. /\ blocks' = [blocks EXCEPT ![k] = mm]
      /\ shrunk' = (shrunk \/ (Unused(m, u, n) /\ m[u].rec_len # EntrySize(n)))
  BY DEF AddInPlace
<1> HIDE DEF k, S
<1>5. m \in BlockOf
  BY <1>1, <1>3 DEF DirTypeOK, BlockOf
<1>6. u \in Spots(m, n) /\ u \in Visited(m) /\ u \in Units
  <2>1. Visited(m) \subseteq Units
    BY <1>5, VisitedUnits
  <2>2. Spots(m, n) \in SUBSET Visited(m)
    BY DEF Spots
  <2>3. Spots(m, n) \in SUBSET Nat
    BY <2>1, <2>2, DirectoryConstants DEF Units
  <2>4. u \in Spots(m, n)
    BY <1>3, <2>3, MinNumber
  <2> QED BY <2>1, <2>2, <2>4
<1> HIDE DEF u, m
<1>7. mm \in BlockOf
  BY <1>5, <1>6, AddTyped
<1>8. DirTypeOK'
  <2>1. live' \subseteq FileNames /\ shrunk' \in BOOLEAN
    BY <1>1, <1>4 DEF DirTypeOK
  <2> HIDE DEF mm
  <2> QED BY <1>1, <1>3, <1>4, <1>7, <2>1, ChangedTyped, Zenon
<1>9. shrunk' \/ Ordered'
  <2> SUFFICES ASSUME ~ shrunk' PROVE Ordered'
    OBVIOUS
  <2>1. ~ shrunk /\ Ordered /\ (Unused(m, u, n) => m[u].rec_len = EntrySize(n))
    BY <1>4, Zenon DEF DirInv
  <2>2. Tidy(m, Visited(m))
    BY <1>3, <2>1 DEF Ordered, m
  <2>3. \E TT, a : Gains(m, Visited(m), mm, TT, n, a)
    <3>1. CASE Unused(m, u, n)
      <4>1. m[u].rec_len = EntrySize(n) /\ EntrySize(n) > 0 /\ EntrySize(n) \in Nat
        BY <2>1, <3>1, Sizes
      <4>2. m[u].inode = 0
        BY <3>1, <4>1 DEF Unused
      <4>3. mm = Put(m, u, n, EntrySize(n))
        BY <3>1 DEF AddTo
      <4> QED BY <1>6, <2>2, <4>1, <4>2, <4>3, ReuseGains
    <3>2. CASE ~ Unused(m, u, n)
      <4>1. Roomy(m, u, n) /\ mm = Split(m, u, n)
        BY <1>6, <3>2 DEF Spots, AddTo
      <4> QED BY <1>6, <2>2, <4>1, SplitGains, Zenon
    <3> QED BY <3>1, <3>2
  <2> HIDE DEF mm
  <2>4. PICK TT, a : Gains(m, Visited(m), mm, TT, n, a)
    BY <2>3
  <2>5. HitsIn(blocks, n) = {}
    BY NotFound
  <2> QED BY <1>1, <1>3, <1>4, <2>1, <2>4, <2>5, GainStep, Zenon DEF m
<1> QED BY <1>8, <1>9 DEF DirInv
LEMMA AddBlockDir ==
  ASSUME DirInv, NEW n \in FileNames, ~ Found(n), AddBlock(n),
         live' = live \cup {n}
  PROVE  DirInv'
<1> DEFINE mm == Put([v \in Units |-> Zero], 0, n, BlockUnits)
           e == Len(blocks) + 1
<1>1. /\ mm \in BlockOf /\ Tidy(mm, Visited(mm)) /\ Matches(mm, n) = {0}
      /\ \A p \in FileNames : p # n => Matches(mm, p) = {}
  BY FreshTidy
<1>2. blocks' = Append(blocks, mm) /\ shrunk' = shrunk /\ Len(blocks) < MaxBlocks
  BY DEF AddBlock
<1> HIDE DEF mm
<1>3. DirTypeOK /\ blocks \in Seq(BlockOf) /\ 0 \in Units
  BY DirectoryConstants DEF DirInv, DirTypeOK, BlockOf, Units
<1>4. /\ blocks' \in Seq(BlockOf) /\ Len(blocks') = e
      /\ DOMAIN blocks' = (DOMAIN blocks) \cup {e} /\ blocks'[e] = mm
      /\ e \notin DOMAIN blocks /\ \A j \in DOMAIN blocks : blocks'[j] = blocks[j]
  BY <1>1, <1>2, <1>3
<1>5. DirTypeOK'
  <2>1. Len(blocks) \in 1 .. MaxBlocks /\ live \subseteq FileNames /\ shrunk \in BOOLEAN
    BY <1>3 DEF DirTypeOK
  <2>2. e \in 1 .. MaxBlocks
    BY <1>2, <2>1, DirectoryConstants
  <2> HIDE DEF e
  <2> QED BY <1>2, <1>4, <2>1, <2>2 DEF DirTypeOK, BlockOf
<1>6. shrunk' \/ Ordered'
  <2> SUFFICES ASSUME Ordered PROVE Ordered'
    BY <1>2 DEF DirInv
  <2> HIDE DEF e
  <2>1. \A j \in DOMAIN blocks' : Tidy(blocks'[j], Visited(blocks'[j]))
    <3>1. \A j \in DOMAIN blocks : Tidy(blocks[j], Visited(blocks[j]))
      BY DEF Ordered
    <3> QED BY <1>1, <1>4, <3>1
  <2>2. ASSUME NEW p \in FileNames
        PROVE  HitsIn(blocks', p) = HitsIn(blocks, p) \cup {<<e, u>> : u \in Matches(mm, p)}
    <3>1. Matches(mm, p) \subseteq Units
      BY <1>1, <1>3
    <3>2. \A j \in DOMAIN blocks', u \in Units :
            <<j, u>> \in HitsIn(blocks', p) <=> u \in Matches(blocks'[j], p)
      BY DEF HitsIn
    <3>3. \A j \in DOMAIN blocks, u \in Units :
            <<j, u>> \in HitsIn(blocks, p) <=> u \in Matches(blocks[j], p)
      BY DEF HitsIn
    <3>4. /\ HitsIn(blocks', p) \subseteq (DOMAIN blocks') \X Units
          /\ HitsIn(blocks, p) \subseteq (DOMAIN blocks) \X Units
      BY DEF HitsIn
    <3> QED BY <1>4, <3>1, <3>2, <3>3, <3>4
  <2>3. HitsIn(blocks', n) = {<<e, 0>>}
    BY <1>1, <2>2, NotFound
  <2>4. \A p \in FileNames :
          IF p \in live' THEN \E o : HitsIn(blocks', p) = {o}
          ELSE HitsIn(blocks', p) = {}
    <3> TAKE p \in FileNames
    <3>1. CASE p = n
      BY <2>3, <3>1, Zenon
    <3>2. CASE p # n
      <4>1. IF p \in live THEN \E o : HitsIn(blocks, p) = {o}
            ELSE HitsIn(blocks, p) = {}
        BY Zenon DEF Ordered
      <4>2. HitsIn(blocks', p) = HitsIn(blocks, p) /\ (p \in live' <=> p \in live)
        BY <1>1, <2>2, <3>2, Zenon
      <4> QED BY <4>1, <4>2
    <3> QED BY <3>1, <3>2, Zenon
  <2> QED BY <2>1, <2>4, Zenon DEF Ordered
<1> QED BY <1>5, <1>6 DEF DirInv

LEMMA RemoveDir ==
  ASSUME DirInv, NEW n \in FileNames, remove_dir_entry(n)
  PROVE  DirInv'
<1> DEFINE S == {j \in DOMAIN blocks : Matches(blocks[j], n) # {}}
           k == Min(S)
           m == blocks[k]
           u == Min(Matches(m, n))
           mm == RemoveFrom(m, u)
<1>1. DirTypeOK /\ blocks \in Seq(BlockOf) /\ live' = live \ {n} /\ shrunk' = shrunk
  BY DEF DirInv, DirTypeOK, BlockOf, remove_dir_entry
<1>2. k \in S
  <2>1. DOMAIN blocks \subseteq Nat
    BY <1>1
  <2>2. S # {}
    BY DEF remove_dir_entry, Found
  <2>3. S \in SUBSET Nat
    BY <2>1
  <2> HIDE DEF S
  <2> QED BY <2>2, <2>3, MinNumber
<1>3. k \in DOMAIN blocks /\ Matches(m, n) # {}
  <2> HIDE DEF k
  <2> QED BY <1>2
<1>4. blocks' = [blocks EXCEPT ![k] = mm]
  BY DEF remove_dir_entry
<1> HIDE DEF k, S
<1>5. m \in BlockOf
  BY <1>1, <1>3
<1>6. u \in Matches(m, n) /\ u \in Visited(m) /\ u \in Units
  <2>1. Visited(m) \subseteq Units
    BY <1>5, VisitedUnits
  <2>2. Matches(m, n) \in SUBSET Visited(m)
    BY DEF Matches
  <2>3. Matches(m, n) \in SUBSET Nat
    BY <2>1, <2>2, DirectoryConstants DEF Units
  <2>4. u \in Matches(m, n)
    BY <1>3, <2>3, MinNumber
  <2> QED BY <2>1, <2>2, <2>4
<1> HIDE DEF u, m
<1>7. mm \in BlockOf
  BY <1>5, <1>6, RemoveTyped
<1> HIDE DEF mm
<1>8. DirTypeOK'
  <2>1. live' \subseteq FileNames /\ shrunk' \in BOOLEAN
    BY <1>1 DEF DirTypeOK
  <2> QED BY <1>1, <1>3, <1>4, <1>7, <2>1, ChangedTyped, Zenon
<1>9. shrunk' \/ Ordered'
  <2> SUFFICES ASSUME Ordered PROVE Ordered'
    BY <1>1 DEF DirInv
  <2>1. Tidy(m, Visited(m))
    BY <1>3 DEF Ordered, m
  <2>2. \E TT : Loses(m, Visited(m), mm, TT, u)
    BY <1>6, <2>1, RemoveLoses DEF mm
  <2>3. /\ Tidy(mm, Visited(mm))
        /\ \A p \in FileNames : Matches(mm, p) = Matches(m, p) \ {u}
    BY <2>1, <2>2, LosesMatches
  <2>4. \A j \in DOMAIN blocks' : Tidy(blocks'[j], Visited(blocks'[j]))
    <3>1. /\ DOMAIN blocks' = DOMAIN blocks /\ blocks'[k] = mm
          /\ \A j \in DOMAIN blocks : j # k => blocks'[j] = blocks[j]
      BY <1>1, <1>3, <1>4
    <3>2. \A j \in DOMAIN blocks : Tidy(blocks[j], Visited(blocks[j]))
      BY DEF Ordered
    <3> QED BY <2>3, <3>1, <3>2
  <2>5. ASSUME NEW p \in FileNames
        PROVE  HitsIn(blocks', p) = HitsIn(blocks, p) \ {<<k, u>>}
    <3> DEFINE A == {}
               B == {u}
    <3>1. Matches(mm, p) = (Matches(m, p) \cup A) \ B /\ A \in SUBSET Units
      BY <2>3
    <3>2. Turns(HitsIn(blocks, p), k, A, B, HitsIn(blocks', p))
      <4> HIDE DEF A, B
      <4> QED BY <1>1, <1>3, <1>4, <1>7, <3>1, HitsChanged, Zenon DEF m
    <3>3. {k} \X A = {} /\ {k} \X B = {<<k, u>>}
      OBVIOUS
    <3> HIDE DEF A, B
    <3> QED BY <3>2, <3>3 DEF Turns
  <2>6. <<k, u>> \in HitsIn(blocks, n)
    BY <1>3, <1>6 DEF HitsIn, m
  <2>7. HitsIn(blocks', n) = {}
    <3>1. \E o : HitsIn(blocks, n) = {o}
      BY <2>6 DEF Ordered
    <3> QED BY <2>5, <2>6, <3>1
  <2>8. \A p \in FileNames :
          IF p \in live' THEN \E o : HitsIn(blocks', p) = {o}
          ELSE HitsIn(blocks', p) = {}
    <3> TAKE p \in FileNames
    <3>1. CASE p = n
      BY <1>1, <2>7, <3>1
    <3>2. CASE p # n
      <4>1. IF p \in live THEN \E o : HitsIn(blocks, p) = {o}
            ELSE HitsIn(blocks, p) = {}
        BY DEF Ordered
      <4>2. <<k, u>> \notin HitsIn(blocks, p)
        <5>1. u \notin Matches(m, p)
          BY <1>6, <3>2 DEF Matches
        <5> QED BY <5>1 DEF HitsIn, m
      <4>3. HitsIn(blocks', p) = HitsIn(blocks, p) /\ (p \in live' <=> p \in live)
        BY <1>1, <2>5, <3>2, <4>2, Zenon
      <4> QED BY <4>1, <4>3
    <3> QED BY <3>1, <3>2, Zenon
  <2> QED BY <2>4, <2>8, Zenon DEF Ordered
<1> QED BY <1>8, <1>9 DEF DirInv
LEMMA NextDir == ASSUME DirInv, [DirNext]_dirVars PROVE DirInv'
<1>1. CASE DirNext
  <2>1. PICK n \in FileNames : add_dir_entry(n) \/ remove_dir_entry(n)
    BY <1>1 DEF DirNext
  <2>2. CASE add_dir_entry(n)
    <3>1. ~ Found(n) /\ live' = live \cup {n} /\ (AddInPlace(n) \/ AddBlock(n))
      BY <2>2 DEF add_dir_entry
    <3> QED BY <3>1, AddInPlaceDir, AddBlockDir
  <2>3. CASE remove_dir_entry(n)
    BY <2>3, RemoveDir
  <2> QED BY <2>1, <2>2, <2>3
<1>2. CASE UNCHANGED dirVars
  BY <1>2, Zenon DEF DirInv, DirTypeOK, Ordered, dirVars
<1> QED BY <1>1, <1>2

\* The invariant holds: until a longer unused entry is reused, the blocks are
\* tiled and each name that the directory should hold has one entry.
THEOREM DirInvHolds == DirSpec => []DirInv
<1>1. DirInit => DirInv
  BY InitDir
<1>2. DirInv /\ [DirNext]_dirVars => DirInv'
  BY NextDir
<1> QED BY <1>1, <1>2, PTL DEF DirSpec

\* The entries tile the blocks: for every size of block, number of blocks and
\* set of names, add_dir_entry and the removal in ext2_unlink and ext2_rmdir
\* keep every chain of entries whole, up to the reuse of a longer entry.
THEOREM BlocksTiled == DirSpec => []Tiled
<1>1. DirInv => Tiled
  <2> SUFFICES ASSUME DirInv PROVE Tiled
    OBVIOUS
  <2>1. \A m : Tidy(m, Visited(m)) =>
          /\ Chained(m)
          /\ \A u \in Visited(m) :
               m[u].rec_len >= EntrySize(m[u].name) \/ m[u].name = Dot
    BY DEF Tidy, ChainOf, Chained
  <2> QED BY <2>1 DEF DirInv, Ordered, Tiled
<1> QED BY <1>1, DirInvHolds, PTL

\* No name is lost, brought back or doubled: a scan meets one entry of every
\* name that was added and not removed, and none of another.
THEOREM NamesFound == DirSpec => []FoundWhileUncut
<1>1. DirInv => FoundWhileUncut
  <2> SUFFICES ASSUME DirInv, ~ shrunk, NEW n \in FileNames
               PROVE  Cardinality(Hits(n)) = IF n \in live THEN 1 ELSE 0
    BY DEF FoundWhileUncut
  <2>1. Ordered /\ Hits(n) = HitsIn(blocks, n)
    BY DEF DirInv, Hits, HitsIn
  <2>2. IF n \in live THEN \E o : Hits(n) = {o} ELSE Hits(n) = {}
    BY <2>1, Zenon DEF Ordered
  <2>3. Cardinality({}) = 0 /\ \A o : Cardinality({o}) = 1
    BY FS_EmptySet, FS_Singleton, Zenon
  <2> QED BY <2>2, <2>3, Zenon
<1> QED BY <1>1, DirInvHolds, PTL

-----------------------------------------------------------------------------
(* The tree of names *)

USE NamespaceConstants

-----------------------------------------------------------------------------
(* Inodes *)

\* The call has an inode of its own that nothing leads to yet.
Fresh(i) ==
  /\ i \in used /\ i # Root /\ dotdot[i] = 0 /\ i # call.dir
  /\ \A e \in entries : e.ino # i /\ e.dir # i

\* How far a call is tells what it has and what it has left on disk.
Stages ==
  /\ call \in [op : {"idle", "create", "mkdir", "unlink", "rmdir"},
               at : {"idle", "alloc", "inode", "entry", "dots", "parent",
                     "remove", "unparent", "drop"},
               dir : Inodes, name : Names \cup {0}, ino : Inodes \cup {0}]
  /\ call.dir \in used /\ kind[call.dir] = "dir"
  /\ call.at \in {"alloc", "inode", "entry"} => call.name \in Names
  /\ call.at \notin {"idle", "alloc"} => call.ino \in Inodes
  /\ call.at \in {"inode", "entry"} => Fresh(call.ino)
  /\ call.at = "entry" => kind[call.ino] # "none"
  /\ call.at = "dots" =>
       \E e \in entries : e.dir = call.dir /\ e.ino = call.ino

\* Entries are in directories, and the root is one.
Dirs ==
  /\ Root \in used /\ kind[Root] = "dir"
  /\ \A e \in entries : e.dir \in used /\ kind[e.dir] = "dir"

\* What a call that has not been misled by an unreadable block relies on when
\* it writes or removes an entry.
Sighted ==
  ~ blind =>
    /\ call.at \in {"alloc", "inode", "entry"} =>
         /\ call.dir = Root \/ \E f \in entries : f.ino = call.dir
         /\ Entry(call.dir, call.name) = {}
    /\ call.at = "remove" => Empty(call.ino)

\* EntriesLead without its types.
Lead ==
  /\ \A e \in entries : e.ino \in used /\ kind[e.ino] # "none"
  /\ \A e, f \in entries : e.ino = f.ino => e = f
  /\ \A e \in entries : dotdot[e.ino] \in {0, e.dir}

IInv == EntriesLead /\ EntriesReachable /\ Stages /\ Dirs /\ Sighted

-----------------------------------------------------------------------------
\* Link counts have room for those of a new directory.
LEMMA Limit == LinkLimit \in Nat /\ LinkLimit > 2
BY DEF LinkLimit

\* A count of 16 bits stays one when it wraps.
LEMMA Wrap == ASSUME NEW n \in Int
             PROVE  n % LinkLimit \in 0 .. LinkLimit - 1
BY Limit

\* The root is an inode, and 0 is none.
LEMMA RootInode == Root \in Inodes /\ 0 \notin Inodes
BY DEF Root, Inodes

\* The first free inode is one of the free ones.
LEMMA FirstFree == ASSUME FreeInodes # {}
                   PROVE  Min(FreeInodes) \in FreeInodes
<1>1. FreeInodes \subseteq Nat
  BY DEF FreeInodes, Inodes
<1>2. \E x \in FreeInodes :
        \A y \in FreeInodes : ~ (<<y, x>> \in OpToRel(<, Nat))
  BY <1>1, NatLessThanWellFounded, WFMin, Zenon
<1>3. \A x, y \in Nat : <<y, x>> \notin OpToRel(<, Nat) => ~ (y < x)
  BY Zenon DEF OpToRel
<1>4. \E x \in FreeInodes : \A y \in FreeInodes : x <= y
  <2>1. PICK x \in FreeInodes :
          \A y \in FreeInodes : ~ (<<y, x>> \in OpToRel(<, Nat))
    BY <1>2
  <2>2. \A y \in FreeInodes : ~ (y < x)
    BY <1>1, <1>3, <2>1, Zenon
  <2> QED BY <1>1, <2>2
<1> QED BY <1>4 DEF Min

\* The fresh file system has a root and no entries.
LEMMA InitIInv == Init => IInv
<1> SUFFICES ASSUME Init PROVE IInv
  OBVIOUS
<1> USE RootInode DEF Init
<1>1. TypeOK
  <2>1. DiskOK
    BY Limit DEF DiskOK, Root
  <2>2. call.ino \in Inodes \cup {0} /\ call.dir \in Inodes
    BY DEF Idle
  <2>3. cut \in BOOLEAN /\ blind \in BOOLEAN
    BY Zenon
  <2> QED BY <2>1, <2>2, <2>3, Zenon DEF TypeOK
<1>2. EntriesLead /\ EntriesReachable
  BY <1>1 DEF EntriesLead, EntriesReachable
<1>3. Stages
  BY DEF Stages, Idle, Root
<1>4. Dirs /\ Sighted
  BY DEF Dirs, Sighted, Idle, Root
<1> QED BY <1>2, <1>3, <1>4 DEF IInv

-----------------------------------------------------------------------------
(* A call begins, or ends early *)

\* What holds of no call at all.
LEMMA IdleCall ==
  /\ Idle.at = "idle" /\ Idle.dir = Root /\ Idle.ino = 0 /\ Idle.name = 0
  /\ Idle \in [op : {"idle", "create", "mkdir", "unlink", "rmdir"},
               at : {"idle", "alloc", "inode", "entry", "dots", "parent",
                     "remove", "unparent", "drop"},
               dir : Inodes, name : Names \cup {0}, ino : Inodes \cup {0}]
BY RootInode DEF Idle

\* The induction hypothesis, in parts.
LEMMA Parts ==
  ASSUME IInv
  PROVE  DiskOK /\ Lead /\ EntriesReachable /\ Stages /\ Dirs /\ Sighted
BY Zenon DEF IInv, EntriesLead, TypeOK, Lead

\* The histories are Boolean.
LEMMA Flags == ASSUME IInv PROVE cut \in BOOLEAN /\ blind \in BOOLEAN
BY Zenon DEF IInv, EntriesLead, TypeOK

\* What an entry is made of.
LEMMA EntryTypes ==
  ASSUME IInv, NEW e \in entries
  PROVE  e.dir \in Inodes /\ e.name \in Names /\ e.ino \in Inodes
<1>1. entries \subseteq [dir : Inodes, name : Names, ino : Inodes]
  BY Parts, Zenon DEF DiskOK
<1> QED BY <1>1

\* A call begins or ends: the disk is as it was.
LEMMA DiskKept ==
  ASSUME IInv, UNCHANGED diskVars, cut' \in BOOLEAN, blind' \in BOOLEAN,
         ~ blind' => ~ blind, Stages', Sighted'
  PROVE  IInv'
<1>1. DiskOK'
  <2>1. /\ entries' = entries /\ used' = used /\ kind' = kind
        /\ links' = links /\ dotdot' = dotdot
    BY Zenon DEF diskVars
  <2> QED BY <2>1, Parts, Zenon DEF DiskOK
<1>2. call'.ino \in Inodes \cup {0} /\ call'.dir \in Inodes
  BY DEF Stages
<1>3. Lead'
  BY Parts DEF diskVars, Lead
<1>4. EntriesReachable'
  BY Parts DEF diskVars, EntriesReachable
<1>5. Dirs'
  BY Parts DEF diskVars, Dirs
<1> QED BY <1>1, <1>2, <1>3, <1>4, <1>5, Zenon
           DEF IInv, EntriesLead, TypeOK, Lead

\* No call is under way.
LEMMA ReturnKeeps ==
  ASSUME IInv, Return, UNCHANGED <<diskVars, blind>>, cut' \in BOOLEAN
  PROVE  IInv'
<1>1. Stages'
  BY IdleCall, Parts DEF Return, diskVars, Stages, Dirs
<1>2. Sighted'
  BY IdleCall DEF Return, Sighted
<1>3. UNCHANGED diskVars /\ blind' = blind /\ blind' \in BOOLEAN
  BY Flags, Zenon
<1> QED BY <1>1, <1>2, <1>3, DiskKept

\* A directory that a path leads to is marked.
LEMMA ReachedUsed ==
  ASSUME IInv, NEW d \in Reached
  PROVE  /\ d \in Inodes /\ d \in used /\ kind[d] = "dir"
         /\ d = Root \/ \E f \in entries : f.ino = d
BY Parts DEF Reached, Lead, Dirs

\* A call begins with what it has looked up.
LEMMA BeginKeeps == ASSUME IInv, Begin PROVE IInv'
<1>1. ASSUME NEW op \in {"create", "mkdir"}, NEW d \in Inodes, NEW n \in Names,
             Create(op, d, n)
      PROVE  IInv'
  <2>1. UNCHANGED diskVars /\ cut' \in BOOLEAN /\ blind' \in BOOLEAN
    BY <1>1, Flags, Zenon DEF Create, Unseen
  <2>2. ~ blind' => ~ blind /\ Entry(d, n) = {}
    BY <1>1, Zenon DEF Create, Unseen
  <2>3. call' = [op |-> op, at |-> "alloc", dir |-> d, name |-> n, ino |-> 0]
    BY <1>1 DEF Create
  <2>4. /\ d \in used /\ kind[d] = "dir"
        /\ d = Root \/ \E f \in entries : f.ino = d
    BY <1>1, ReachedUsed DEF Create
  <2>5. Stages'
    BY <2>1, <2>3, <2>4 DEF Stages, diskVars
  <2>6. Sighted'
    BY <2>1, <2>2, <2>3, <2>4 DEF Sighted, Entry, diskVars
  <2> QED BY <2>1, <2>2, <2>5, <2>6, DiskKept
<1>2. ASSUME NEW d \in Inodes, NEW e \in entries, ext2_unlink(d, e)
      PROVE  IInv'
  <2>1. /\ UNCHANGED diskVars /\ cut' \in BOOLEAN
        /\ blind' \in BOOLEAN /\ blind' = blind
    BY <1>2, Flags, Zenon DEF ext2_unlink
  <2>2. call' = [op |-> "unlink", at |-> "remove", dir |-> d, name |-> e.name,
                 ino |-> e.ino]
    BY <1>2 DEF ext2_unlink
  <2>3. /\ d \in used /\ kind[d] = "dir" /\ kind[e.ino] # "dir"
        /\ e.name \in Names /\ e.ino \in Inodes
    BY <1>2, ReachedUsed, EntryTypes DEF ext2_unlink
  <2>4. Stages'
    BY <2>1, <2>2, <2>3 DEF Stages, diskVars
  <2>5. Sighted'
    BY <2>1, <2>2, <2>3, Parts DEF Sighted, Dirs, Empty, diskVars
  <2> QED BY <2>1, <2>4, <2>5, DiskKept
<1>3. ASSUME NEW d \in Inodes, NEW e \in entries, ext2_rmdir(d, e)
      PROVE  IInv'
  <2>1. UNCHANGED diskVars /\ cut' \in BOOLEAN /\ blind' \in BOOLEAN
    BY <1>3, Flags, Zenon DEF ext2_rmdir, Unseen
  <2>2. ~ blind' => ~ blind /\ Empty(e.ino)
    BY <1>3, Zenon DEF ext2_rmdir, Unseen
  <2>3. call' = [op |-> "rmdir", at |-> "remove", dir |-> d, name |-> e.name,
                 ino |-> e.ino]
    BY <1>3 DEF ext2_rmdir
  <2>4. d \in used /\ kind[d] = "dir" /\ e.name \in Names /\ e.ino \in Inodes
    BY <1>3, ReachedUsed, EntryTypes DEF ext2_rmdir
  <2>5. Stages'
    BY <2>1, <2>3, <2>4 DEF Stages, diskVars
  <2>6. Sighted'
    BY <2>1, <2>2, <2>3 DEF Sighted, Empty, diskVars
  <2> QED BY <2>1, <2>2, <2>5, <2>6, DiskKept
<1> QED BY <1>1, <1>2, <1>3 DEF Begin

-----------------------------------------------------------------------------
(* The writes of a call *)

\* The invariant after a write, from its parts.
LEMMA Whole ==
  ASSUME IInv, UNCHANGED <<cut, blind>>, DiskOK', Lead', EntriesReachable',
         Stages', Dirs', Sighted'
  PROVE  IInv'
<1>1. call'.ino \in Inodes \cup {0} /\ call'.dir \in Inodes
  BY DEF Stages
<1>2. cut' \in BOOLEAN /\ blind' \in BOOLEAN
  BY Flags, Zenon
<1> QED BY <1>1, <1>2, Zenon DEF IInv, EntriesLead, TypeOK, Lead

\* The inode was free, so no entry leads to it and none is in it.
LEMMA AllocateKeeps ==
  ASSUME IInv, ext2_allocate_inode, UNCHANGED <<cut, blind>>
  PROVE  IInv'
<1>1. CASE FreeInodes = {}
  <2>1. Return /\ UNCHANGED <<diskVars, blind>> /\ cut' \in BOOLEAN
    BY <1>1, Flags, Zenon DEF ext2_allocate_inode, diskVars
  <2> QED BY <2>1, ReturnKeeps
<1>2. CASE FreeInodes # {}
  <2> DEFINE i == Min(FreeInodes)
  <2>1. /\ call.at = "alloc" /\ used' = used \cup {i} /\ entries' = entries
        /\ kind' = [kind EXCEPT ![i] = "none"]
        /\ links' = [links EXCEPT ![i] = 0]
        /\ dotdot' = [dotdot EXCEPT ![i] = 0]
        /\ call' = [call EXCEPT !.at = "inode", !.ino = i]
    BY <1>2 DEF ext2_allocate_inode, At
  <2>2. i \in Inodes /\ i \notin used
    BY <1>2, FirstFree DEF FreeInodes
  <2> HIDE DEF i
  <2>3. DiskOK'
    BY <2>1, <2>2, Parts, Limit DEF DiskOK
  <2>4. Lead'
    BY <2>1, <2>2, Parts DEF Lead, DiskOK
  <2>5. EntriesReachable'
    BY <2>1, Parts DEF EntriesReachable
  <2>6. Dirs'
    BY <2>1, <2>2, Parts DEF Dirs, DiskOK
  <2>7. Stages'
    BY <2>1, <2>2, Parts DEF Stages, Dirs, Lead, DiskOK, Fresh
  <2>8. Sighted'
    BY <2>1, Parts DEF Sighted, Entry, Stages
  <2> QED BY <2>3, <2>4, <2>5, <2>6, <2>7, <2>8, Whole
<1> QED BY <1>1, <1>2

\* create_file writes the inode while nothing leads to it.
LEMMA WriteInodeKeeps ==
  ASSUME IInv, WriteInode, UNCHANGED <<cut, blind>>
  PROVE  IInv'
<1> DEFINE k == IF call.op = "mkdir" THEN "dir" ELSE "reg"
<1>1. /\ call.at = "inode" /\ call' = [call EXCEPT !.at = "entry"]
      /\ kind' = [kind EXCEPT ![call.ino] = k]
      /\ links' = [links EXCEPT ![call.ino] = 1]
      /\ entries' = entries /\ used' = used /\ dotdot' = dotdot
  BY DEF WriteInode, At, Go
<1>2. k \in {"reg", "dir"}
  OBVIOUS
<1> HIDE DEF k
<1>3. call.ino \in Inodes /\ Fresh(call.ino)
  BY <1>1, Parts DEF Stages
<1>4. DiskOK'
  BY <1>1, <1>2, <1>3, Parts, Limit DEF DiskOK
<1>5. Lead'
  BY <1>1, <1>3, Parts DEF Lead, DiskOK, Fresh
<1>6. EntriesReachable'
  BY <1>1, Parts DEF EntriesReachable
<1>7. Dirs'
  BY <1>1, <1>3, Parts DEF Dirs, DiskOK, Fresh
<1>8. Stages'
  BY <1>1, <1>2, <1>3, Parts DEF Stages, DiskOK, Fresh
<1>9. Sighted'
  BY <1>1, Parts DEF Sighted, Entry, Stages
<1> QED BY <1>4, <1>5, <1>6, <1>7, <1>8, <1>9, Whole

\* The entry leads to an inode that is marked and written.
LEMMA AddEntryKeeps ==
  ASSUME IInv, AddEntry, UNCHANGED <<cut, blind>>
  PROVE  IInv'
<1> DEFINE new == [dir |-> call.dir, name |-> call.name, ino |-> call.ino]
<1>1. /\ call.at = "entry" /\ entries' = entries \cup {new}
      /\ used' = used /\ kind' = kind /\ links' = links /\ dotdot' = dotdot
  BY DEF AddEntry, At
<1>2. \/ call' = Idle
      \/ \E e \in entries' : /\ e.dir = call.dir /\ e.name = call.name
                             /\ call' = [call EXCEPT !.at = "dots", !.ino = e.ino]
  BY DEF AddEntry, Return
<1>3. /\ call.ino \in Inodes /\ Fresh(call.ino) /\ kind[call.ino] # "none"
      /\ call.dir \in used /\ kind[call.dir] = "dir"
      /\ call.dir \in Inodes /\ call.name \in Names
  BY <1>1, Parts DEF Stages
<1>4. new \in [dir : Inodes, name : Names, ino : Inodes]
  BY <1>3
<1>5. new.dir = call.dir /\ new.name = call.name /\ new.ino = call.ino
  OBVIOUS
<1> HIDE DEF new
<1>6. DiskOK'
  BY <1>1, <1>4, Parts DEF DiskOK
<1>7. Lead'
  BY <1>1, <1>3, <1>5, Parts DEF Lead, Fresh
<1>8. EntriesReachable'
  BY <1>1, <1>5, Parts DEF EntriesReachable, Sighted, Entry
<1>9. Dirs'
  BY <1>1, <1>3, <1>5, Parts DEF Dirs
<1>10. Stages'
  <2>1. CASE call' = Idle
    BY <1>1, <2>1, IdleCall, Parts DEF Stages, Dirs
  <2>2. ASSUME NEW e \in entries', e.dir = call.dir, e.name = call.name,
               call' = [call EXCEPT !.at = "dots", !.ino = e.ino]
        PROVE  Stages'
    <3>1. e.ino \in Inodes
      BY <1>6 DEF DiskOK
    <3> QED BY <1>1, <1>3, <2>2, <3>1, Parts DEF Stages
  <2> QED BY <1>2, <2>1, <2>2
<1>11. Sighted'
  BY <1>2, IdleCall, Parts DEF Sighted, Stages
<1> QED BY <1>6, <1>7, <1>8, <1>9, <1>10, <1>11, Whole

\* ".." leads to the directory that has the entry.
LEMMA DotsKeeps ==
  ASSUME IInv, Dots, UNCHANGED <<cut, blind>>
  PROVE  IInv'
<1>1. /\ call.at = "dots" /\ call' = [call EXCEPT !.at = "parent"]
      /\ dotdot' = [dotdot EXCEPT ![call.ino] = call.dir]
      /\ links' = [links EXCEPT ![call.ino] = 2]
      /\ entries' = entries /\ used' = used /\ kind' = kind
  BY DEF Dots, At, Go
<1>2. call.ino \in Inodes /\ call.dir \in Inodes
  BY <1>1, Parts DEF Stages
<1>3. PICK e \in entries : e.dir = call.dir /\ e.ino = call.ino
  BY <1>1, Parts DEF Stages
<1>4. DiskOK'
  BY <1>1, <1>2, Parts, Limit DEF DiskOK
<1>5. Lead'
  BY <1>1, <1>2, <1>3, Parts DEF Lead, DiskOK
<1>6. EntriesReachable'
  BY <1>1, Parts DEF EntriesReachable
<1>7. Dirs'
  BY <1>1, Parts DEF Dirs
<1>8. Stages'
  BY <1>1, <1>2, Parts DEF Stages
<1>9. Sighted'
  BY <1>1, Parts DEF Sighted, Stages
<1> QED BY <1>4, <1>5, <1>6, <1>7, <1>8, <1>9, Whole

\* The directory is empty, so no entry is left behind without a path to it.
LEMMA RemoveEntryKeeps ==
  ASSUME IInv, RemoveEntry, UNCHANGED <<cut, blind>>
  PROVE  IInv'
<1> DEFINE old == [dir |-> call.dir, name |-> call.name, ino |-> call.ino]
           next == IF call.op = "rmdir" THEN "unparent" ELSE "drop"
<1>1. /\ call.at = "remove" /\ call' = [call EXCEPT !.at = next]
      /\ entries' = entries \ {old}
      /\ used' = used /\ kind' = kind /\ links' = links /\ dotdot' = dotdot
  BY DEF RemoveEntry, At, Go
<1>2. next \in {"unparent", "drop"} /\ old.ino = call.ino
  OBVIOUS
<1> HIDE DEF old, next
<1>3. DiskOK'
  BY <1>1, Parts DEF DiskOK
<1>4. Lead'
  BY <1>1, Parts DEF Lead
<1>5. EntriesReachable'
  BY <1>1, <1>2, Parts DEF EntriesReachable, Sighted, Empty
<1>6. Dirs'
  BY <1>1, Parts DEF Dirs
<1>7. Stages'
  BY <1>1, <1>2, Parts DEF Stages
<1>8. Sighted'
  BY <1>1, <1>2, Parts DEF Sighted, Stages
<1> QED BY <1>3, <1>4, <1>5, <1>6, <1>7, <1>8, Whole

\* The last writes of a call change link counts only.
LEMMA LinksKeep ==
  ASSUME IInv, UNCHANGED <<cut, blind, entries, used, kind, dotdot>>,
         links' \in [Inodes -> 0 .. LinkLimit - 1],
         \/ call' = Idle
         \/ call.at = "unparent" /\ call' = [call EXCEPT !.at = "drop"]
  PROVE  IInv'
<1>1. entries' = entries /\ used' = used /\ kind' = kind /\ dotdot' = dotdot
  OBVIOUS
<1>2. UNCHANGED <<cut, blind>>
  BY Zenon
<1>3. DiskOK'
  BY <1>1, Parts DEF DiskOK
<1>4. Lead' /\ Dirs'
  BY <1>1, Parts DEF Lead, Dirs
<1>5. EntriesReachable'
  BY <1>1, Parts DEF EntriesReachable
<1>6. Stages'
  BY <1>1, IdleCall, Parts DEF Stages, Dirs
<1>7. Sighted'
  BY IdleCall, Parts DEF Sighted, Stages
<1> QED BY <1>2, <1>3, <1>4, <1>5, <1>6, <1>7, Whole

\* A link count that wraps is a link count.
LEMMA LinkTypes ==
  ASSUME IInv, NEW i \in Inodes
  PROVE  /\ links \in [Inodes -> 0 .. LinkLimit - 1]
         /\ 0 \in 0 .. LinkLimit - 1
         /\ (links[i] + 1) % LinkLimit \in 0 .. LinkLimit - 1
         /\ (links[i] - 1) % LinkLimit \in 0 .. LinkLimit - 1
<1>1. links \in [Inodes -> 0 .. LinkLimit - 1]
  BY Parts DEF DiskOK
<1>2. links[i] \in Int
  BY <1>1, Limit
<1>3. links[i] + 1 \in Int /\ links[i] - 1 \in Int
  BY <1>2
<1> QED BY <1>1, <1>3, Wrap, Limit

\* Every call, write and failure keeps the inductive invariant.
LEMMA NextIInv == IInv /\ [Next]_vars => IInv'
<1> SUFFICES ASSUME IInv, [Next]_vars PROVE IInv'
  OBVIOUS
<1>1. CASE Begin
  BY <1>1, BeginKeeps
<1>2. CASE Fail
  <2>1. Return /\ UNCHANGED <<diskVars, blind>> /\ cut' \in BOOLEAN
    BY <1>2, Zenon DEF Fail
  <2> QED BY <2>1, ReturnKeeps
<1>3. CASE Continue /\ UNCHANGED <<cut, blind>>
  <2> USE <1>3
  <2>1. CASE ext2_allocate_inode
    BY <2>1, AllocateKeeps
  <2>2. CASE WriteInode
    BY <2>2, WriteInodeKeeps
  <2>3. CASE AddEntry
    BY <2>3, AddEntryKeeps
  <2>4. CASE Dots
    BY <2>4, DotsKeeps
  <2>5. CASE ParentLink
    <3>1. links' \in [Inodes -> 0 .. LinkLimit - 1]
      <4>1. call.dir \in Inodes
        BY <2>5, Parts DEF ParentLink, At, Stages
      <4> QED BY <2>5, <4>1, LinkTypes DEF ParentLink
    <3> QED BY <2>5, <3>1, LinksKeep DEF ParentLink, Return
  <2>6. CASE RemoveEntry
    BY <2>6, RemoveEntryKeeps
  <2>7. CASE ParentUnlink
    <3>1. links' \in [Inodes -> 0 .. LinkLimit - 1]
      <4>1. call.dir \in Inodes
        BY <2>7, Parts DEF ParentUnlink, At, Stages
      <4> QED BY <2>7, <4>1, LinkTypes DEF ParentUnlink
    <3> QED BY <2>7, <3>1, LinksKeep DEF ParentUnlink, At, Go
  <2>8. CASE DropInode
    <3>1. links' \in [Inodes -> 0 .. LinkLimit - 1]
      <4>1. call.ino \in Inodes
        BY <2>8, Parts DEF DropInode, At, Stages
      <4> QED BY <2>8, <4>1, LinkTypes DEF DropInode
    <3> QED BY <2>8, <3>1, LinksKeep DEF DropInode, Return
  <2> QED BY <2>1, <2>2, <2>3, <2>4, <2>5, <2>6, <2>7, <2>8 DEF Continue
<1>4. CASE UNCHANGED vars
  <2>1. /\ UNCHANGED diskVars /\ call' = call /\ blind' = blind
        /\ cut' \in BOOLEAN /\ blind' \in BOOLEAN
    BY <1>4, Flags, Zenon DEF vars
  <2>2. Stages' /\ Sighted'
    BY <2>1, Parts DEF Stages, Sighted, Fresh, Entry, Empty, diskVars
  <2> QED BY <2>1, <2>2, DiskKept
<1> QED BY <1>1, <1>2, <1>3, <1>4 DEF Next

-----------------------------------------------------------------------------
\* Wherever calls are cut off, every entry leads to a marked and written inode
\* that is its own: ext2_create_file and ext2_mkdir write in the right order.
THEOREM NoDanglingEntry == Spec => []EntriesLead
<1>1. IInv => EntriesLead
  BY DEF IInv
<1> QED BY <1>1, InitIInv, NextIInv, PTL DEF Spec

\* While every block can be read, ext2_rmdir strands no entry and creation
\* makes no name twice, wherever calls are cut off.
THEOREM NoStrandedEntry == Spec => []EntriesReachable
<1>1. IInv => EntriesReachable
  BY DEF IInv
<1> QED BY <1>1, InitIInv, NextIInv, PTL DEF Spec
-----------------------------------------------------------------------------
(* Link counts.  They have 16 bits: in a directory with too many             *)
(* subdirectories the count wraps, so what holds of every file system holds  *)
(* modulo LinkLimit.                                                         *)

Named(i)   == i = Root \/ \E e \in entries : e.ino = i
NamesOf(i) == {e \in entries : e.ino = i}
Subs(i) ==
  {d \in Inodes \ {Root} : dotdot[d] = i /\ \E e \in entries : e.ino = d}

\* What the call under way has still to add to a count.
Due(i) ==
  IF i = call.dir /\ call.at = "parent" THEN 1
  ELSE IF i = call.dir /\ call.at = "unparent" THEN 0 - 1 ELSE 0

Counted ==
  \A i \in Inodes : Named(i) => links[i] = (References(i) - Due(i)) % LinkLimit

\* Directories have "..", but for one that is being made; files have none.
Dotted ==
  /\ \A d \in Reached : dotdot[d] # 0 \/ (call.at = "dots" /\ d = call.ino)
  /\ \A e \in entries : kind[e.ino] # "dir" => dotdot[e.ino] = 0

\* What a call that runs to its end relies on.
Progress ==
  /\ call.at = "entry" =>
       /\ links[call.ino] = 1
       /\ call.op = "mkdir" <=> kind[call.ino] = "dir"
  /\ call.at = "dots" =>
       /\ kind[call.ino] = "dir" /\ call.ino # call.dir /\ Empty(call.ino)
       /\ dotdot[call.ino] = 0
  /\ call.at = "remove" =>
       /\ [dir |-> call.dir, name |-> call.name, ino |-> call.ino] \in entries
       /\ call.op = "rmdir" <=> kind[call.ino] = "dir"
  /\ call.at \in {"unparent", "drop"} => ~ Named(call.ino)

LInv ==
  /\ \A e \in entries : e.ino # Root
  /\ ~ cut /\ ~ blind => Counted /\ Dotted /\ Progress

\* Counting modulo LinkLimit: one more and one less cancel out.
LEMMA WrapBack ==
  ASSUME NEW n \in Int
  PROVE  /\ (((n - 1) % LinkLimit) + 1) % LinkLimit = n % LinkLimit
         /\ (((n + 1) % LinkLimit) - 1) % LinkLimit = n % LinkLimit
BY DEF LinkLimit

\* Counts that have room do not wrap.
LEMMA NoWrap == ASSUME NEW n \in Nat, n < LinkLimit PROVE n % LinkLimit = n
BY DEF LinkLimit

\* Few sets are counted: the names of an inode, of which there is at most one,
\* and its subdirectories.
LEMMA Counts ==
  ASSUME IInv, NEW i \in Inodes
  PROVE  /\ IsFiniteSet(Subs(i)) /\ Cardinality(Subs(i)) \in Nat
         /\ NamesOf(i) = {} => Cardinality(NamesOf(i)) = 0
         /\ NamesOf(i) # {} => Cardinality(NamesOf(i)) = 1
         /\ Cardinality(NamesOf(i)) \in Nat
<1>1. IsFiniteSet(Inodes)
  BY FS_Interval DEF Inodes
<1>2. IsFiniteSet(Subs(i))
  <2>1. Subs(i) \subseteq Inodes
    BY DEF Subs
  <2> QED BY <1>1, <2>1, FS_Subset
<1>3. Cardinality(Subs(i)) \in Nat
  BY <1>2, FS_CardinalityType
<1>4. NamesOf(i) = {} => Cardinality(NamesOf(i)) = 0
  BY FS_EmptySet
<1>5. ASSUME NamesOf(i) # {} PROVE Cardinality(NamesOf(i)) = 1
  <2>1. PICK e : e \in NamesOf(i)
    BY <1>5
  <2>2. NamesOf(i) = {e}
    BY <2>1, Parts DEF NamesOf, Lead
  <2> QED BY <2>2, FS_Singleton
<1> QED BY <1>2, <1>3, <1>4, <1>5

\* References are what NamesOf and Subs count.
LEMMA RefsAre ==
  ASSUME NEW i \in Inodes
  PROVE  References(i) =
           Cardinality(NamesOf(i)) + (IF dotdot[i] # 0 THEN 1 ELSE 0)
             + Cardinality(Subs(i)) + (IF i = Root THEN 1 ELSE 0)
BY DEF References, NamesOf, Subs

\* A number of references is a natural number.
LEMMA RefsType == ASSUME IInv, NEW i \in Inodes PROVE References(i) \in Nat
BY RefsAre, Counts

\* References change with the entries and with "..".
LEMMA SameRefs ==
  ASSUME NEW i \in Inodes, NamesOf(i)' = NamesOf(i), Subs(i)' = Subs(i),
         dotdot'[i] = dotdot[i]
  PROVE  References(i)' = References(i)
<1>1. References(i)' =
        Cardinality(NamesOf(i)') + (IF dotdot'[i] # 0 THEN 1 ELSE 0)
          + Cardinality(Subs(i)') + (IF i = Root THEN 1 ELSE 0)
  BY DEF References, NamesOf, Subs
<1> QED BY <1>1, RefsAre

\* The fresh file system.
LEMMA InitLInv == Init => LInv
<1> SUFFICES ASSUME Init PROVE LInv
  OBVIOUS
<1>1. entries = {} /\ call.at = "idle"
  BY IdleCall DEF Init
<1>2. Root \in Inodes /\ dotdot[Root] = Root /\ links[Root] = 2 /\ Root # 0
  BY RootInode DEF Init
<1>3. NamesOf(Root) = {} /\ Subs(Root) = {}
  BY <1>1 DEF NamesOf, Subs
<1>4. References(Root) = 2
  BY <1>2, <1>3, RefsAre, FS_EmptySet
<1>5. Counted
  <2>1. 2 % LinkLimit = 2
    BY NoWrap, Limit
  <2>2. Due(Root) = 0
    BY <1>1 DEF Due
  <2>3. \A i \in Inodes : Named(i) => i = Root
    BY <1>1 DEF Named
  <2> QED BY <1>2, <1>4, <2>1, <2>2, <2>3 DEF Counted
<1>6. Dotted /\ Progress
  BY <1>1, <1>2 DEF Dotted, Progress, Reached
<1> QED BY <1>1, <1>5, <1>6 DEF LInv
\* A step that leaves the names alone.
LEMMA TreeKept ==
  ASSUME UNCHANGED <<entries, dotdot>>
  PROVE  \A i \in Inodes : /\ References(i)' = References(i)
                           /\ Named(i)' = Named(i)
<1>1. entries' = entries /\ dotdot' = dotdot
  OBVIOUS
<1> TAKE i \in Inodes
<1>2. NamesOf(i)' = NamesOf(i) /\ Subs(i)' = Subs(i) /\ Named(i)' = Named(i)
  BY <1>1 DEF NamesOf, Subs, Named
<1> QED BY <1>1, <1>2, SameRefs

\* A call begins: everything is counted and nothing is due.
LEMMA BeginCounts == ASSUME IInv, LInv, Begin PROVE LInv'
<1>1. UNCHANGED diskVars /\ call = Idle /\ cut' = cut /\ (~ blind' => ~ blind)
  <2>1. ASSUME NEW op \in {"create", "mkdir"}, NEW d \in Inodes,
               NEW n \in Names, Create(op, d, n)
        PROVE  UNCHANGED diskVars /\ call = Idle /\ cut' = cut /\ (~ blind' => ~ blind)
    <3>1. UNCHANGED diskVars /\ call = Idle /\ cut' = cut
      BY <2>1, Zenon DEF Create
    <3>2. ~ blind' => ~ blind
      BY <2>1, Zenon DEF Create, Unseen
    <3> QED BY <3>1, <3>2, Zenon
  <2>2. ASSUME NEW d \in Inodes, NEW e \in entries, ext2_unlink(d, e)
        PROVE  UNCHANGED diskVars /\ call = Idle /\ cut' = cut /\ (~ blind' => ~ blind)
    BY <2>2, Zenon DEF ext2_unlink
  <2>3. ASSUME NEW d \in Inodes, NEW e \in entries, ext2_rmdir(d, e)
        PROVE  UNCHANGED diskVars /\ call = Idle /\ cut' = cut /\ (~ blind' => ~ blind)
    <3>1. UNCHANGED diskVars /\ call = Idle /\ cut' = cut
      BY <2>3, Zenon DEF ext2_rmdir
    <3>2. ~ blind' => ~ blind
      BY <2>3, Zenon DEF ext2_rmdir, Unseen
    <3> QED BY <3>1, <3>2, Zenon
  <2> QED BY <2>1, <2>2, <2>3 DEF Begin
<1>2. /\ entries' = entries /\ used' = used /\ kind' = kind /\ links' = links
      /\ dotdot' = dotdot
  BY <1>1 DEF diskVars
<1>3. \A e \in entries' : e.ino # Root
  BY <1>2 DEF LInv
<1>4. ASSUME ~ cut', ~ blind' PROVE Counted' /\ Dotted' /\ Progress'
  <2>1. Counted /\ Dotted /\ Progress
    BY <1>1, <1>4 DEF LInv
  <2>2. call.at = "idle"
    BY <1>1, IdleCall
  <2>3. \/ call'.at = "alloc"
        \/ \E e \in entries :
             /\ call'.at = "remove" /\ e.dir = call'.dir
             /\ e.name = call'.name /\ e.ino = call'.ino
             /\ (call'.op = "rmdir") <=> (kind[e.ino] = "dir")
    <3>1. ASSUME NEW op \in {"create", "mkdir"}, NEW d \in Inodes,
                 NEW n \in Names, Create(op, d, n)
          PROVE  call'.at = "alloc"
      BY <3>1 DEF Create
    <3>2. ASSUME NEW d \in Inodes, NEW e \in entries, ext2_unlink(d, e)
          PROVE  /\ call'.at = "remove" /\ e.dir = call'.dir
                 /\ e.name = call'.name /\ e.ino = call'.ino
                 /\ call'.op = "unlink" /\ kind[e.ino] # "dir"
      BY <3>2 DEF ext2_unlink
    <3>3. ASSUME NEW d \in Inodes, NEW e \in entries, ext2_rmdir(d, e)
          PROVE  /\ call'.at = "remove" /\ e.dir = call'.dir
                 /\ e.name = call'.name /\ e.ino = call'.ino
                 /\ call'.op = "rmdir" /\ kind[e.ino] = "dir"
      BY <3>3 DEF ext2_rmdir
    <3> QED BY <3>1, <3>2, <3>3 DEF Begin
  <2>4. \A i \in Inodes : Due(i) = 0 /\ Due(i)' = 0
    BY <2>2, <2>3 DEF Due
  <2>5. Counted'
    BY <1>2, <2>1, <2>4, TreeKept DEF Counted
  <2>6. Dotted'
    BY <1>2, <2>1, <2>2 DEF Dotted, Reached
  <2>7. Progress'
    <3>1. CASE call'.at = "alloc"
      BY <3>1 DEF Progress
    <3>2. ASSUME NEW e \in entries,
                 call'.at = "remove", e.dir = call'.dir,
                 e.name = call'.name, e.ino = call'.ino,
                 (call'.op = "rmdir") <=> (kind[e.ino] = "dir")
          PROVE  Progress'
      <4>1. e \in [dir : Inodes, name : Names, ino : Inodes]
        BY Parts DEF DiskOK
      <4>2. e = [dir |-> call'.dir, name |-> call'.name, ino |-> call'.ino]
        BY <3>2, <4>1
      <4> QED BY <1>2, <3>2, <4>2 DEF Progress
    <3> QED BY <2>3, <3>1, <3>2
  <2> QED BY <2>5, <2>6, <2>7
<1> QED BY <1>3, <1>4 DEF LInv

\* Nothing leads to a free inode.
LEMMA AllocateCounts ==
  ASSUME IInv, LInv, ext2_allocate_inode, UNCHANGED <<cut, blind>> PROVE LInv'
<1>1. cut' = cut /\ blind' = blind /\ call.at = "alloc" /\ entries' = entries
  BY Zenon DEF ext2_allocate_inode, At
<1>2. \A e \in entries' : e.ino # Root
  BY <1>1 DEF LInv
<1>3. ASSUME ~ cut', ~ blind' PROVE Counted' /\ Dotted' /\ Progress'
  <2>1. Counted /\ Dotted /\ Progress
    BY <1>1, <1>3 DEF LInv
  <2>2. CASE FreeInodes = {}
    <3>1. /\ call' = Idle /\ kind' = kind /\ links' = links /\ dotdot' = dotdot
      BY <2>2 DEF ext2_allocate_inode, Return
    <3>2. \A i \in Inodes : Due(i) = 0 /\ Due(i)' = 0
      BY <1>1, <3>1, IdleCall DEF Due
    <3>3. Counted'
      BY <1>1, <2>1, <3>1, <3>2, TreeKept DEF Counted
    <3>4. Dotted'
      BY <1>1, <2>1, <3>1 DEF Dotted, Reached
    <3>5. Progress'
      BY <3>1, IdleCall DEF Progress
    <3> QED BY <3>3, <3>4, <3>5
  <2>3. CASE FreeInodes # {}
    <3> DEFINE i == Min(FreeInodes)
    <3>1. /\ kind' = [kind EXCEPT ![i] = "none"]
          /\ links' = [links EXCEPT ![i] = 0]
          /\ dotdot' = [dotdot EXCEPT ![i] = 0]
          /\ call' = [call EXCEPT !.at = "inode", !.ino = i]
      BY <2>3 DEF ext2_allocate_inode
    <3>2. i \in Inodes /\ i \notin used
      BY <2>3, FirstFree DEF FreeInodes
    <3> HIDE DEF i
    <3>3. i # Root /\ \A e \in entries : e.ino # i
      BY <3>2, Parts DEF Lead, Dirs
    <3>4. call'.at = "inode"
      BY <3>1, Parts DEF Stages
    <3>5. \A j \in Inodes : Due(j) = 0 /\ Due(j)' = 0
      BY <1>1, <3>4 DEF Due
    <3>6. ASSUME NEW j \in Inodes, j # i
          PROVE  References(j)' = References(j)
      <4>1. dotdot'[j] = dotdot[j]
        BY <3>1, <3>6, Parts DEF DiskOK
      <4>2. NamesOf(j)' = NamesOf(j)
        BY <1>1 DEF NamesOf
      <4>3. Subs(j)' = Subs(j)
        BY <1>1, <3>1, <3>3, Parts DEF Subs, DiskOK
      <4> QED BY <4>1, <4>2, <4>3, SameRefs
    <3>7. Counted'
      <4>1. \A j \in Inodes : Named(j)' => Named(j) /\ j # i
        BY <1>1, <3>3 DEF Named
      <4>2. \A j \in Inodes : j # i => links'[j] = links[j]
        BY <3>1, Parts DEF DiskOK
      <4> QED BY <2>1, <3>5, <3>6, <4>1, <4>2 DEF Counted
    <3>8. Dotted'
      BY <1>1, <2>1, <3>1, <3>3, <3>4, Parts DEF Dotted, Reached, DiskOK
    <3>9. Progress'
      BY <3>4 DEF Progress
    <3> QED BY <3>7, <3>8, <3>9
  <2> QED BY <2>2, <2>3
<1> QED BY <1>2, <1>3 DEF LInv

\* The inode that is written has no name yet.
LEMMA WriteInodeCounts ==
  ASSUME IInv, LInv, WriteInode, UNCHANGED <<cut, blind>> PROVE LInv'
<1>1. cut' = cut /\ blind' = blind
  BY Zenon
<1>2. /\ call.at = "inode" /\ call' = [call EXCEPT !.at = "entry"]
      /\ kind' = [kind EXCEPT ![call.ino] = IF call.op = "mkdir" THEN "dir"
                                            ELSE "reg"]
      /\ links' = [links EXCEPT ![call.ino] = 1]
      /\ entries' = entries /\ used' = used /\ dotdot' = dotdot
  BY DEF WriteInode, At, Go
<1>3. call.ino \in Inodes /\ Fresh(call.ino)
  BY <1>2, Parts DEF Stages
<1>4. call'.at = "entry" /\ call'.ino = call.ino /\ call'.op = call.op
  BY <1>2, Parts DEF Stages
<1>5. \A e \in entries' : e.ino # Root
  BY <1>2 DEF LInv
<1>6. ASSUME ~ cut', ~ blind' PROVE Counted' /\ Dotted' /\ Progress'
  <2>1. Counted /\ Dotted /\ Progress
    BY <1>1, <1>6 DEF LInv
  <2>2. \A j \in Inodes : Due(j) = 0 /\ Due(j)' = 0
    BY <1>2, <1>4 DEF Due
  <2>3. \A j \in Inodes : Named(j)' => j # call.ino /\ Named(j)
    BY <1>2, <1>3 DEF Named, Fresh
  <2>4. \A j \in Inodes : j # call.ino => links'[j] = links[j]
    BY <1>2, Parts DEF DiskOK
  <2>5. Counted'
    BY <1>2, <2>1, <2>2, <2>3, <2>4, TreeKept DEF Counted
  <2>6. Dotted'
    BY <1>2, <1>3, <1>4, <2>1, Parts DEF Dotted, Reached, Fresh, DiskOK
  <2>7. Progress'
    <3>1. /\ links'[call.ino] = 1
          /\ call.op = "mkdir" <=> kind'[call.ino] = "dir"
      BY <1>2, <1>3, Parts DEF DiskOK
    <3> QED BY <1>4, <3>1 DEF Progress
  <2> QED BY <2>5, <2>6, <2>7
<1> QED BY <1>5, <1>6 DEF LInv
\* The new entry is the one reference to its inode.
LEMMA AddEntryCounts ==
  ASSUME IInv, LInv, AddEntry, UNCHANGED <<cut, blind>> PROVE LInv'
<1>1. cut' = cut /\ blind' = blind
  BY Zenon
<1>2. /\ call.at = "entry"
      /\ used' = used /\ kind' = kind /\ links' = links /\ dotdot' = dotdot
  BY DEF AddEntry, At
<1>3. \/ call.op # "mkdir" /\ call' = Idle
      \/ call.op = "mkdir" /\ \E e \in entries' :
           /\ e.dir = call.dir /\ e.name = call.name
           /\ call' = [call EXCEPT !.at = "dots", !.ino = e.ino]
  BY DEF AddEntry, Return
<1>4. PICK i \in Inodes : i = call.ino /\ Fresh(i)
  BY <1>2, Parts DEF Stages
<1>5. PICK new : /\ new.dir = call.dir /\ new.name = call.name /\ new.ino = i
                 /\ entries' = entries \cup {new}
  BY <1>4 DEF AddEntry
<1>6. \A e \in entries' : e.ino # Root
  BY <1>2, <1>4, <1>5 DEF LInv, Fresh
<1>7. ASSUME ~ cut', ~ blind' PROVE Counted' /\ Dotted' /\ Progress'
  <2>1. Counted /\ Dotted /\ Progress
    BY <1>1, <1>7 DEF LInv
  <2>2. links[i] = 1 /\ (call.op = "mkdir" <=> kind[i] = "dir")
    BY <1>2, <1>4, <2>1 DEF Progress
  <2>3. \/ call.op # "mkdir" /\ call'.at = "idle"
        \/ /\ call.op = "mkdir" /\ call'.at = "dots" /\ call'.ino = i
           /\ call'.dir = call.dir
    <3>1. Entry(call.dir, call.name) = {}
      BY <1>1, <1>2, <1>7, Parts DEF Sighted
    <3>2. \A e \in entries' :
            e.dir = call.dir /\ e.name = call.name => e.ino = i
      BY <1>2, <1>5, <3>1 DEF Entry
    <3> QED BY <1>3, <3>2, IdleCall, Parts DEF Stages
  <2>4. \A j \in Inodes : Due(j) = 0 /\ Due(j)' = 0
    BY <1>2, <2>3 DEF Due
  <2>5. dotdot[i] = 0 /\ i # Root /\ \A e \in entries : e.ino # i /\ e.dir # i
    BY <1>4 DEF Fresh
  <2>6. ASSUME NEW j \in Inodes, j # i
        PROVE  References(j)' = References(j) /\ (Named(j)' => Named(j))
    <3>1. NamesOf(j)' = NamesOf(j)
      BY <1>2, <1>5, <2>6 DEF NamesOf
    <3>2. Subs(j)' = Subs(j)
      BY <1>2, <1>5, <2>5, RootInode DEF Subs
    <3> QED BY <1>2, <1>5, <2>6, <3>1, <3>2, SameRefs DEF Named
  <2>7. References(i)' = 1
    <3>1. NamesOf(i)' = {new}
      BY <1>2, <1>5, <2>5 DEF NamesOf
    <3>2. Subs(i)' = {}
      BY <1>2, <1>4, <1>5, <2>5, Parts, RootInode DEF Subs, Lead
    <3>3. References(i)' =
            Cardinality(NamesOf(i)') + (IF dotdot'[i] # 0 THEN 1 ELSE 0)
              + Cardinality(Subs(i)') + (IF i = Root THEN 1 ELSE 0)
      BY DEF References, NamesOf, Subs
    <3>4. Cardinality(NamesOf(i)') = 1 /\ Cardinality(Subs(i)') = 0
      BY <3>1, <3>2, FS_EmptySet, FS_Singleton
    <3> QED BY <1>2, <2>5, <3>3, <3>4
  <2>8. Counted'
    <3>1. 1 % LinkLimit = 1
      BY NoWrap, Limit
    <3>2. ASSUME NEW j \in Inodes, Named(j)'
          PROVE  links'[j] = (References(j)' - Due(j)') % LinkLimit
      <4>1. CASE j = i
        BY <1>2, <2>2, <2>4, <2>7, <3>1, <4>1
      <4>2. CASE j # i
        BY <1>2, <2>1, <2>4, <2>6, <3>2, <4>2 DEF Counted
      <4> QED BY <4>1, <4>2
    <3> QED BY <3>2 DEF Counted
  <2>9. Dotted'
    <3>1. ASSUME NEW d \in Reached'
          PROVE  dotdot'[d] # 0 \/ (call'.at = "dots" /\ d = call'.ino)
      <4>1. CASE d = i
        BY <1>2, <2>2, <2>3, <3>1, <4>1 DEF Reached
      <4>2. CASE d # i
        <5>1. d \in Reached
          BY <1>2, <1>5, <3>1, <4>2 DEF Reached
        <5> QED BY <1>2, <2>1, <5>1 DEF Dotted
      <4> QED BY <4>1, <4>2
    <3>2. \A e \in entries' : kind'[e.ino] # "dir" => dotdot'[e.ino] = 0
      BY <1>2, <1>5, <2>1, <2>5 DEF Dotted
    <3> QED BY <3>1, <3>2 DEF Dotted
  <2>10. Progress'
    <3>1. CASE call'.at = "idle"
      BY <3>1 DEF Progress
    <3>2. CASE /\ call.op = "mkdir" /\ call'.at = "dots" /\ call'.ino = i
               /\ call'.dir = call.dir
      <4>1. kind'[i] = "dir" /\ dotdot'[i] = 0 /\ i # call.dir
        BY <1>2, <1>4, <2>2, <2>5, <3>2 DEF Fresh
      <4>2. \A e \in entries' : e.dir # i
        BY <1>5, <2>5, <4>1
      <4> QED BY <3>2, <4>1, <4>2 DEF Progress, Empty
    <3> QED BY <2>3, <3>1, <3>2
  <2> QED BY <2>8, <2>9, <2>10
<1> QED BY <1>6, <1>7 DEF LInv
\* "." and ".." are two references, one to the new directory and one to its
\* parent, whose count is still to be written.
LEMMA DotsCounts ==
  ASSUME IInv, LInv, Dots, UNCHANGED <<cut, blind>> PROVE LInv'
<1>1. cut' = cut /\ blind' = blind
  BY Zenon
<1>2. /\ call.at = "dots" /\ entries' = entries /\ kind' = kind
  BY DEF Dots, At
<1>3. PICK i \in Inodes, p \in Inodes : i = call.ino /\ p = call.dir
  BY <1>2, Parts DEF Stages
<1>4. /\ dotdot' = [dotdot EXCEPT ![i] = p]
      /\ links' = [links EXCEPT ![i] = 2]
      /\ call'.at = "parent" /\ call'.dir = p
  BY <1>3, Parts DEF Dots, Go, Stages
<1>5. \A e \in entries' : e.ino # Root
  BY <1>2 DEF LInv
<1>6. PICK e \in entries : e.ino = i /\ e.dir = p
  BY <1>2, <1>3, Parts DEF Stages
<1>7. ASSUME ~ cut', ~ blind' PROVE Counted' /\ Dotted' /\ Progress'
  <2>1. Counted /\ Dotted /\ Progress
    BY <1>1, <1>7 DEF LInv
  <2>2. /\ kind[i] = "dir" /\ i # p /\ dotdot[i] = 0 /\ i # Root
        /\ \A f \in entries : f.dir # i
    BY <1>2, <1>3, <1>6, <2>1 DEF Progress, Empty, LInv
  <2>3. /\ \A j \in Inodes : Due(j) = 0
        /\ Due(p)' = 1 /\ \A j \in Inodes : j # p => Due(j)' = 0
    BY <1>2, <1>4 DEF Due
  <2>4. \A j \in Inodes : /\ NamesOf(j)' = NamesOf(j) /\ Named(j)' = Named(j)
                          /\ j # i => dotdot'[j] = dotdot[j]
                          /\ j # i => links'[j] = links[j]
    BY <1>2, <1>4, Parts DEF NamesOf, Named, DiskOK
  <2>5. dotdot'[i] = p /\ links'[i] = 2 /\ p # 0
    BY <1>4, Parts, RootInode DEF DiskOK
  <2>6. ASSUME NEW j \in Inodes
        PROVE  References(j)' =
                 Cardinality(NamesOf(j)') + (IF dotdot'[j] # 0 THEN 1 ELSE 0)
                   + Cardinality(Subs(j)') + (IF j = Root THEN 1 ELSE 0)
    BY DEF References, NamesOf, Subs
  <2>7. ASSUME NEW j \in Inodes, j # i, j # p
        PROVE  References(j)' = References(j)
    <3>1. Subs(j)' = Subs(j)
      BY <1>2, <2>2, <2>4, <2>5, <2>7, RootInode DEF Subs
    <3> QED BY <2>4, <2>7, <3>1, SameRefs
  <2>8. References(i)' = 2
    <3>1. Subs(i)' = {}
      BY <1>2, <2>2, <2>4, <2>5, Parts, RootInode DEF Subs, Lead
    <3>2. NamesOf(i)' # {} /\ NamesOf(i)' = NamesOf(i)
      BY <1>6, <2>4 DEF NamesOf
    <3>3. Cardinality(NamesOf(i)') = 1 /\ Cardinality(Subs(i)') = 0
      BY <3>1, <3>2, Counts, FS_EmptySet
    <3> QED BY <2>2, <2>5, <2>6, <3>3
  <2>9. References(p)' = References(p) + 1
    <3>1. Subs(p)' = Subs(p) \cup {i} /\ i \notin Subs(p)
      BY <1>2, <1>6, <2>2, <2>4, <2>5, RootInode DEF Subs
    <3>2. Cardinality(Subs(p)') = Cardinality(Subs(p)) + 1
      BY <3>1, Counts, FS_AddElement
    <3>3. NamesOf(p)' = NamesOf(p) /\ dotdot'[p] = dotdot[p]
      BY <2>2, <2>4
    <3> QED BY <2>6, <3>2, <3>3, RefsAre, Counts
  <2>10. Counted'
    <3>1. 2 % LinkLimit = 2
      BY NoWrap, Limit
    <3>2. ASSUME NEW j \in Inodes, Named(j)'
          PROVE  links'[j] = (References(j)' - Due(j)') % LinkLimit
      <4>1. Named(j)
        BY <2>4, <3>2
      <4>2. CASE j = i
        BY <2>2, <2>3, <2>5, <2>8, <3>1, <4>2
      <4>3. CASE j = p
        <5>1. References(p) \in Nat /\ links[p] = (References(p) - 0) % LinkLimit
          BY <2>1, <2>3, <4>1, <4>3, RefsType DEF Counted
        <5> QED BY <2>2, <2>3, <2>4, <2>9, <4>3, <5>1
      <4>4. CASE j # i /\ j # p
        BY <2>1, <2>3, <2>4, <2>7, <4>1, <4>4 DEF Counted
      <4> QED BY <4>2, <4>3, <4>4
    <3> QED BY <3>2 DEF Counted
  <2>11. Dotted'
    <3>1. \A d \in Reached' : dotdot'[d] # 0
      BY <1>2, <1>3, <2>1, <2>4, <2>5 DEF Dotted, Reached
    <3>2. \A f \in entries' : kind'[f.ino] # "dir" => dotdot'[f.ino] = 0
      <4>1. \A f \in entries : f.ino \in Inodes
        BY EntryTypes
      <4> QED BY <1>2, <2>1, <2>2, <2>4, <4>1 DEF Dotted
    <3> QED BY <3>1, <3>2 DEF Dotted
  <2>12. Progress'
    BY <1>4 DEF Progress
  <2> QED BY <2>10, <2>11, <2>12
<1> QED BY <1>5, <1>7 DEF LInv
\* What a link count gets from the writes that change nothing else.
LEMMA LinkWrites ==
  ASSUME IInv, LInv, UNCHANGED <<entries, kind, dotdot, cut, blind>>,
         call.at \notin {"dots"}, call'.at \in {"idle", "drop"},
         call'.at = "drop" => call.at = "unparent" /\ call'.ino = call.ino,
         NEW i \in Inodes, \A j \in Inodes : j # i => links'[j] = links[j],
         \A j \in Inodes : j # i => Due(j) = 0,
         ~ cut /\ ~ blind /\ Named(i) /\ links[i] = (References(i) - Due(i)) % LinkLimit
           => links'[i] = References(i) % LinkLimit
  PROVE  LInv'
<1>1. entries' = entries /\ kind' = kind /\ dotdot' = dotdot
  OBVIOUS
<1>2. cut' = cut /\ blind' = blind
  BY Zenon
<1>3. \A e \in entries' : e.ino # Root
  BY <1>1 DEF LInv
<1>4. ASSUME ~ cut', ~ blind' PROVE Counted' /\ Dotted' /\ Progress'
  <2>1. Counted /\ Dotted /\ Progress
    BY <1>2, <1>4 DEF LInv
  <2>2. \A j \in Inodes : Due(j)' = 0
    BY DEF Due
  <2>3. ASSUME NEW j \in Inodes, Named(j)'
        PROVE  links'[j] = (References(j)' - Due(j)') % LinkLimit
    <3>1. Named(j) /\ References(j)' = References(j) /\ References(j) \in Nat
      BY <1>1, <2>3, TreeKept, RefsType
    <3>2. links[j] = (References(j) - Due(j)) % LinkLimit
      BY <2>1, <3>1 DEF Counted
    <3>3. links'[j] = References(j) % LinkLimit
      BY <1>2, <1>4, <3>1, <3>2
    <3> QED BY <2>2, <3>1, <3>3
  <2>4. Dotted'
    BY <1>1, <2>1 DEF Dotted, Reached
  <2>5. Progress'
    <3>1. CASE call'.at = "idle"
      BY <3>1 DEF Progress
    <3>2. CASE call'.at = "drop"
      BY <1>1, <2>1, <3>2 DEF Progress, Named
    <3> QED BY <3>1, <3>2
  <2> QED BY <2>3, <2>4, <2>5 DEF Counted
<1> QED BY <1>3, <1>4 DEF LInv

\* The parent gets the link that is due.
LEMMA ParentLinkCounts ==
  ASSUME IInv, LInv, ParentLink, UNCHANGED <<cut, blind>> PROVE LInv'
<1>1. PICK p \in Inodes : p = call.dir
  BY Parts DEF Stages
<1>2. /\ call.at = "parent" /\ call'.at = "idle"
      /\ UNCHANGED <<entries, kind, dotdot>>
      /\ links' = [links EXCEPT ![p] = (@ + 1) % LinkLimit]
  BY <1>1, IdleCall DEF ParentLink, At, Return
<1>3. /\ \A j \in Inodes : j # p => links'[j] = links[j]
      /\ links'[p] = (links[p] + 1) % LinkLimit
  BY <1>2, Parts DEF DiskOK
<1>4. Due(p) = 1 /\ \A j \in Inodes : j # p => Due(j) = 0
  BY <1>1, <1>2 DEF Due
<1>5. links[p] = (References(p) - Due(p)) % LinkLimit
        => links'[p] = References(p) % LinkLimit
  BY <1>3, <1>4, RefsType, WrapBack
<1>6. UNCHANGED <<entries, kind, dotdot, cut, blind>>
  BY <1>2, Zenon
<1> QED BY <1>2, <1>3, <1>4, <1>5, <1>6, LinkWrites

\* The parent loses the link of a directory that is gone.
LEMMA ParentUnlinkCounts ==
  ASSUME IInv, LInv, ParentUnlink, UNCHANGED <<cut, blind>> PROVE LInv'
<1>1. PICK p \in Inodes : p = call.dir
  BY Parts DEF Stages
<1>2. /\ call.at = "unparent" /\ call'.at = "drop" /\ call'.ino = call.ino
      /\ UNCHANGED <<entries, kind, dotdot>>
      /\ links' = [links EXCEPT ![p] = (@ - 1) % LinkLimit]
  BY <1>1, Parts DEF ParentUnlink, At, Go, Stages
<1>3. /\ \A j \in Inodes : j # p => links'[j] = links[j]
      /\ links'[p] = (links[p] - 1) % LinkLimit
  BY <1>2, Parts DEF DiskOK
<1>4. Due(p) = 0 - 1 /\ \A j \in Inodes : j # p => Due(j) = 0
  BY <1>1, <1>2 DEF Due
<1>5. links[p] = (References(p) - Due(p)) % LinkLimit
        => links'[p] = References(p) % LinkLimit
  <2>1. References(p) \in Int /\ References(p) - Due(p) = References(p) + 1
    BY <1>4, RefsType
  <2> QED BY <1>3, <2>1, WrapBack
<1>6. UNCHANGED <<entries, kind, dotdot, cut, blind>>
  BY <1>2, Zenon
<1> QED BY <1>2, <1>3, <1>4, <1>5, <1>6, LinkWrites

\* The inode that is dropped has no name any more.
LEMMA DropCounts ==
  ASSUME IInv, LInv, DropInode, UNCHANGED <<cut, blind>> PROVE LInv'
<1>1. call.at = "drop" /\ call'.at = "idle" /\ UNCHANGED <<entries, kind, dotdot>>
  BY IdleCall DEF DropInode, At, Return
<1>2. PICK i \in Inodes : i = call.ino
  BY <1>1, Parts DEF Stages
<1>3. \A j \in Inodes : j # i => links'[j] = links[j]
  BY <1>2, Parts DEF DropInode, DiskOK
<1>4. \A j \in Inodes : Due(j) = 0
  BY <1>1 DEF Due
<1>5. ~ cut /\ ~ blind => ~ Named(i)
  BY <1>1, <1>2 DEF LInv, Progress
<1>6. UNCHANGED <<entries, kind, dotdot, cut, blind>>
  BY <1>1, Zenon
<1> QED BY <1>1, <1>3, <1>4, <1>5, <1>6, LinkWrites

\* The entry was the only one of its inode; with a directory its ".." goes.
LEMMA RemoveCounts ==
  ASSUME IInv, LInv, RemoveEntry, UNCHANGED <<cut, blind>> PROVE LInv'
<1>1. cut' = cut /\ blind' = blind
  BY Zenon
<1>2. /\ call.at = "remove" /\ kind' = kind /\ links' = links /\ dotdot' = dotdot
      /\ call' = [call EXCEPT !.at = IF call.op = "rmdir" THEN "unparent"
                                     ELSE "drop"]
  BY DEF RemoveEntry, At, Go
<1>3. PICK i \in Inodes, p \in Inodes : i = call.ino /\ p = call.dir
  BY <1>2, Parts DEF Stages
<1>4. PICK old : /\ old = [dir |-> call.dir, name |-> call.name, ino |-> call.ino]
                 /\ entries' = entries \ {old}
  BY DEF RemoveEntry
<1>5. old.ino = i /\ old.dir = p
  BY <1>3, <1>4
<1>6. /\ call'.at = IF call.op = "rmdir" THEN "unparent" ELSE "drop"
      /\ call'.ino = i /\ call'.dir = p
  BY <1>2, <1>3, Parts DEF Stages
<1>7. \A e \in entries' : e.ino # Root
  BY <1>4 DEF LInv
<1>8. ASSUME ~ cut', ~ blind' PROVE Counted' /\ Dotted' /\ Progress'
  <2>1. Counted /\ Dotted /\ Progress
    BY <1>1, <1>8 DEF LInv
  <2>2. old \in entries /\ (call.op = "rmdir" <=> kind[i] = "dir")
    BY <1>2, <1>3, <1>4, <2>1 DEF Progress
  <2>3. i # Root /\ \A e \in entries : e.ino = i <=> e = old
    BY <1>5, <2>2, Parts DEF LInv, Lead
  <2>4. dotdot[i] = IF call.op = "rmdir" THEN p ELSE 0
    <3>1. dotdot[i] \in {0, p}
      BY <1>5, <2>2, Parts DEF Lead
    <3>2. CASE call.op = "rmdir"
      <4>1. i \in Reached
        BY <1>5, <2>2, <3>2 DEF Reached
      <4> QED BY <1>2, <2>1, <3>1, <3>2, <4>1 DEF Dotted
    <3>3. CASE call.op # "rmdir"
      BY <1>5, <2>1, <2>2, <3>3 DEF Dotted
    <3> QED BY <3>2, <3>3
  <2>5. ASSUME NEW j \in Inodes, Named(j)'
        PROVE  /\ Named(j) /\ j # i /\ NamesOf(j)' = NamesOf(j)
               /\ Subs(j)' = Subs(j) \ {i}
    <3>1. Named(j) /\ j # i
      BY <1>4, <2>3, <2>5 DEF Named
    <3>2. NamesOf(j)' = NamesOf(j)
      BY <1>4, <1>5, <3>1 DEF NamesOf
    <3>3. Subs(j)' = Subs(j) \ {i}
      BY <1>2, <1>4, <1>5, <2>3 DEF Subs
    <3> QED BY <3>1, <3>2, <3>3
  <2>6. ASSUME NEW j \in Inodes, Named(j)', j # p \/ call.op # "rmdir"
        PROVE  links'[j] = (References(j)' - Due(j)') % LinkLimit
    <3>1. i \notin Subs(j)
      BY <2>4, <2>6, RootInode DEF Subs
    <3>2. Subs(j)' = Subs(j)
      BY <2>5, <2>6, <3>1
    <3>3. References(j)' = References(j)
      BY <1>2, <2>5, <2>6, <3>2, SameRefs
    <3>4. Due(j) = 0 /\ Due(j)' = 0
      BY <1>2, <1>6, <2>6 DEF Due
    <3> QED BY <1>2, <2>1, <2>5, <2>6, <3>3, <3>4 DEF Counted
  <2>7. ASSUME Named(p)', call.op = "rmdir"
        PROVE  links'[p] = (References(p)' - Due(p)') % LinkLimit
    <3>1. i \in Subs(p) /\ Subs(p)' = Subs(p) \ {i}
      BY <1>5, <2>2, <2>3, <2>4, <2>5, <2>7 DEF Subs
    <3>2. Cardinality(Subs(p)') = Cardinality(Subs(p)) - 1
      BY <3>1, Counts, FS_RemoveElement
    <3>3. References(p)' =
            Cardinality(NamesOf(p)') + (IF dotdot'[p] # 0 THEN 1 ELSE 0)
              + Cardinality(Subs(p)') + (IF p = Root THEN 1 ELSE 0)
      BY DEF References, NamesOf, Subs
    <3>4. NamesOf(p)' = NamesOf(p) /\ Named(p)
      BY <2>5, <2>7
    <3>5. References(p)' = References(p) - 1 /\ References(p) \in Nat
      BY <1>2, <3>2, <3>3, <3>4, RefsAre, RefsType, Counts
    <3>6. Due(p) = 0 /\ Due(p)' = 0 - 1
      BY <1>2, <1>6, <2>7 DEF Due
    <3>7. links[p] = (References(p) - 0) % LinkLimit
      BY <2>1, <3>4, <3>6 DEF Counted
    <3>8. References(p)' - Due(p)' = References(p) - 0
      BY <3>5, <3>6
    <3> QED BY <1>2, <3>7, <3>8
  <2>8. Counted'
    BY <2>6, <2>7 DEF Counted
  <2>9. Dotted'
    BY <1>2, <1>4, <2>1 DEF Dotted, Reached
  <2>10. Progress'
    <3>1. ~ Named(i)'
      BY <1>4, <2>3 DEF Named
    <3>2. ~ (\E e \in entries' : e.ino = call'.ino) /\ call'.ino # Root
      BY <1>6, <3>1 DEF Named
    <3> QED BY <1>6, <3>2 DEF Progress, Named
  <2> QED BY <2>8, <2>9, <2>10
<1> QED BY <1>7, <1>8 DEF LInv
\* Every call, write and failure keeps the link counts.
LEMMA NextLInv == IInv /\ LInv /\ [Next]_vars => LInv'
<1> SUFFICES ASSUME IInv, LInv, [Next]_vars PROVE LInv'
  OBVIOUS
<1>1. CASE Begin
  BY <1>1, BeginCounts
<1>2. CASE Fail
  <2>1. cut' /\ entries' = entries
    BY <1>2 DEF Fail, diskVars
  <2> QED BY <2>1 DEF LInv
<1>3. CASE Continue /\ UNCHANGED <<cut, blind>>
  BY <1>3, AllocateCounts, WriteInodeCounts, AddEntryCounts, DotsCounts,
     ParentLinkCounts, RemoveCounts, ParentUnlinkCounts, DropCounts DEF Continue
<1>4. CASE UNCHANGED vars
  <2>1. cut' = cut /\ blind' = blind
    BY <1>4, Zenon DEF vars
  <2>2. /\ entries' = entries /\ used' = used /\ kind' = kind /\ links' = links
        /\ dotdot' = dotdot /\ call' = call
    BY <1>4 DEF vars, diskVars
  <2>3. \A i \in Inodes : Due(i)' = Due(i)
    BY <2>2 DEF Due
  <2>4. Counted => Counted'
    BY <2>2, <2>3, TreeKept DEF Counted
  <2>5. Dotted => Dotted'
    BY <2>2 DEF Dotted, Reached
  <2>6. Progress => Progress'
    BY <2>2 DEF Progress, Empty, Named
  <2>7. \A e \in entries' : e.ino # Root
    BY <2>2 DEF LInv
  <2> QED BY <2>1, <2>4, <2>5, <2>6, <2>7, Zenon DEF LInv
<1> QED BY <1>1, <1>2, <1>3, <1>4 DEF Next

\* Between calls, with none of them cut off or misled.
AtRest == call = Idle /\ ~ cut /\ ~ blind

LinksModulo ==
  AtRest =>
    /\ \A i \in Inodes : Named(i) => links[i] = References(i) % LinkLimit
    /\ \A d \in Reached : dotdot[d] # 0

\* As long as every call ran to its end, link counts are the numbers of
\* references as far as 16 bits can tell, in file systems of every size, and
\* every directory in reach has "..".
THEOREM LinksCounted == Spec => []LinksModulo
<1>1. IInv /\ LInv => LinksModulo
  <2> SUFFICES ASSUME IInv, LInv, AtRest PROVE LinksModulo
    BY DEF LinksModulo
  <2>1. Counted /\ Dotted /\ call.at = "idle"
    BY IdleCall DEF LInv, AtRest
  <2>2. \A i \in Inodes : Due(i) = 0
    BY <2>1 DEF Due
  <2>3. \A i \in Inodes : References(i) - 0 = References(i)
    BY RefsType
  <2> QED BY <2>1, <2>2, <2>3 DEF LinksModulo, Counted, Dotted
<1> QED BY <1>1, InitIInv, NextIInv, InitLInv, NextLInv, PTL DEF Spec

\* An inode has at most one name and a subdirectory for every other inode.
LEMMA FewRefs ==
  ASSUME IInv, LInv, NEW i \in Inodes PROVE References(i) <= NInodes + 1
<1>1. IsFiniteSet(Inodes) /\ Cardinality(Inodes) = NInodes
  BY FS_Interval DEF Inodes
<1>2. /\ IsFiniteSet(Inodes \ {Root})
      /\ Cardinality(Inodes \ {Root}) = NInodes - 1
  BY <1>1, FS_RemoveElement, RootInode
<1>3. Cardinality(Subs(i)) <= NInodes - 1
  <2>1. Subs(i) \subseteq Inodes \ {Root}
    BY DEF Subs
  <2> QED BY <1>2, <2>1, FS_Subset
<1>4. i = Root => NamesOf(i) = {}
  BY DEF LInv, NamesOf
<1>5. /\ Cardinality(NamesOf(i)) \in {0, 1}
      /\ i = Root => Cardinality(NamesOf(i)) = 0
  BY <1>4, Counts
<1> QED BY <1>3, <1>5, RefsAre, Counts

\* Where there are fewer inodes than 16 bits can count, link counts are exact.
THEOREM LinksRight ==
  ASSUME NInodes + 1 < LinkLimit PROVE Spec => []LinksExact
<1>1. IInv /\ LInv /\ LinksModulo => LinksExact
  <2> SUFFICES ASSUME IInv, LInv, LinksModulo, AtRest PROVE LinksExact
    BY DEF LinksExact, AtRest
  <2>1. ASSUME NEW i \in Inodes, Named(i) PROVE links[i] = References(i)
    <3>1. References(i) \in Nat /\ References(i) < LinkLimit
      BY RefsType, FewRefs, Limit
    <3> QED BY <2>1, <3>1, NoWrap DEF LinksModulo
  <2> QED BY <2>1 DEF LinksModulo, LinksExact, Named
<1> QED BY <1>1, LinksCounted, InitIInv, NextIInv, InitLInv, NextLInv, PTL DEF Spec
=============================================================================
