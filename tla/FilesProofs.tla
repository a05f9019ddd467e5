----------------------------- MODULE FilesProofs -----------------------------
(***************************************************************************)
(* Files, for any number of files, handles and blocks, and with the disk   *)
(* full at any point: each block has a home, the one place of one file     *)
(* that may lead to it, and while a file is open once there is one copy of *)
(* its inode.  From these, blocks are exclusive, files have no holes, and  *)
(* what the calls do to blocks is what FileStore says about sequences.     *)
(***************************************************************************)
EXTENDS WriteProofs

-----------------------------------------------------------------------------

(* The invariant: every copy of an inode, on disk or in a handle, leads to   *)
(* blocks of its own file only, in their places, and to one for everything   *)
(* below its size; and a file that was never open twice has one copy.        *)

Homed(home) ==
  /\ IndirectHomes(home, data, used)
  /\ \A f \in File : InodeHomes(home, used, f, inode[f]) /\ Filled(data, inode[f])
  /\ \A fd \in Fd, f \in File : handle[fd].file = {f} =>
       /\ InodeHomes(home, used, f, handle[fd].ino)
       /\ Filled(data, handle[fd].ino)

OneCopy ==
  \A fd \in Fd, f \in File \ clashed : handle[fd].file = {f} =>
    /\ handle[fd].ino = inode[f]
    /\ \A g \in Fd : handle[g].file = {f} => g = fd

IInv == TypeOK /\ OneCopy /\ \E home : Homed(home)

LEMMA NothingFilled ==
  ASSUME NEW d, NEW ino, ino.size = 0
  PROVE  Filled(d, ino)
<1>1. \A k \in Nat : ~ (k < BlocksOfSize(0))
  BY IndexBound, FilesConstants
<1>2. BlocksOfSize(0) \in Int
  BY FilesConstants DEF BlocksOfSize
<1> QED BY <1>1, <1>2 DEF Filled

LEMMA ClosedType == Closed \in HandleType /\ Closed.ino \in InodeType
  BY FilesConstants DEF Closed, HandleType, InodeType

LEMMA InitIInv == Init => IInv
<1> SUFFICES ASSUME Init PROVE IInv
  OBVIOUS
<1>1. TypeOK
  <2>1. data \in [Blocks -> [0 .. BlockWords - 1 -> Nat]]
    BY FilesConstants DEF Init, Zeroes
  <2>2. handle \in [Fd -> HandleType] /\ inode \in [File -> InodeType]
    BY ClosedType DEF Init
  <2>3. \A fd \in Fd : handle[fd].pos <= handle[fd].ino.size
    BY DEF Init, Closed
  <2> QED BY <2>1, <2>2, <2>3, FilesConstants DEF Init, TypeOK
<1>2. OneCopy
  BY Zenon DEF OneCopy, Init, Closed
<1>3. Homed(<<>>)
  <2>1. \A f \in File : inode[f] = Closed.ino
    BY DEF Init
  <2>2. \A s \in Slots : Closed.ino.i_block[s] = 0
    BY DEF Closed
  <2>3. Closed.ino.size = 0
    BY DEF Closed
  <2>4. \A f \in File : InodeHomes(<<>>, used, f, inode[f])
    BY <2>1, <2>2 DEF InodeHomes
  <2>5. \A f \in File : Filled(data, inode[f])
    BY <2>1, <2>3, NothingFilled
  <2>6. \A fd \in Fd, f \in File : handle[fd].file # {f}
    BY Zenon DEF Init, Closed
  <2> QED BY <2>4, <2>5, <2>6 DEF Homed, IndirectHomes, Init
<1> QED BY <1>1, <1>2, <1>3 DEF IInv

\* What ext2_open, _read and _close do to copies of inodes.
LEMMA OpenKeeps ==
  ASSUME IInv, NEW fd \in Fd, NEW f \in File, NEW flags \in Flags,
         ext2_open(fd, f, flags)
  PROVE  IInv'
<1> DEFINE h == [file |-> {f}, flags |-> flags, pos |-> 0, ino |-> inode[f]]
<1>1. /\ handle' = [handle EXCEPT ![fd] = h] /\ handle[fd].file = {}
      /\ UNCHANGED <<data, used, free_count, inode>>
      /\ clashed' = IF \E g \in Fd : handle[g].file = {f} THEN clashed \cup {f}
                    ELSE clashed
  BY DEF ext2_open
<1>2. h \in HandleType
  BY FilesConstants DEF HandleType, IInv, TypeOK
<1>3. h.file = {f} /\ h.ino = inode[f] /\ h.pos = 0
  OBVIOUS
<1> HIDE DEF h
<1>4. handle[fd] \in HandleType /\ handle \in [Fd -> HandleType]
  BY DEF IInv, TypeOK
<1>5. handle'[fd] = h /\ \A g \in Fd : g # fd => handle'[g] = handle[g]
  BY <1>1, <1>4
<1>6. TypeOK'
  <2>1. inode[f].size \in Nat
    BY DEF IInv, TypeOK, InodeType
  <2>2. handle' \in [Fd -> HandleType]
    BY <1>1, <1>2, <1>4
  <2>3. \A g \in Fd : handle'[g].pos <= handle'[g].ino.size
    BY <1>3, <1>5, <2>1 DEF IInv, TypeOK
  <2>4. clashed' \subseteq File
    BY <1>1 DEF IInv, TypeOK
  <2> QED BY <1>1, <2>2, <2>3, <2>4 DEF IInv, TypeOK
<1>7. OneCopy'
  <2> SUFFICES ASSUME NEW g \in Fd, NEW e \in File \ clashed', handle'[g].file = {e}
               PROVE  /\ handle'[g].ino = inode[e]
                      /\ \A i \in Fd : handle'[i].file = {e} => i = g
    BY <1>1 DEF OneCopy
  <2>1. e \in File \ clashed
    BY <1>1
  <2>2. CASE e = f
    <3>1. \A i \in Fd : handle[i].file # {f}
      BY <1>1, <2>2
    <3> QED BY <1>3, <1>5, <2>2, <3>1
  <2>3. CASE e # f
    <3>1. handle'[fd].file # {e}
      BY <1>3, <1>5, <2>3
    <3> QED BY <1>5, <2>1, <3>1 DEF IInv, OneCopy
  <2> QED BY <2>2, <2>3
<1>8. PICK home : Homed(home)
  BY DEF IInv
<1>9. Homed(home)'
  <2> SUFFICES ASSUME NEW g \in Fd, NEW e \in File, handle'[g].file = {e}
               PROVE  /\ InodeHomes(home, used, e, handle'[g].ino)
                      /\ Filled(data, handle'[g].ino)
    BY <1>1, <1>8 DEF Homed
  <2>1. CASE g = fd
    BY <1>3, <1>5, <1>8, <2>1 DEF Homed
  <2>2. CASE g # fd
    BY <1>5, <1>8, <2>2 DEF Homed
  <2> QED BY <2>1, <2>2
<1> QED BY <1>6, <1>7, <1>9 DEF IInv
LEMMA ReadKeeps ==
  ASSUME IInv, NEW fd \in Fd, NEW n \in Counts, ext2_read(fd, n)
  PROVE  IInv'
<1>1. PICK f \in handle[fd].file :
        /\ handle[fd].pos < handle[fd].ino.size
        /\ handle' = [handle EXCEPT ![fd].pos = Min({@ + n, handle[fd].ino.size})]
        /\ inode' = [inode EXCEPT ![f] = handle[fd].ino]
        /\ UNCHANGED <<data, used, free_count, clashed>>
  BY Zenon DEF ext2_read
<1> DEFINE h == handle[fd]
           pos == Min({h.pos + n, h.ino.size})
<1>2. h \in HandleType /\ handle \in [Fd -> HandleType] /\ inode \in [File -> InodeType]
  BY DEF IInv, TypeOK
<1>3. f \in File /\ h.file = {f}
  BY <1>1, <1>2 DEF HandleType
<1>4. pos \in Nat /\ pos <= h.ino.size
  <2>1. h.pos \in Nat /\ h.ino.size \in Nat /\ n \in Nat
    BY <1>2, FilesConstants DEF HandleType, InodeType
  <2> DEFINE a == h.pos + n
             b == h.ino.size
  <2>2. a \in Nat /\ b \in Nat
    BY <2>1
  <2> HIDE DEF a, b
  <2>3. Min({a, b}) = IF b < a THEN b ELSE a
    BY <2>2, MinOfTwo
  <2>4. Min({a, b}) \in Nat /\ Min({a, b}) <= b
    BY <2>2, <2>3
  <2> QED BY <2>4 DEF a, b
<1>5. handle' = [handle EXCEPT ![fd] = [h EXCEPT !.pos = pos]]
  BY <1>1, <1>2 DEF HandleType
<1> HIDE DEF pos
<1>6. /\ handle' \in [Fd -> HandleType]
      /\ handle'[fd] = [h EXCEPT !.pos = pos]
      /\ \A g \in Fd : g # fd => handle'[g] = handle[g]
  BY <1>2, <1>4, <1>5 DEF HandleType
<1>7. /\ handle'[fd].file = {f} /\ handle'[fd].ino = h.ino
      /\ handle'[fd].pos <= handle'[fd].ino.size
  BY <1>2, <1>3, <1>4, <1>6 DEF HandleType
<1>8. \A g \in Fd : handle'[g].file = handle[g].file /\ handle'[g].ino = handle[g].ino
  BY <1>3, <1>6, <1>7, Zenon
<1>9. /\ inode'[f] = h.ino /\ inode' \in [File -> InodeType]
      /\ \A e \in File : e # f => inode'[e] = inode[e]
  BY <1>1, <1>2, <1>3 DEF HandleType
<1>10. TypeOK'
  <2>1. \A g \in Fd : handle'[g].pos <= handle'[g].ino.size
    BY <1>6, <1>7, Zenon DEF IInv, TypeOK
  <2> QED BY <1>1, <1>6, <1>9, <2>1, Zenon DEF IInv, TypeOK
<1>11. OneCopy'
  <2>1. f \notin clashed => inode'[f] = inode[f]
    BY <1>3, <1>9 DEF IInv, OneCopy
  <2> SUFFICES ASSUME NEW g \in Fd, NEW e \in File \ clashed, handle[g].file = {e}
               PROVE  /\ handle[g].ino = inode'[e]
                      /\ \A i \in Fd : handle[i].file = {e} => i = g
    BY <1>1, <1>8 DEF OneCopy
  <2> QED BY <1>9, <2>1 DEF IInv, OneCopy
<1>12. PICK home : Homed(home)
  BY DEF IInv
<1>13. Homed(home)'
  <2>1. InodeHomes(home, used, f, h.ino) /\ Filled(data, h.ino)
    BY <1>3, <1>12 DEF Homed
  <2>2. \A e \in File : InodeHomes(home, used, e, inode'[e])
                          /\ Filled(data, inode'[e])
    BY <1>9, <1>12, <2>1 DEF Homed
  <2> QED BY <1>1, <1>8, <1>12, <2>2 DEF Homed
<1> QED BY <1>10, <1>11, <1>13 DEF IInv

LEMMA CloseKeeps ==
  ASSUME IInv, NEW fd \in Fd, ext2_close(fd)
  PROVE  IInv'
<1>1. /\ handle' = [handle EXCEPT ![fd] = Closed]
      /\ UNCHANGED <<data, used, free_count, inode, clashed>>
  BY DEF ext2_close
<1>2. handle \in [Fd -> HandleType]
  BY DEF IInv, TypeOK
<1>3. /\ handle'[fd] = Closed /\ \A g \in Fd : g # fd => handle'[g] = handle[g]
      /\ handle' \in [Fd -> HandleType]
  BY <1>1, <1>2, ClosedType
<1>4. Closed.file = {} /\ Closed.pos = 0 /\ Closed.ino.size = 0
  BY DEF Closed
<1>5. TypeOK'
  BY <1>1, <1>3, <1>4 DEF IInv, TypeOK
<1>6. OneCopy'
  BY <1>1, <1>3, <1>4 DEF IInv, OneCopy
<1>7. PICK home : Homed(home)
  BY DEF IInv
<1>8. Homed(home)'
  BY <1>1, <1>3, <1>4, <1>7 DEF Homed
<1> QED BY <1>5, <1>6, <1>8 DEF IInv

LEMMA RemountKeeps == IInv /\ Remount => IInv'
<1> SUFFICES ASSUME IInv, Remount PROVE IInv'
  OBVIOUS
<1>1. /\ handle' = [fd \in Fd |-> Closed] /\ free_count' = NBlocks
      /\ UNCHANGED <<data, used, inode, clashed>>
  BY DEF Remount
<1>2. Closed.file = {} /\ Closed.pos = 0 /\ Closed.ino.size = 0
  BY DEF Closed
<1>3. TypeOK'
  BY <1>1, <1>2, ClosedType, FilesConstants DEF IInv, TypeOK
<1>4. OneCopy'
  BY <1>1, <1>2 DEF OneCopy
<1>5. PICK home : Homed(home)
  BY DEF IInv
<1>6. Homed(home)'
  BY <1>1, <1>2, <1>5 DEF Homed
<1> QED BY <1>3, <1>4, <1>6 DEF IInv

\* A copy of an inode that the write does not work on: a copy of the same file
\* keeps a block in each place, one of another file all its blocks.
LEMMA OtherCopies ==
  ASSUME NEW st0, NEW home0, NEW st, NEW home, NEW f \in File, NEW g \in File,
         NEW ino \in InodeType, Kept(st0, home0, st, home, f),
         InodeHomes(home0, st0.used, g, ino)
  PROVE  /\ InodeHomes(home, st.used, g, ino)
         /\ Filled(st0.data, ino) => Filled(st.data, ino)
         /\ g # f => \A k \in Nat : At(st.data, ino, k) = At(st0.data, ino, k)
<1>1. InodeHomes(home, st.used, g, ino)
  BY DEF InodeHomes, Kept
<1> DEFINE ind == ino.i_block[EXT2_NDIR_BLOCKS]
<1>2. ind # 0 => ind \in st0.used /\ home0[ind] = <<g, -1>>
  BY FilesConstants DEF InodeHomes, Slots
<1>3. ASSUME g # f PROVE \A k \in Nat : At(st.data, ino, k) = At(st0.data, ino, k)
  <2> TAKE k \in Nat
  <2>1. ind # 0 => st.data[ind] = st0.data[ind]
    <3> HAVE ind # 0
    <3>1. ind \in st0.used /\ \A i \in Int : home0[ind] # <<f, i>>
      BY <1>2, <1>3
    <3> HIDE DEF ind
    <3> QED BY <3>1 DEF Kept
  <2> QED BY <2>1 DEF At
<1>4. ASSUME g = f, Filled(st0.data, ino) PROVE Filled(st.data, ino)
  <2>1. \A k \in Nat : At(st0.data, ino, k) # 0 => At(st.data, ino, k) # 0
    <3> TAKE k \in Nat
    <3>1. CASE ind = 0 \/ k < EXT2_NDIR_BLOCKS \/ k - EXT2_NDIR_BLOCKS >= BlockWords
      BY <3>1 DEF At
    <3>2. CASE ~ (ind = 0 \/ k < EXT2_NDIR_BLOCKS \/ k - EXT2_NDIR_BLOCKS >= BlockWords)
      <4>1. k - EXT2_NDIR_BLOCKS \in 0 .. BlockWords - 1
        BY <3>2, FilesConstants
      <4>2. ind \in st0.used /\ home0[ind] = <<f, -1>>
        BY <1>2, <1>4, <3>2
      <4>3. st0.data[ind][k - EXT2_NDIR_BLOCKS] # 0
              => st.data[ind][k - EXT2_NDIR_BLOCKS] # 0
        <5> HIDE DEF ind
        <5> QED BY <4>1, <4>2 DEF Kept
      <4> QED BY <3>2, <4>3 DEF At
    <3> QED BY <3>1, <3>2
  <2>2. BlocksOfSize(ino.size) \in Int
    BY FilesConstants DEF BlocksOfSize, InodeType
  <2> QED BY <1>4, <2>1, <2>2 DEF Filled
<1>5. ASSUME g # f, Filled(st0.data, ino) PROVE Filled(st.data, ino)
  <2>1. BlocksOfSize(ino.size) \in Int
    BY FilesConstants DEF BlocksOfSize, InodeType
  <2> QED BY <1>3, <1>5, <2>1 DEF Filled
<1> QED BY <1>1, <1>3, <1>4, <1>5
\* The store that a write through fd starts from, and the inode it ends with.
StoreOf(fd) ==
  [data |-> data, used |-> used, free |-> free_count, ino |-> handle[fd].ino,
   got |-> 0, ok |-> TRUE, done |-> 0]

Grown(st, p) == [st.ino EXCEPT !.size = Max({@, p + st.done})]

Writes(fd, f, n, w, home, st, homes) ==
  /\ handle[fd].file = {f}
  /\ Sound(StoreOf(fd), home, f) /\ Filled(data, handle[fd].ino)
  /\ Written(StoreOf(fd), home, st, homes, f, handle[fd].pos, n, w)
  /\ data' = st.data /\ used' = st.used /\ free_count' = st.free
  /\ inode' = [inode EXCEPT ![f] = Grown(st, handle[fd].pos)]
  /\ handle' = [handle EXCEPT ![fd].pos = @ + st.done,
                              ![fd].ino = Grown(st, handle[fd].pos)]
  /\ clashed' = clashed

LEMMA StoreFields ==
  ASSUME TypeOK, NEW fd \in Fd
  PROVE  /\ StoreOf(fd) \in StoreType
         /\ StoreOf(fd).data = data /\ StoreOf(fd).used = used
         /\ StoreOf(fd).ino = handle[fd].ino /\ StoreOf(fd).done = 0
         /\ handle[fd] \in HandleType
<1>1. handle[fd] \in HandleType
  BY DEF TypeOK
<1>2. handle[fd].ino \in InodeType
  BY <1>1 DEF HandleType
<1> QED BY <1>1, <1>2, FilesConstants DEF StoreOf, StoreType, TypeOK, BlockType

LEMMA WriteWrites ==
  ASSUME IInv, NEW fd \in Fd, NEW n \in Counts, NEW w \in Words,
         ext2_write(fd, n, w), NEW home, Homed(home)
  PROVE  \E f \in File : \E st, homes : Writes(fd, f, n, w, home, st, homes)
<1> DEFINE st == WriteLoop(StoreOf(fd), handle[fd].pos, n, w)
<1>1. PICK f \in handle[fd].file :
        /\ data' = st.data /\ used' = st.used /\ free_count' = st.free
        /\ inode' = [inode EXCEPT ![f] = Grown(st, handle[fd].pos)]
        /\ handle' = [handle EXCEPT ![fd].pos = @ + st.done,
                                    ![fd].ino = Grown(st, handle[fd].pos)]
        /\ UNCHANGED clashed
  BY Zenon DEF ext2_write, StoreOf, Grown
<1> HIDE DEF st
<1>2. TypeOK
  BY DEF IInv
<1>3. /\ StoreOf(fd) \in StoreType
      /\ StoreOf(fd).data = data /\ StoreOf(fd).used = used
      /\ StoreOf(fd).ino = handle[fd].ino /\ StoreOf(fd).done = 0
      /\ handle[fd] \in HandleType
  BY <1>2, StoreFields
<1>4. f \in File /\ handle[fd].file = {f}
  BY <1>1, <1>3 DEF HandleType
<1>5. Sound(StoreOf(fd), home, f) /\ Filled(data, handle[fd].ino)
  BY <1>3, <1>4 DEF Homed, Sound
<1>6. handle[fd].pos \in Nat /\ handle[fd].pos <= handle[fd].ino.size
      /\ n \in Nat /\ w \in Nat
  BY <1>2, <1>3, FilesConstants DEF TypeOK, HandleType
<1>7. PICK homes : Written(StoreOf(fd), home, st, homes, f, handle[fd].pos, n, w)
  BY <1>3, <1>4, <1>5, <1>6, WriteLoopWrites DEF st
<1>8. Writes(fd, f, n, w, home, st, homes)
  BY <1>1, <1>4, <1>5, <1>7 DEF Writes
<1> QED BY <1>4, <1>8

\* What the write does to the variables, in terms of the store.
Effect(fd, f, n, st) ==
  /\ st \in StoreType /\ st.done \in 0 .. n
  /\ Grown(st, handle[fd].pos) \in InodeType
  /\ Grown(st, handle[fd].pos).i_block = st.ino.i_block
  /\ Grown(st, handle[fd].pos).size =
       IF handle[fd].pos + st.done > handle[fd].ino.size
       THEN handle[fd].pos + st.done ELSE handle[fd].ino.size
  /\ handle[fd].ino.size \in Nat /\ handle[fd].pos \in Nat
  /\ inode'[f] = Grown(st, handle[fd].pos) /\ inode' \in [File -> InodeType]
  /\ \A e \in File : e # f => inode'[e] = inode[e]
  /\ handle'[fd].file = {f} /\ handle'[fd].ino = Grown(st, handle[fd].pos)
  /\ handle'[fd].pos = handle[fd].pos + st.done
  /\ \A g \in Fd : g # fd => handle'[g] = handle[g]
  /\ handle' \in [Fd -> HandleType]

LEMMA WriteEffect ==
  ASSUME TypeOK, NEW fd \in Fd, NEW f \in File, NEW n \in Nat, NEW w, NEW home,
         NEW st, NEW homes, Writes(fd, f, n, w, home, st, homes)
  PROVE  Effect(fd, f, n, st)
<1> DEFINE h == handle[fd]
           ino == Grown(st, h.pos)
<1>1. /\ st \in StoreType /\ st.done \in 0 .. n /\ st.ino.size = h.ino.size
      /\ h \in HandleType /\ handle \in [Fd -> HandleType]
      /\ inode \in [File -> InodeType]
  <2>1. StoreOf(fd).ino = h.ino /\ h \in HandleType
    BY StoreFields
  <2> QED BY <2>1 DEF Writes, Written, Kept, Reached, Sound, TypeOK
<1>2. h.ino.size \in Nat /\ h.pos \in Nat /\ st.done \in Nat
  BY <1>1 DEF HandleType, InodeType
<1>3. Max({st.ino.size, h.pos + st.done}) =
        IF h.pos + st.done > h.ino.size THEN h.pos + st.done ELSE h.ino.size
  <2> DEFINE a == h.ino.size
             b == h.pos + st.done
  <2>1. a \in Int /\ b \in Int /\ st.ino.size = a
    BY <1>1, <1>2
  <2> HIDE DEF a, b
  <2>2. Max({a, b}) = IF b > a THEN b ELSE a
    BY <2>1, MaxOfTwo
  <2> QED BY <2>1, <2>2 DEF a, b
<1>4. st.ino \in InodeType
  BY <1>1 DEF StoreType
<1>5. /\ ino \in InodeType /\ ino.i_block = st.ino.i_block
      /\ ino.size = Max({st.ino.size, h.pos + st.done})
  <2>1. Max({st.ino.size, h.pos + st.done}) \in Nat
    BY <1>2, <1>3
  <2> QED BY <1>4, <2>1 DEF Grown, InodeType
<1> HIDE DEF ino
<1>6. /\ inode' = [inode EXCEPT ![f] = ino]
      /\ handle' = [handle EXCEPT ![fd] = [h EXCEPT !.pos = h.pos + st.done,
                                                    !.ino = ino]]
      /\ h.file = {f}
  BY <1>1, Zenon DEF Writes, ino, HandleType
<1>7. [h EXCEPT !.pos = h.pos + st.done, !.ino = ino] \in HandleType
  <2> DEFINE pos == h.pos + st.done
  <2>1. pos \in Nat
    BY <1>2
  <2> HIDE DEF pos, h
  <2>2. [h EXCEPT !.pos = pos, !.ino = ino] \in HandleType
    BY <1>1, <1>5, <2>1, Zenon DEF HandleType
  <2> QED BY <2>2 DEF pos
<1>8. /\ handle'[fd] = [h EXCEPT !.pos = h.pos + st.done, !.ino = ino]
      /\ \A g \in Fd : g # fd => handle'[g] = handle[g]
      /\ handle' \in [Fd -> HandleType]
  BY <1>1, <1>6, <1>7
<1>9. /\ handle'[fd].file = {f} /\ handle'[fd].ino = ino
      /\ handle'[fd].pos = h.pos + st.done
  BY <1>1, <1>6, <1>8 DEF HandleType
<1>10. /\ inode'[f] = ino /\ inode' \in [File -> InodeType]
       /\ \A e \in File : e # f => inode'[e] = inode[e]
  BY <1>1, <1>5, <1>6
<1> QED BY <1>1, <1>2, <1>3, <1>5, <1>8, <1>9, <1>10 DEF ino, Effect
LEMMA WriteKeeps ==
  ASSUME IInv, NEW fd \in Fd, NEW n \in Counts, NEW w \in Words,
         ext2_write(fd, n, w)
  PROVE  IInv'
<1>0. TypeOK /\ OneCopy /\ n \in Nat
  BY FilesConstants DEF IInv
<1>1. PICK home : Homed(home)
  BY DEF IInv
<1>2a. PICK f \in File : \E st, homes : Writes(fd, f, n, w, home, st, homes)
  BY <1>1, WriteWrites
<1>2. PICK st, homes : Writes(fd, f, n, w, home, st, homes)
  BY <1>2a
<1>E. Effect(fd, f, n, st)
  BY <1>0, <1>2, WriteEffect
<1> DEFINE h   == handle[fd]
           ino == Grown(st, h.pos)
<1>3. /\ st \in StoreType /\ st.done \in 0 .. n
      /\ ino \in InodeType /\ ino.i_block = st.ino.i_block
      /\ ino.size = IF h.pos + st.done > h.ino.size
                    THEN h.pos + st.done ELSE h.ino.size
      /\ h.ino.size \in Nat /\ h.pos \in Nat
  BY <1>E DEF Effect
<1>4. /\ inode'[f] = ino /\ inode' \in [File -> InodeType]
      /\ \A e \in File : e # f => inode'[e] = inode[e]
      /\ handle'[fd].file = {f} /\ handle'[fd].ino = ino
      /\ handle'[fd].pos = h.pos + st.done
      /\ \A g \in Fd : g # fd => handle'[g] = handle[g]
      /\ handle' \in [Fd -> HandleType]
  BY <1>E DEF Effect
<1> HIDE DEF ino
<1>5. /\ data' = st.data /\ used' = st.used /\ free_count' = st.free
      /\ clashed' = clashed /\ h.file = {f}
      /\ Sound(st, homes, f) /\ Kept(StoreOf(fd), home, st, homes, f)
      /\ Reached(st, h.pos, n) /\ Filled(data, h.ino)
  BY <1>2 DEF Writes, Written, Kept
<1>6. /\ StoreOf(fd) \in StoreType
      /\ StoreOf(fd).data = data /\ StoreOf(fd).used = used
      /\ StoreOf(fd).ino = h.ino
  BY <1>0, StoreFields
<1>7. TypeOK'
  <2>1. \A g \in Fd : handle'[g].pos <= handle'[g].ino.size
    <3>1. h.pos + st.done <= ino.size
      BY <1>3
    <3>2. \A g \in Fd : handle[g].pos <= handle[g].ino.size
      BY <1>0 DEF TypeOK
    <3> QED BY <1>4, <3>1, <3>2
  <2>2. used' \subseteq Blocks /\ free_count' \in Nat
        /\ data' \in [Blocks -> [0 .. BlockWords - 1 -> Nat]]
    BY <1>3, <1>5 DEF StoreType, BlockType
  <2> QED BY <1>0, <1>4, <1>5, <2>1, <2>2 DEF TypeOK
<1>8. OneCopy'
  <2> SUFFICES ASSUME NEW g \in Fd, NEW e \in File \ clashed, handle'[g].file = {e}
               PROVE  /\ handle'[g].ino = inode'[e]
                      /\ \A i \in Fd : handle'[i].file = {e} => i = g
    BY <1>5 DEF OneCopy
  <2>1. \A i \in Fd : handle'[i].file = handle[i].file
    BY <1>4, <1>5, Zenon
  <2>2. \A i \in Fd : handle[i].file = {e} => i = g
    BY <1>0, <2>1 DEF OneCopy
  <2>3. CASE e = f
    BY <1>4, <1>5, <2>1, <2>2, <2>3
  <2>4. CASE e # f
    <3>1. g # fd
      BY <1>4, <2>4
    <3> QED BY <1>0, <1>4, <2>1, <2>2, <2>4, <3>1 DEF OneCopy
  <2> QED BY <2>3, <2>4
<1>9. Homed(homes)'
  <2>1. IndirectHomes(homes, data', used')
    BY <1>5 DEF Sound
  <2>2. InodeHomes(homes, used', f, ino) /\ Filled(data', ino)
    <3>1. InodeHomes(homes, used', f, ino)
      BY <1>3, <1>5 DEF Sound, InodeHomes
    <3>2. \A k \in Nat : k < BlocksOfSize(ino.size) => At(st.data, ino, k) # 0
      <4> SUFFICES ASSUME NEW k \in Nat, k < BlocksOfSize(ino.size)
                   PROVE  At(st.data, st.ino, k) # 0
        BY <1>3 DEF At
      <4>1. k * BlockWords < ino.size /\ ino.size \in Nat
        BY <1>3, IndexBound DEF InodeType
      <4>2. CASE k * BlockWords < h.pos + st.done
        BY <1>5, <4>2 DEF Reached
      <4>3. CASE k * BlockWords < h.ino.size
        <5>1. k < BlocksOfSize(h.ino.size) /\ BlocksOfSize(h.ino.size) \in Int
          BY <1>3, <4>3, IndexBound, FilesConstants DEF BlocksOfSize
        <5>2. At(data, h.ino, k) # 0
          <6>1. Filled(data, h.ino)
            BY <1>5
          <6> QED BY <5>1, <6>1 DEF Filled
        <5> QED BY <1>5, <1>6, <5>1, <5>2 DEF Kept
      <4> QED BY <1>3, <4>1, <4>2, <4>3
    <3>3. BlocksOfSize(ino.size) \in Int
      BY <1>3, FilesConstants DEF BlocksOfSize, InodeType
    <3>4. Filled(st.data, ino)
      BY <3>2, <3>3 DEF Filled
    <3> QED BY <1>5, <3>1, <3>4
  <2>3. \A e \in File, c \in InodeType :
          InodeHomes(home, used, e, c) /\ Filled(data, c)
            => InodeHomes(homes, used', e, c) /\ Filled(data', c)
    BY <1>5, <1>6, OtherCopies
  <2>4. \A e \in File : InodeHomes(homes, used', e, inode'[e])
                          /\ Filled(data', inode'[e])
    BY <1>0, <1>1, <1>4, <2>2, <2>3 DEF Homed, TypeOK
  <2>5. \A g \in Fd, e \in File : handle'[g].file = {e} =>
          InodeHomes(homes, used', e, handle'[g].ino) /\ Filled(data', handle'[g].ino)
    <3> TAKE g \in Fd, e \in File
    <3> HAVE handle'[g].file = {e}
    <3>1. CASE g = fd
      BY <1>4, <2>2, <3>1
    <3>2. CASE g # fd
      <4>1. handle[g].ino \in InodeType
        BY <1>0 DEF TypeOK, HandleType
      <4> QED BY <1>1, <1>4, <2>3, <3>2, <4>1 DEF Homed
    <3> QED BY <3>1, <3>2
  <2> QED BY <2>1, <2>4, <2>5 DEF Homed
<1> QED BY <1>7, <1>8, <1>9 DEF IInv

LEMMA NextIInv == IInv /\ [Next]_vars => IInv'
<1> SUFFICES ASSUME IInv, [Next]_vars PROVE IInv'
  OBVIOUS
<1>1. CASE \E fd \in Fd, f \in File, flags \in Flags : ext2_open(fd, f, flags)
  BY <1>1, OpenKeeps
<1>2. CASE \E fd \in Fd, n \in Counts : ext2_read(fd, n)
  BY <1>2, ReadKeeps
<1>3. CASE \E fd \in Fd, n \in Counts, w \in Words : ext2_write(fd, n, w)
  BY <1>3, WriteKeeps
<1>4. CASE \E fd \in Fd : ext2_close(fd)
  BY <1>4, CloseKeeps
<1>5. CASE Remount
  BY <1>5, RemountKeeps
<1>6. CASE UNCHANGED vars
  BY <1>6, Zenon DEF vars, IInv, TypeOK, OneCopy, Homed
<1> QED BY <1>1, <1>2, <1>3, <1>4, <1>5, <1>6 DEF Next

\* The invariant holds: every copy of an inode, stale or not, leads to blocks
\* of its own file only, whatever ext2_open, ext2_read, ext2_write, ext2_close
\* and a remount do in any order.
THEOREM IInvHolds == Spec => []IInv
<1> QED BY InitIInv, NextIInv, PTL DEF Spec
LEMMA OwnerIsHome ==
  ASSUME IInv, NEW home, Homed(home), NEW b \in Blocks, NEW o \in Owners(b)
  PROVE  b \in used /\ home[b] = o
<1> DEFINE f == o[1]
           k == o[2]
<1>1. f \in File /\ k \in -1 .. EXT2_NDIR_BLOCKS + BlockWords /\ o = <<f, k>>
      /\ Owns(f, k, b)
  BY DEF Owners
<1> HIDE DEF f, k
<1>2. /\ data \in [Blocks -> BlockType] /\ used \in SUBSET Blocks
      /\ inode[f] \in InodeType /\ b # 0
      /\ IndirectHomes(home, data, used) /\ InodeHomes(home, used, f, inode[f])
  BY <1>1, FilesConstants DEF IInv, TypeOK, BlockType, Homed, Blocks
<1>3. CASE k = -1
  <2>1. inode[f].i_block[EXT2_NDIR_BLOCKS] = b
    BY <1>1, <1>3 DEF Owns
  <2>2. b \in used /\ home[b] = <<f, -1>>
    BY <1>2, <2>1, FilesConstants DEF InodeHomes, Slots
  <2> QED BY <1>1, <1>3, <2>2
<1>4. CASE k # -1
  <2>1. /\ k \in Nat /\ k < BlocksOfSize(inode[f].size)
        /\ get_block(data, inode[f], k) = b
    BY <1>1, <1>2, <1>4, FilesConstants
       DEF Owns, Indices, DataBlock, BlocksOfSize, InodeType
  <2>2. At(data, inode[f], k) = b
    BY <1>2, <2>1, GetIsAt
  <2>3. At(data, inode[f], k) \in used
        /\ home[At(data, inode[f], k)] = <<f, k>>
    BY <1>1, <1>2, <2>1, <2>2, AtHome
  <2> QED BY <1>1, <2>2, <2>3
<1> QED BY <1>3, <1>4

\* Whatever handles are open on whatever files, and however stale their copies
\* of the inodes are, ext2_write never enters a block in two places.
THEOREM OwnersUnique == Spec => []BlocksExclusive
<1>1. IInv => BlocksExclusive
  <2> SUFFICES ASSUME IInv, NEW b \in Blocks
               PROVE  /\ \A o1, o2 \in Owners(b) : o1 = o2
                      /\ Owners(b) # {} => b \in used
    BY DEF BlocksExclusive
  <2>1. PICK home : Homed(home)
    BY DEF IInv
  <2> QED BY <2>1, OwnerIsHome
<1> QED BY <1>1, IInvHolds, PTL

\* Every block below the size of a file is there, which is what ext2_read
\* relies on, and no handle is past the end of its file.
THEOREM FilesFilled == Spec => []NoHoles
<1>1. IInv => NoHoles
  <2> SUFFICES ASSUME IInv, NEW f \in File, NEW k \in Indices(inode[f])
               PROVE  DataBlock(inode[f], k) # 0
    BY DEF NoHoles, IInv
  <2>1. /\ inode[f] \in InodeType /\ Filled(data, inode[f])
        /\ data \in [Blocks -> BlockType]
    BY DEF IInv, TypeOK, Homed, BlockType
  <2>2. k \in Nat /\ k < BlocksOfSize(inode[f].size)
    BY <2>1, FilesConstants DEF Indices, BlocksOfSize, InodeType
  <2>3. At(data, inode[f], k) # 0
    BY <2>1, <2>2 DEF Filled, Indices
  <2> QED BY <2>1, <2>2, <2>3, GetIsAt DEF DataBlock
<1> QED BY <1>1, IInvHolds, PTL
-----------------------------------------------------------------------------
(* Files as sequences of words. *)

WordAt(d, ino, q) == d[At(d, ino, q \div BlockWords)][q % BlockWords]

Text(d, ino) == [i \in 1 .. ino.size |-> WordAt(d, ino, i - 1)]

LEMMA TextIs ==
  ASSUME NEW d, NEW ino \in InodeType
  PROVE  /\ Text(d, ino) =
              [i \in 1 .. ino.size |->
                 d[get_block(d, ino, (i - 1) \div BlockWords)][(i - 1) % BlockWords]]
         /\ \A i \in 1 .. ino.size :
              /\ (i - 1) \div BlockWords \in Nat
              /\ (i - 1) \div BlockWords < BlocksOfSize(ino.size)
<1>1. ASSUME NEW i \in 1 .. ino.size
      PROVE  /\ (i - 1) \div BlockWords \in Nat
             /\ (i - 1) \div BlockWords < BlocksOfSize(ino.size)
  <2>1. ino.size \in Nat /\ i - 1 \in Nat /\ i - 1 < ino.size
    BY DEF InodeType
  <2> DEFINE k == (i - 1) \div BlockWords
  <2>2. k \in Nat /\ k * BlockWords <= i - 1
    BY <2>1, FilesConstants
  <2>3. k * BlockWords \in Nat
    BY <2>2, FilesConstants
  <2> HIDE DEF k
  <2>4. k * BlockWords < ino.size
    BY <2>1, <2>2, <2>3
  <2>5. k < BlocksOfSize(ino.size)
    BY <2>1, <2>2, <2>4, IndexBound
  <2> QED BY <2>2, <2>5 DEF k
<1>2. ASSUME NEW i \in 1 .. ino.size
      PROVE  get_block(d, ino, (i - 1) \div BlockWords) =
               At(d, ino, (i - 1) \div BlockWords)
  BY <1>1, GetIsAt
<1> QED BY <1>1, <1>2 DEF Text, WordAt

\* ino is the inode of file g, and the step from st0 to st writes file f.
WritesElsewhere(st0, home0, st, home, f, g, ino) ==
  /\ st0 \in StoreType /\ f \in File /\ g \in File /\ g # f /\ ino \in InodeType
  /\ Kept(st0, home0, st, home, f) /\ IndirectHomes(home0, st0.data, st0.used)
  /\ InodeHomes(home0, st0.used, g, ino) /\ Filled(st0.data, ino)

\* What a write leaves of another file.
LEMMA OtherText ==
  ASSUME NEW st0, NEW home0, NEW st, NEW home, NEW f, NEW g, NEW ino,
         WritesElsewhere(st0, home0, st, home, f, g, ino)
  PROVE  Text(st.data, ino) = Text(st0.data, ino)
<1>0. /\ st0 \in StoreType /\ f \in File /\ g \in File /\ g # f /\ ino \in InodeType
      /\ Kept(st0, home0, st, home, f) /\ IndirectHomes(home0, st0.data, st0.used)
      /\ InodeHomes(home0, st0.used, g, ino) /\ Filled(st0.data, ino)
  BY DEF WritesElsewhere
<1> SUFFICES ASSUME NEW i \in 1 .. ino.size
             PROVE  WordAt(st.data, ino, i - 1) = WordAt(st0.data, ino, i - 1)
  BY DEF Text
<1> DEFINE k == (i - 1) \div BlockWords
           b == At(st0.data, ino, k)
<1>1. k \in Nat /\ k < BlocksOfSize(ino.size)
  BY <1>0, TextIs, Zenon
<1>2. BlocksOfSize(ino.size) \in Int
  BY <1>0, FilesConstants DEF BlocksOfSize, InodeType
<1> HIDE DEF k
<1>3. b # 0
  BY <1>0, <1>1, <1>2 DEF Filled
<1>4. st0.data \in [Blocks -> BlockType] /\ st0.used \in SUBSET Blocks
  BY <1>0 DEF StoreType
<1>5. b \in st0.used /\ home0[b] = <<g, k>>
  <2>1. /\ g \in File /\ ino \in InodeType /\ k \in Nat
        /\ IndirectHomes(home0, st0.data, st0.used)
        /\ InodeHomes(home0, st0.used, g, ino)
    BY <1>0, <1>1, Zenon
  <2>2. At(st0.data, ino, k) # 0
    BY <1>3
  <2> QED BY <1>4, <2>1, <2>2, AtHome
<1>6. At(st.data, ino, k) = b
  <2>1. \A j \in Nat : At(st.data, ino, j) = At(st0.data, ino, j)
    BY <1>0, OtherCopies
  <2> QED BY <1>1, <2>1
<1> HIDE DEF b
<1>7. st.data[b] = st0.data[b]
  <2>1. \A j \in Int : home0[b] # <<f, j>>
    BY <1>0, <1>5
  <2> QED BY <1>0, <1>5, <2>1 DEF Kept
<1> QED BY <1>6, <1>7 DEF WordAt, k, b

\* What it makes of its own.
GrowsTo(st0, st, p, ino) ==
  /\ p <= st0.ino.size /\ ino.i_block = st.ino.i_block
  /\ ino.size = IF p + st.done > st0.ino.size THEN p + st.done ELSE st0.ino.size

LEMMA WrittenText ==
  ASSUME NEW st0 \in StoreType, NEW home0, NEW st, NEW home, NEW f, NEW p \in Nat,
         NEW n \in Nat, NEW w, NEW ino \in InodeType,
         Written(st0, home0, st, home, f, p, n, w), GrowsTo(st0, st, p, ino)
  PROVE  Text(st.data, ino) =
           Store!Overwritten(Text(st0.data, st0.ino), p, st.done, w)
<1>1. st0.ino.size \in Nat /\ st.done \in Nat /\ ino.size \in Nat
  <2>1. st.done \in 0 .. n
    BY DEF Written, Reached
  <2>2. st0.ino \in InodeType
    BY DEF StoreType
  <2> QED BY <2>1, <2>2 DEF InodeType
<1>2. Len(Text(st0.data, st0.ino)) = st0.ino.size
  BY <1>1 DEF Text
<1>3. ASSUME NEW i \in 1 .. ino.size
      PROVE  WordAt(st.data, ino, i - 1) =
               IF i \in p + 1 .. p + st.done THEN w ELSE Text(st0.data, st0.ino)[i]
  <2> DEFINE q == i - 1
  <2>1. q \in Nat /\ (q < st0.ino.size \/ q < p + st.done)
    BY <1>1 DEF GrowsTo
  <2>2. Word(st, q) = IF q \in p .. (p + st.done) - 1 THEN w ELSE Word(st0, q)
    BY <2>1, Zenon DEF Written, Filling, FillingTo
  <2>3. WordAt(st.data, ino, q) = Word(st, q)
    BY DEF WordAt, Word, At, GrowsTo
  <2>4. i \in p + 1 .. p + st.done <=> q \in p .. (p + st.done) - 1
    BY <1>1
  <2>5. i \notin p + 1 .. p + st.done => i \in 1 .. st0.ino.size
    BY <1>1 DEF GrowsTo
  <2>6. i \in 1 .. st0.ino.size => Text(st0.data, st0.ino)[i] = Word(st0, q)
    BY DEF Text, WordAt, Word
  <2> QED BY <2>2, <2>3, <2>4, <2>5, <2>6
<1>4. ino.size = IF p + st.done > Len(Text(st0.data, st0.ino)) THEN p + st.done
                 ELSE Len(Text(st0.data, st0.ino))
  BY <1>2 DEF GrowsTo
<1> QED BY <1>3, <1>4, Zenon DEF Text, Store!Overwritten
\* The state of FileStore that a state of this module stands for.
content == [f \in File |-> IF f \in clashed THEN <<>> ELSE Contents(f)]
opened  == [fd \in Fd |-> handle[fd].file]
pos     == [fd \in Fd |-> IF handle[fd].file \subseteq clashed THEN 0
                          ELSE handle[fd].pos]

LEMMA ContentsText ==
  /\ TypeOK => \A f \in File : /\ inode[f] \in InodeType
                               /\ Contents(f) = Text(data, inode[f])
  /\ TypeOK' => \A f \in File : Contents(f)' = Text(data', inode'[f])
<1>1. ASSUME TypeOK, NEW f \in File
      PROVE  inode[f] \in InodeType /\ Contents(f) = Text(data, inode[f])
  <2>1. inode[f] \in InodeType
    BY <1>1 DEF TypeOK
  <2> QED BY <2>1, TextIs, Zenon DEF Contents, DataBlock
<1>2. ASSUME TypeOK', NEW f \in File PROVE Contents(f)' = Text(data', inode'[f])
  <2>1. inode'[f] \in InodeType
    BY <1>2 DEF TypeOK
  <2> QED BY <2>1, TextIs, Zenon DEF Contents, DataBlock
<1> QED BY <1>1, <1>2

LEMMA SameContents ==
  ASSUME NEW f \in File, data' = data, inode'[f] = inode[f]
  PROVE  Contents(f)' = Contents(f)
BY DEF Contents, DataBlock

LEMMA CountBound == \A n \in Counts : n \in Nat /\ Max(Counts) \in Nat /\ n <= Max(Counts)
BY FilesConstants, Zenon DEF Max

LEMMA InitStore == Init => Store!StoreInit
<1> SUFFICES ASSUME Init PROVE Store!StoreInit
  OBVIOUS
<1>1. \A f \in File : inode[f].size = 0 /\ f \notin clashed
  BY DEF Init, Closed
<1>2. \A f \in File : Contents(f) = <<>>
  BY <1>1 DEF Contents
<1>3. \A fd \in Fd : handle[fd].file = {} /\ handle[fd].pos = 0
  BY DEF Init, Closed
<1> QED BY <1>1, <1>2, <1>3 DEF Store!StoreInit, Init

LEMMA OpenStore ==
  ASSUME IInv, NEW fd \in Fd, NEW f \in File, NEW flags \in Flags,
         ext2_open(fd, f, flags)
  PROVE  Store!Open(fd, f)
<1>1. \A g \in File : Contents(g)' = Contents(g)
  BY SameContents DEF ext2_open
<1>2. /\ handle[fd].file = {} /\ handle'[fd].file = {f} /\ handle'[fd].pos = 0
      /\ \A g \in Fd : g # fd => handle'[g] = handle[g]
  BY DEF ext2_open, IInv, TypeOK
<1>3. clashed' = IF \E g \in Fd : opened[g] = {f} THEN clashed \cup {f} ELSE clashed
  BY DEF ext2_open, opened
<1>4. opened' = [opened EXCEPT ![fd] = {f}] /\ opened[fd] = {}
  BY <1>2, Zenon DEF opened
<1>5. content' = [g \in File |-> IF g \in clashed' THEN <<>> ELSE content[g]]
  <2>1. \A g \in File : g \in clashed => g \in clashed'
    BY <1>3
  <2> QED BY <1>1, <2>1 DEF content
<1>6. pos' = [g \in Fd |-> IF g = fd \/ opened[g] \subseteq clashed' THEN 0
                           ELSE pos[g]]
  <2>1. \A g \in Fd : opened[g] \subseteq clashed => opened[g] \subseteq clashed'
    BY <1>3
  <2>2. \A g \in Fd : pos'[g] = IF g = fd \/ opened[g] \subseteq clashed' THEN 0
                                ELSE pos[g]
    BY <1>2, <2>1 DEF pos, opened
  <2> QED BY <2>2 DEF pos
<1> QED BY <1>3, <1>4, <1>5, <1>6 DEF Store!Open, content, opened, pos

LEMMA CloseStore ==
  ASSUME IInv, NEW fd \in Fd, ext2_close(fd)
  PROVE  Store!Close(fd)
<1>1. \A g \in File : Contents(g)' = Contents(g)
  BY SameContents DEF ext2_close
<1>2. /\ handle[fd].file # {} /\ handle'[fd].file = {} /\ clashed' = clashed
      /\ \A g \in Fd : g # fd => handle'[g] = handle[g]
  BY DEF ext2_close, IInv, TypeOK, Closed
<1>3. opened' = [opened EXCEPT ![fd] = {}] /\ opened[fd] # {}
  BY <1>2, Zenon DEF opened
<1>4. pos' = [pos EXCEPT ![fd] = 0] /\ content' = content
  BY <1>1, <1>2, Zenon DEF pos, content
<1> QED BY <1>2, <1>3, <1>4 DEF Store!Close, content, opened, pos

LEMMA RemountStore == Remount => Store!CloseAll
<1> SUFFICES ASSUME Remount PROVE Store!CloseAll
  OBVIOUS
<1>1. \A g \in File : Contents(g)' = Contents(g)
  BY SameContents DEF Remount
<1>2. clashed' = clashed /\ \A g \in Fd : handle'[g].file = {}
  BY DEF Remount, Closed
<1>3. opened' = [g \in Fd |-> {}] /\ pos' = [g \in Fd |-> 0] /\ content' = content
  BY <1>1, <1>2 DEF opened, pos, content
<1> QED BY <1>2, <1>3 DEF Store!CloseAll, content, opened, pos
\* A handle on a file that was open twice is none that FileStore speaks of.
LEMMA ReadStore ==
  ASSUME IInv, NEW fd \in Fd, NEW n \in Counts, ext2_read(fd, n)
  PROVE  Store!Read(fd) \/ UNCHANGED Store!storeVars
<1>1. PICK f \in handle[fd].file :
        /\ handle[fd].pos < handle[fd].ino.size
        /\ handle' = [handle EXCEPT ![fd].pos =
                        Min({handle[fd].pos + n, handle[fd].ino.size})]
        /\ inode' = [inode EXCEPT ![f] = handle[fd].ino]
        /\ data' = data /\ clashed' = clashed
  BY Zenon DEF ext2_read
<1>2. handle \in [Fd -> HandleType] /\ handle[fd] \in HandleType
      /\ inode \in [File -> InodeType] /\ TypeOK
  BY DEF IInv, TypeOK
<1>3. f \in File /\ handle[fd].file = {f}
  BY <1>1, <1>2 DEF HandleType
<1> DEFINE p == handle[fd].pos
           s == handle[fd].ino.size
           k == Min({p + n, s}) - p
<1>4. p \in Nat /\ s \in Nat /\ n \in Nat /\ p < s
  BY <1>1, <1>2, CountBound DEF HandleType, InodeType
<1>5. k \in 0 .. Max(Counts) /\ p + k <= s /\ Min({p + n, s}) = p + k
  <2>1. Min({p + n, s}) = IF s < p + n THEN s ELSE p + n
    <3> DEFINE a == p + n
    <3>1. a \in Int /\ s \in Int
      BY <1>4
    <3> HIDE DEF a, s
    <3>2. Min({a, s}) = IF s < a THEN s ELSE a
      BY <3>1, MinOfTwo
    <3> QED BY <3>2 DEF a
  <2>2. Max(Counts) \in Nat /\ n <= Max(Counts)
    BY CountBound
  <2> HIDE DEF p, s
  <2> QED BY <1>4, <2>1, <2>2
<1> HIDE DEF k
<1>6. /\ \A g \in Fd : handle'[g].file = handle[g].file
      /\ \A g \in Fd : g # fd => handle'[g].pos = handle[g].pos
      /\ handle'[fd].pos = p + k
  BY <1>1, <1>2, <1>5 DEF HandleType
<1>7. opened' = opened
  BY <1>6 DEF opened
<1>8. CASE f \in clashed
  <2>1. pos' = pos
    BY <1>1, <1>3, <1>6, <1>8 DEF pos
  <2>2. ASSUME NEW g \in File, g \notin clashed PROVE Contents(g)' = Contents(g)
    <3>1. inode'[g] = inode[g]
      BY <1>1, <1>2, <1>8, <2>2
    <3> QED BY <1>1, <3>1, SameContents
  <2>3. content' = content
    BY <1>1, <2>2 DEF content
  <2> QED BY <1>1, <1>7, <2>1, <2>3, Zenon
          DEF Store!storeVars, content, opened, pos
<1>9. CASE f \notin clashed
  <2>1. handle[fd].ino = inode[f]
    BY <1>3, <1>9 DEF IInv, OneCopy
  <2>2. inode' = inode
    BY <1>1, <1>2, <1>3, <2>1
  <2>3. content' = content
    BY <1>1, <2>2, SameContents DEF content
  <2>4. content[f] = Text(data, inode[f])
    BY <1>2, <1>3, <1>9, ContentsText DEF content
  <2>5. Len(content[f]) = s
    BY <1>4, <2>1, <2>4 DEF Text
  <2>6. pos[fd] = p /\ pos'[fd] = p + k
    BY <1>1, <1>3, <1>6, <1>9 DEF pos
  <2>7. pos' = [pos EXCEPT ![fd] = @ + k]
    <3>1. \A g \in Fd : g # fd => pos'[g] = pos[g]
      BY <1>1, <1>6 DEF pos
    <3>2. pos \in [Fd -> {pos[g] : g \in Fd}] /\ pos' \in [Fd -> {pos'[g] : g \in Fd}]
      BY DEF pos
    <3> HIDE DEF p
    <3> QED BY <2>6, <3>1, <3>2
  <2>8. f \in opened[fd] \ clashed
    BY <1>3, <1>9 DEF opened
  <2>9. pos[fd] + k <= Len(content[f])
    BY <1>5, <2>5, <2>6
  <2> QED BY <1>1, <1>5, <1>7, <2>3, <2>7, <2>8, <2>9, Zenon
          DEF Store!Read, content, opened, pos
<1> QED BY <1>8, <1>9
LEMMA WriteStore ==
  ASSUME IInv, IInv', NEW fd \in Fd, NEW n \in Counts, NEW w \in Words,
         ext2_write(fd, n, w)
  PROVE  Store!Write(fd) \/ UNCHANGED Store!storeVars
<1>0. TypeOK /\ OneCopy /\ TypeOK' /\ n \in Nat
  BY CountBound DEF IInv
<1>1. PICK home : Homed(home)
  BY DEF IInv
<1>2a. PICK f \in File : \E st, homes : Writes(fd, f, n, w, home, st, homes)
  BY <1>1, WriteWrites
<1>2. PICK st, homes : Writes(fd, f, n, w, home, st, homes)
  BY <1>2a
<1>E. Effect(fd, f, n, st)
  BY <1>0, <1>2, WriteEffect
<1> DEFINE p   == handle[fd].pos
           ino == Grown(st, p)
<1>3. /\ st \in StoreType /\ st.done \in 0 .. n
      /\ ino \in InodeType /\ ino.i_block = st.ino.i_block
      /\ ino.size = IF p + st.done > handle[fd].ino.size
                    THEN p + st.done ELSE handle[fd].ino.size
      /\ p \in Nat
  BY <1>E DEF Effect
<1>4. /\ inode'[f] = ino
      /\ \A e \in File : e # f => inode'[e] = inode[e]
      /\ handle'[fd].file = {f} /\ handle'[fd].pos = p + st.done
      /\ \A g \in Fd : g # fd => handle'[g] = handle[g]
  BY <1>E DEF Effect
<1>5. /\ StoreOf(fd) \in StoreType
      /\ StoreOf(fd).data = data /\ StoreOf(fd).used = used
      /\ StoreOf(fd).ino = handle[fd].ino
  BY <1>0, StoreFields
<1> HIDE DEF ino
<1>6. /\ data' = st.data /\ clashed' = clashed /\ handle[fd].file = {f}
      /\ Kept(StoreOf(fd), home, st, homes, f)
      /\ Written(StoreOf(fd), home, st, homes, f, p, n, w)
  BY <1>2 DEF Writes, Written
<1>7. opened' = opened
  BY <1>4, <1>6, Zenon DEF opened
<1>8. ASSUME NEW g \in File, g # f PROVE Contents(g)' = Contents(g)
  <2>1. inode[g] \in InodeType /\ InodeHomes(home, used, g, inode[g])
        /\ Filled(data, inode[g]) /\ IndirectHomes(home, data, used)
    BY <1>0, <1>1 DEF TypeOK, Homed
  <2>2. Text(st.data, inode[g]) = Text(data, inode[g])
    <3>1. /\ InodeHomes(home, StoreOf(fd).used, g, inode[g])
          /\ Filled(StoreOf(fd).data, inode[g])
          /\ IndirectHomes(home, StoreOf(fd).data, StoreOf(fd).used)
      BY <1>5, <2>1
    <3>2. /\ StoreOf(fd) \in StoreType /\ inode[g] \in InodeType
          /\ Kept(StoreOf(fd), home, st, homes, f)
      BY <1>5, <1>6, <2>1
    <3>3. Text(st.data, inode[g]) = Text(StoreOf(fd).data, inode[g])
      <4>1. WritesElsewhere(StoreOf(fd), home, st, homes, f, g, inode[g])
        BY <1>8, <3>1, <3>2 DEF WritesElsewhere
      <4> QED BY <4>1, OtherText
    <3> QED BY <1>5, <3>3
  <2>3. Contents(g)' = Text(data', inode'[g]) /\ Contents(g) = Text(data, inode[g])
    BY <1>0, ContentsText
  <2> QED BY <1>4, <1>6, <1>8, <2>2, <2>3
<1>9. CASE f \in clashed
  <2>1. pos' = pos
    BY <1>4, <1>6, <1>9 DEF pos
  <2>2. content' = content
    BY <1>6, <1>8, <1>9 DEF content
  <2> QED BY <1>6, <1>7, <2>1, <2>2 DEF Store!storeVars, content, opened, pos
<1>10. CASE f \notin clashed
  <2> DEFINE k == st.done
  <2>1. handle[fd].ino = inode[f] /\ p <= handle[fd].ino.size
    BY <1>0, <1>6, <1>10 DEF OneCopy, TypeOK
  <2>2. Text(st.data, ino) = Store!Overwritten(Text(data, inode[f]), p, k, w)
    <3>1. GrowsTo(StoreOf(fd), st, p, ino)
      BY <1>3, <1>5, <2>1 DEF GrowsTo
    <3>2. Text(st.data, ino) =
            Store!Overwritten(Text(StoreOf(fd).data, StoreOf(fd).ino), p, k, w)
      <4>1. /\ StoreOf(fd) \in StoreType /\ ino \in InodeType
            /\ p \in Nat /\ n \in Nat
            /\ Written(StoreOf(fd), home, st, homes, f, p, n, w)
        BY <1>0, <1>3, <1>5, <1>6
      <4> HIDE DEF p
      <4> QED BY <3>1, <4>1, WrittenText
    <3> QED BY <1>5, <2>1, <3>2
  <2>3. Contents(f)' = Text(st.data, ino) /\ Contents(f) = Text(data, inode[f])
    BY <1>0, <1>4, <1>6, ContentsText
  <2>4. content[f] = Contents(f) /\ content'[f] = Contents(f)'
        /\ \A g \in File : g # f => content'[g] = content[g]
    BY <1>6, <1>8, <1>10 DEF content
  <2>5. pos[fd] = p /\ pos'[fd] = p + k
        /\ \A g \in Fd : g # fd => pos'[g] = pos[g]
    BY <1>4, <1>6, <1>10 DEF pos
  <2>6. content' = [content EXCEPT ![f] = Store!Overwritten(@, pos[fd], k, w)]
    <3>1. content'[f] = Store!Overwritten(content[f], pos[fd], k, w)
      BY <2>2, <2>3, <2>4, <2>5
    <3> DEFINE new == Store!Overwritten(content[f], pos[fd], k, w)
    <3>2. content = [g \in File |-> content[g]] /\ content' = [g \in File |-> content'[g]]
      BY DEF content
    <3> HIDE DEF new
    <3>3. content' = [content EXCEPT ![f] = new]
      BY <2>4, <3>1, <3>2 DEF new
    <3> QED BY <3>3 DEF new
  <2>7. pos' = [pos EXCEPT ![fd] = @ + k]
    <3>1. pos = [g \in Fd |-> pos[g]] /\ pos' = [g \in Fd |-> pos'[g]]
      BY DEF pos
    <3> HIDE DEF p
    <3> QED BY <2>5, <3>1
  <2>8. f \in opened[fd] \ clashed
    BY <1>6, <1>10 DEF opened
  <2>9. k \in 0 .. Max(Counts)
    <3>1. Max(Counts) \in Nat /\ n <= Max(Counts)
      BY CountBound
    <3> QED BY <1>0, <1>3, <3>1
  <2>10. /\ content' = [content EXCEPT ![f] = Store!Overwritten(@, pos[fd], k, w)]
         /\ pos' = [pos EXCEPT ![fd] = @ + k] /\ opened' = opened
         /\ clashed' = clashed
    BY <1>6, <1>7, <2>6, <2>7
  <2> HIDE DEF k
  <2>11. \E e \in opened[fd] \ clashed, j \in 0 .. Max(Counts), v \in Words :
           /\ content' = [content EXCEPT ![e] = Store!Overwritten(@, pos[fd], j, v)]
           /\ pos' = [pos EXCEPT ![fd] = @ + j]
           /\ UNCHANGED <<opened, clashed>>
    BY <2>8, <2>9, <2>10, Zenon
  <2> QED BY <2>11, Zenon DEF Store!Write, content, opened, pos
<1> QED BY <1>9, <1>10

\* What ext2_read and ext2_write do to blocks, indirect blocks, inodes and
\* their copies is what FileStore says about sequences of words: for any number
\* of files, handles and blocks, and with the disk full at any point.
THEOREM FilesAreSequences == Spec => IsFileStore
<1>1. Init => Store!StoreInit
  BY InitStore
<1>2. IInv /\ IInv' /\ [Next]_vars => [Store!StoreNext]_(Store!storeVars)
  <2> SUFFICES ASSUME IInv, IInv', [Next]_vars
               PROVE  Store!StoreNext \/ UNCHANGED Store!storeVars
    OBVIOUS
  <2>1. ASSUME NEW fd \in Fd, NEW f \in File, NEW flags \in Flags,
               ext2_open(fd, f, flags)
        PROVE  Store!StoreNext
    BY <2>1, OpenStore DEF Store!StoreNext
  <2>2. ASSUME NEW fd \in Fd, NEW n \in Counts, ext2_read(fd, n)
        PROVE  Store!StoreNext \/ UNCHANGED Store!storeVars
    BY <2>2, ReadStore DEF Store!StoreNext
  <2>3. ASSUME NEW fd \in Fd, NEW n \in Counts, NEW w \in Words,
               ext2_write(fd, n, w)
        PROVE  Store!StoreNext \/ UNCHANGED Store!storeVars
    BY <2>3, WriteStore DEF Store!StoreNext
  <2>4. ASSUME NEW fd \in Fd, ext2_close(fd) PROVE Store!StoreNext
    BY <2>4, CloseStore DEF Store!StoreNext
  <2>5. CASE Remount
    BY <2>5, RemountStore DEF Store!StoreNext
  <2>6. CASE UNCHANGED vars
    <3>1. \A f \in File : Contents(f)' = Contents(f)
      BY <2>6, SameContents DEF vars
    <3>2. content' = content /\ opened' = opened /\ pos' = pos /\ clashed' = clashed
      BY <2>6, <3>1 DEF vars, content, opened, pos
    <3> QED BY <3>2 DEF Store!storeVars, content, opened, pos
  <2> QED BY <2>1, <2>2, <2>3, <2>4, <2>5, <2>6 DEF Next
<1> QED BY <1>1, <1>2, IInvHolds, PTL DEF Spec, IsFileStore, Store!StoreSpec
=============================================================================
