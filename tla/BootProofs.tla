----------------------------- MODULE BootProofs -----------------------------
(***************************************************************************)
(* What kmain sets up: the physical memory manager, for every bitmap size  *)
(* and every memory map; the interrupt controllers, which stay in step     *)
(* with their driver, and the handlers that ticks and keys find, for every *)
(* set of lines, every mask that the firmware leaves and every order of    *)
(* interrupts and boot statements; the uptime and the length of a sleep,   *)
(* for every delay and however long the system runs.                       *)
(***************************************************************************)
EXTENDS PMM, Boot, Timer, FiniteSetTheorems, WellFoundedInduction, TLAPS

-----------------------------------------------------------------------------
(* The region search of pmm_init *)

\* k is the entry the search of pmm_init settles on.
IsLargest(mm, k) ==
  \A j \in Candidates(mm) :
    \/ mm[j].length < mm[k].length
    \/ mm[j].length = mm[k].length /\ k <= j

\* The search has a result whenever there is a candidate entry: among
\* finitely many candidates one is longest, and one of those comes first.
LEMMA LargestExists ==
  ASSUME NEW mm \in Seq(Entry), Candidates(mm) # {}
  PROVE  Largest(mm) \in Candidates(mm) /\ IsLargest(mm, Largest(mm))
<1> DEFINE C == Candidates(mm)
           Up(k) == {j \in C : \/ mm[j].length > mm[k].length
                               \/ mm[j].length = mm[k].length /\ j <= k}
           U == {Up(k) : k \in C}
<1>1. /\ C \subseteq 1 .. Len(mm) /\ Len(mm) \in Nat
      /\ \A k \in C : mm[k].length \in Nat /\ k \in Nat
  <2>1. \A k \in 1 .. Len(mm) : mm[k] \in Entry
    OBVIOUS
  <2>2. C \subseteq 1 .. Len(mm) /\ Len(mm) \in Nat
    BY DEF Candidates
  <2> QED BY <2>1, <2>2 DEF Entry
<1>2. IsFiniteSet(C)
  <2>1. IsFiniteSet(1 .. Len(mm))
    BY <1>1, FS_Interval
  <2> HIDE DEF C
  <2> QED BY <1>1, <2>1, FS_Subset
<1>3. IsWellFoundedOn(StrictSubsetOrdering(C), SUBSET C)
  BY <1>2, FS_StrictSubsetOrderingWellFounded, FS_FiniteSubsetsOfFinite
<1>4. U \subseteq SUBSET C /\ U # {}
  OBVIOUS
<1>5. PICK x \in U : \A y \in U : ~ (<<y, x>> \in StrictSubsetOrdering(C))
  <2> HIDE DEF U, C
  <2> QED BY <1>3, <1>4, WFMin
<1>6. PICK k \in C : x = Up(k)
  OBVIOUS
<1>7. ASSUME NEW j \in C, ~ (\/ mm[j].length < mm[k].length
                             \/ mm[j].length = mm[k].length /\ k <= j)
      PROVE  FALSE
  <2>1. Up(j) \subseteq Up(k)
    BY <1>1, <1>7
  <2>2. k \in Up(k) /\ k \notin Up(j)
    BY <1>1, <1>7
  <2>3. <<Up(j), Up(k)>> \in StrictSubsetOrdering(C)
    <3>1. Up(j) \in SUBSET C /\ Up(k) \in SUBSET C
      OBVIOUS
    <3>2. Up(j) # Up(k)
      BY <2>2
    <3> HIDE DEF Up, C
    <3> QED BY <2>1, <3>1, <3>2 DEF StrictSubsetOrdering
  <2> QED BY <2>3, <1>5, <1>6
<1>8. IsLargest(mm, k)
  BY <1>7 DEF IsLargest
<1> QED BY <1>8 DEF Largest, IsLargest

\* What pmm_init computes from a memory map is well typed.
LEMMA InitTypes ==
  ASSUME NEW mm \in MemMaps
  PROVE  /\ StartAddress(mm) \in Nat
         /\ MaxPages(mm) \in 0 .. BitmapPages
         /\ MaxPages(mm) <= LargestSize(mm)
         /\ MarkedUsed(mm) \subseteq 0 .. MaxPages(mm) - 1
<1> USE PMMConstants
<1>1. mm \in Seq(Entry)
  OBVIOUS
<1>2. CASE Candidates(mm) = {}
  BY <1>2 DEF StartAddress, MaxPages, LargestSize, MarkedUsed
<1>3. CASE Candidates(mm) # {}
  <2>1. Largest(mm) \in Candidates(mm)
    BY <1>1, <1>3, LargestExists
  <2>2. Largest(mm) \in 1 .. Len(mm)
    BY <1>1, <2>1 DEF Candidates
  <2>3. mm[Largest(mm)] \in Entry
    BY <1>1, <2>2
  <2>4. mm[Largest(mm)].base \in Nat /\ mm[Largest(mm)].length \in Nat
    BY <2>3 DEF Entry
  <2> QED BY <1>3, <2>4 DEF StartAddress, MaxPages, LargestSize, MarkedUsed
<1> QED BY <1>2, <1>3

-----------------------------------------------------------------------------
(* The inductive invariant *)

\* The statics before pmm_init satisfy the invariant.
LEMMA InitIInv == Init => IInv
<1> SUFFICES ASSUME Init PROVE IInv
  OBVIOUS
<1> USE PMMConstants DEF Init
<1>1. TypeOK
  <2>1. <<>> \in Seq(Entry)
    OBVIOUS
  <2>2. 0 \in 0 .. BitmapPages /\ held \in [0 .. BitmapPages - 1 -> Nat]
    OBVIOUS
  <2> QED BY <2>1, <2>2 DEF TypeOK, Pages
<1>2. ExactAccounting /\ ScanInv /\ BootInv
  BY DEF ExactAccounting, ScanInv, BootInv
<1> QED BY <1>1, <1>2 DEF IInv

\* pmm_init establishes the accounts: the reserved pages are the used ones.
LEMMA BootStep == ASSUME IInv, pmm_init PROVE IInv'
<1>1. PICK mm \in MemMaps : /\ ready' = TRUE /\ memmap' = mm
                            /\ kernel_start' = StartAddress(mm)
                            /\ max_pages' = MaxPages(mm)
                            /\ used' = MarkedUsed(mm)
                            /\ reserved' = MarkedUsed(mm)
  BY DEF pmm_init
<1>2. /\ ~ ready /\ pc = "idle" /\ used = {} /\ reserved = {}
      /\ UNCHANGED <<pc, locals, ret, held>>
  BY DEF pmm_init, IInv, BootInv
<1>3. mm \in Seq(Entry)
  BY PMMConstants
<1>4. TypeOK'
  BY <1>1, <1>2, <1>3, InitTypes DEF IInv, TypeOK, Pages, locals
<1>5. ExactAccounting'
  BY <1>1, <1>2 DEF IInv, TypeOK, ExactAccounting
<1>6. ScanInv'
  BY <1>1, <1>2 DEF ScanInv, locals
<1>7. BootInv'
  BY <1>1, <1>2 DEF BootInv
<1> QED BY <1>4, <1>5, <1>6, <1>7 DEF IInv

\* Marking a free run used and giving it to the caller keeps the accounts.
LEMMA HandOutAccounts ==
  ASSUME IInv, NEW s \in Nat, NEW n \in Nat, FreeRun(s, n), HandOut(s, n),
         UNCHANGED config
  PROVE  /\ used' \subseteq Pages'
         /\ held' \in [0 .. BitmapPages - 1 -> Nat]
         /\ ExactAccounting'
<1> USE PMMConstants DEF IInv, TypeOK, config, FreeRun
<1>1. used' \subseteq Pages'
  BY DEF HandOut, Pages
<1>2. held' \in [0 .. BitmapPages - 1 -> Nat]
  BY DEF HandOut
<1>3. ASSUME NEW p \in 0 .. BitmapPages - 1
      PROVE  /\ held'[p] <= 1
             /\ p \in used' <=> (p \in reserved' \/ held'[p] = 1)
             /\ p \in reserved' => held'[p] = 0
  <2>1. /\ held[p] \in Nat /\ held[p] <= 1
        /\ p \in used <=> (p \in reserved \/ held[p] = 1)
        /\ p \in reserved => held[p] = 0
    BY DEF ExactAccounting
  <2>2. CASE p \in s .. s + n - 1
    <3>1. p \notin used
      BY <2>2
    <3>2. held'[p] = held[p] + 1 /\ p \in used'
      BY <2>2 DEF HandOut
    <3> QED BY <2>1, <3>1, <3>2
  <2>3. CASE p \notin s .. s + n - 1
    <3>1. held'[p] = held[p] /\ (p \in used' <=> p \in used)
      BY <2>3 DEF HandOut
    <3> QED BY <2>1, <3>1
  <2> QED BY <2>2, <2>3
<1> QED BY <1>1, <1>2, <1>3 DEF ExactAccounting

\* A call that ends, in failure or with its pages accounted for, keeps IInv.
LEMMA ReturnStep ==
  ASSUME IInv, NEW r \in Nat \cup {NULL}, Return(r), UNCHANGED config, ready,
         used' \subseteq Pages', held' \in [0 .. BitmapPages - 1 -> Nat],
         ExactAccounting'
  PROVE  IInv'
<1>1. TypeOK'
  BY DEF IInv, TypeOK, Return, config, Pages
<1>2. ScanInv'
  BY DEF Return, ScanInv
<1>3. BootInv'
  BY DEF IInv, BootInv, config
<1> QED BY <1>1, <1>2, <1>3 DEF IInv

\* A call that returns NULL changes nothing but the locals.
LEMMA FailStep == ASSUME IInv, Fail PROVE IInv'
<1> USE DEF Fail, IInv
<1>1. TypeOK'
  BY DEF TypeOK, Return, config, Pages
<1>2. ExactAccounting'
  BY DEF ExactAccounting, config
<1>3. ScanInv'
  BY DEF Return, ScanInv
<1>4. BootInv'
  BY DEF BootInv, Return, config
<1> QED BY <1>1, <1>2, <1>3, <1>4

\* The steps that change locals of a scan only.
LEMMA LocalStep ==
  ASSUME IInv, UNCHANGED <<config, used, ret, held>>, ready,
         pc' \in {"page", "pages"}, count' \in Nat, i' \in Nat,
         found_pages' \in Nat, start_page' \in Nat, ScanInv'
  PROVE  IInv'
<1>1. TypeOK'
  BY DEF IInv, TypeOK, config, Pages
<1>2. ExactAccounting' /\ BootInv'
  BY DEF IInv, ExactAccounting, BootInv, config
<1> QED BY <1>1, <1>2 DEF IInv

\* Entering pmm_alloc_page: nothing has been scanned.
LEMMA AllocPageCall == ASSUME IInv, pmm_alloc_page PROVE IInv'
<1>1. CASE Fail
  BY <1>1, FailStep
<1>2. CASE ~ Fail
  <2>1. /\ ready /\ pc' = "page" /\ count' = 1 /\ i' = 0
        /\ UNCHANGED <<config, used, found_pages, start_page, ret, held>>
    BY <1>2 DEF pmm_alloc_page
  <2>2. ScanInv'
    BY <2>1 DEF ScanInv, config, IInv, TypeOK
  <2> QED BY <2>1, <2>2, LocalStep DEF IInv, TypeOK
<1> QED BY <1>1, <1>2

\* Entering pmm_alloc_pages: nothing has been scanned or found.
LEMMA AllocPagesCall ==
  ASSUME IInv, NEW n \in Nat, pmm_alloc_pages(n) PROVE IInv'
<1>1. CASE Fail
  BY <1>1, FailStep
<1>2. CASE pmm_alloc_page
  BY <1>2, AllocPageCall
<1>3. CASE /\ ready /\ n > 1 /\ pc' = "pages" /\ count' = n
           /\ i' = 0 /\ found_pages' = 0 /\ start_page' = 0
           /\ UNCHANGED <<config, used, ret, held>>
  <2>1. ScanInv'
    BY <1>3 DEF ScanInv, config, IInv, TypeOK
  <2> QED BY <1>3, <2>1, LocalStep
<1> QED BY <1>1, <1>2, <1>3 DEF pmm_alloc_pages

\* One iteration of the loop of pmm_alloc_page.
LEMMA AllocPageIteration == ASSUME IInv, AllocPageStep PROVE IInv'
<1> USE PMMConstants
<1>1. ready /\ i \in Nat /\ max_pages \in Nat /\ kernel_start \in Nat
  BY DEF AllocPageStep, IInv, TypeOK, ScanInv
<1>2. CASE Fail
  BY <1>2, FailStep
<1>3. CASE /\ i < max_pages /\ i \notin used /\ HandOut(i, 1)
           /\ Return(kernel_start + i) /\ UNCHANGED config
  <2>1. FreeRun(i, 1)
    BY <1>1, <1>3 DEF FreeRun, Pages
  <2> QED BY <1>1, <1>3, <2>1, HandOutAccounts, ReturnStep
<1>4. CASE /\ i < max_pages /\ i \in used /\ i' = i + 1
           /\ UNCHANGED <<config, used, pc, count, found_pages, start_page, ret, held>>
  <2>1. ScanInv'
    BY <1>1, <1>4 DEF AllocPageStep, IInv, ScanInv, config
  <2> QED BY <1>1, <1>4, <2>1, LocalStep DEF IInv, TypeOK, AllocPageStep
<1> QED BY <1>2, <1>3, <1>4 DEF AllocPageStep

\* In the middle of the scan of pmm_alloc_pages, the page i being free, the
\* run that ends with page i is free.
LEMMA RunSoFar ==
  ASSUME IInv, pc = "pages", i < max_pages, i \notin used
  PROVE  /\ RunStart = i - found_pages /\ RunStart \in Nat
         /\ FreeRun(RunStart, found_pages + 1)
<1> USE DEF IInv, TypeOK
<1>1. RunStart = i - found_pages /\ RunStart \in Nat
  BY DEF ScanInv, RunStart
<1>2. RunStart + (found_pages + 1) - 1 = i
  BY <1>1
<1>3. \A p \in RunStart .. i : p \in Pages /\ p \notin used
  BY <1>1 DEF ScanInv, Pages
<1> QED BY <1>1, <1>2, <1>3 DEF FreeRun

\* One iteration of the loop of pmm_alloc_pages.
LEMMA AllocPagesIteration == ASSUME IInv, AllocPagesStep PROVE IInv'
<1> USE PMMConstants
<1>1. /\ ready /\ pc = "pages" /\ i \in Nat /\ max_pages \in Nat
      /\ kernel_start \in Nat /\ count \in Nat /\ found_pages \in Nat
      /\ start_page \in Nat
  BY DEF AllocPagesStep, IInv, TypeOK, ScanInv
<1>2. CASE Fail
  BY <1>2, FailStep
<1>3. CASE /\ i < max_pages /\ i \notin used /\ found_pages + 1 = count
           /\ HandOut(RunStart, count)
           /\ Return(kernel_start + RunStart) /\ UNCHANGED config
  <2>1. FreeRun(RunStart, count) /\ RunStart \in Nat
    BY <1>1, <1>3, RunSoFar
  <2> QED BY <1>1, <1>3, <2>1, HandOutAccounts, ReturnStep
<1>4. CASE /\ i < max_pages /\ i \notin used /\ found_pages + 1 # count
           /\ start_page' = RunStart /\ found_pages' = found_pages + 1
           /\ i' = i + 1
           /\ UNCHANGED <<config, used, pc, count, ret, held>>
  <2>1. RunStart = i - found_pages /\ RunStart \in Nat
    BY <1>1, <1>4, RunSoFar
  <2>2. ASSUME NEW s \in 0 .. i' - count'
        PROVE  \E p \in s .. s + count' - 1 : p \in used'
    <3>0. s \in Nat /\ count' = count /\ used' = used /\ i' = i + 1
      BY <1>1, <1>4
    <3>1. CASE s <= i - count
      <4>1. s \in 0 .. i - count
        BY <1>1, <3>0, <3>1
      <4>2. \E p \in s .. s + count - 1 : p \in used
        BY <1>1, <4>1 DEF IInv, ScanInv
      <4> QED BY <3>0, <4>2
    <3>2. CASE s = i + 1 - count
      <4>1. /\ found_pages + 1 < count /\ found_pages < i
            /\ (i - found_pages - 1) \in used
        BY <1>1, <1>4, <3>2 DEF IInv, ScanInv
      <4>2. i - found_pages - 1 \in s .. s + count' - 1
        BY <1>1, <3>0, <3>2, <4>1
      <4> QED BY <3>0, <4>1, <4>2
    <3> QED BY <1>1, <3>0, <3>1, <3>2
  <2>3. ScanInv'
    <3>1. \A p \in (i' - found_pages') .. (i' - 1) : p \notin used'
      BY <1>1, <1>4 DEF IInv, ScanInv
    <3>2. found_pages' < i' => (i' - found_pages' - 1) \in used'
      BY <1>1, <1>4 DEF IInv, ScanInv
    <3> QED BY <1>1, <1>4, <2>1, <2>2, <3>1, <3>2 DEF IInv, ScanInv, config
  <2> QED BY <1>1, <1>4, <2>1, <2>3, LocalStep
<1>5. CASE /\ i < max_pages /\ i \in used
           /\ found_pages' = 0 /\ i' = i + 1
           /\ UNCHANGED <<config, used, pc, count, start_page, ret, held>>
  <2>1. ASSUME NEW s \in 0 .. i' - count'
        PROVE  \E p \in s .. s + count' - 1 : p \in used'
    <3>0. s \in Nat /\ count' = count /\ used' = used /\ i' = i + 1
      BY <1>1, <1>5
    <3>1. CASE s <= i - count
      <4>1. s \in 0 .. i - count
        BY <1>1, <3>0, <3>1
      <4>2. \E p \in s .. s + count - 1 : p \in used
        BY <1>1, <4>1 DEF IInv, ScanInv
      <4> QED BY <3>0, <4>2
    <3>2. CASE s = i + 1 - count
      <4>1. count > 1
        BY <1>1 DEF IInv, ScanInv
      <4>2. i \in s .. s + count' - 1
        BY <1>1, <3>0, <3>2, <4>1
      <4> QED BY <1>5, <3>0, <4>2
    <3> QED BY <1>1, <3>0, <3>1, <3>2
  <2>2. ScanInv'
    BY <1>1, <1>5, <2>1 DEF IInv, ScanInv, config
  <2> QED BY <1>1, <1>5, <2>2, LocalStep
<1> QED BY <1>2, <1>3, <1>4, <1>5 DEF AllocPagesStep

\* The bits a release clears belong to its caller.
LEMMA OwnPages ==
  ASSUME IInv, NEW a \in Addresses, NEW n \in Nat, MayFree(a, n)
  PROVE  \A p \in FreedPages(a, n) : p \in used /\ held[p] = 1
<1> SUFFICES ASSUME NEW p \in FreedPages(a, n) PROVE p \in used /\ held[p] = 1
  OBVIOUS
<1> USE PMMConstants
<1>1. kernel_start \in Nat /\ max_pages \in Nat /\ used \subseteq Nat
  BY DEF IInv, TypeOK, Pages
<1>2. Managed(a) /\ p \in used
  BY DEF FreedPages
<1>3. a \in Nat /\ a # Misaligned
  BY <1>1, <1>2 DEF Managed, kernel_end, Addresses
<1>4. kernel_start + p \in a .. a + n - 1
  BY <1>1, <1>2, <1>3 DEF FreedPages, kernel_end
<1> QED BY <1>2, <1>3, <1>4 DEF MayFree

\* A release clears exactly the pages its caller gives back.
LEMMA FreeStep ==
  ASSUME IInv, NEW a \in Addresses, NEW n \in Nat, pmm_free_pages(a, n)
  PROVE  IInv'
<1> USE PMMConstants DEF pmm_free_pages
<1> DEFINE F == FreedPages(a, n)
<1>1. F \subseteq used /\ (~ ready => F = {})
  BY DEF FreedPages
<1> HIDE DEF F
<1>2. TypeOK'
  <2>1. ASSUME NEW p \in 0 .. BitmapPages - 1
        PROVE  (IF p \in F THEN held[p] - 1 ELSE held[p]) \in Nat
    <3>1. held[p] \in Nat /\ (p \in F => held[p] = 1)
      BY OwnPages DEF IInv, TypeOK, F
    <3> QED BY <3>1
  <2>2. held' = [p \in 0 .. BitmapPages - 1 |->
                   IF p \in F THEN held[p] - 1 ELSE held[p]]
    BY DEF F
  <2>3. held' \in [0 .. BitmapPages - 1 -> Nat]
    BY <2>1, <2>2
  <2> QED BY <2>3 DEF IInv, TypeOK, config, locals, Pages
<1>3. ASSUME NEW p \in 0 .. BitmapPages - 1
      PROVE  /\ held'[p] <= 1
             /\ p \in used' <=> (p \in reserved' \/ held'[p] = 1)
             /\ p \in reserved' => held'[p] = 0
  <2>1. /\ held[p] \in Nat /\ held[p] <= 1
        /\ p \in used <=> (p \in reserved \/ held[p] = 1)
        /\ p \in reserved => held[p] = 0
    BY DEF IInv, TypeOK, ExactAccounting
  <2>2. /\ held'[p] = IF p \in F THEN held[p] - 1 ELSE held[p]
        /\ p \in used' <=> p \in used /\ p \notin F
        /\ reserved' = reserved
    BY DEF F, config
  <2>3. p \in F => held[p] = 1
    BY OwnPages DEF F
  <2> QED BY <2>1, <2>2, <2>3, <1>1
<1>4. ExactAccounting'
  BY <1>3 DEF ExactAccounting
<1>5. ScanInv'
  BY DEF ScanInv
<1>6. BootInv'
  BY <1>1 DEF IInv, BootInv, config
<1> QED BY <1>2, <1>4, <1>5, <1>6 DEF IInv

\* Every step of the manager keeps the inductive invariant.
LEMMA NextIInv == IInv /\ [Next]_vars => IInv'
<1> SUFFICES ASSUME IInv, [Next]_vars PROVE IInv'
  OBVIOUS
<1>1. CASE pmm_init
  BY <1>1, BootStep
<1>2. CASE pmm_alloc_page
  BY <1>2, AllocPageCall
<1>3. CASE AllocPageStep
  BY <1>3, AllocPageIteration
<1>4. ASSUME NEW n \in 0 .. MaxRequest, pmm_alloc_pages(n) PROVE IInv'
  BY <1>4, AllocPagesCall, PMMConstants
<1>5. CASE AllocPagesStep
  BY <1>5, AllocPagesIteration
<1>6. ASSUME NEW a \in Addresses, pmm_free_page(a) PROVE IInv'
  BY <1>6, FreeStep DEF pmm_free_page
<1>7. ASSUME NEW a \in Addresses, NEW n \in 0 .. MaxRequest,
             pmm_free_pages(a, n)
      PROVE  IInv'
  BY <1>7, FreeStep, PMMConstants
<1>8. CASE UNCHANGED vars
  <2>1. TypeOK'
    BY <1>8 DEF vars, config, locals, IInv, TypeOK, Pages
  <2>2. ExactAccounting' /\ ScanInv' /\ BootInv'
    BY <1>8 DEF vars, config, locals, IInv, ExactAccounting, ScanInv, BootInv
  <2> QED BY <2>1, <2>2 DEF IInv
<1> QED BY <1>1, <1>2, <1>3, <1>4, <1>5, <1>6, <1>7, <1>8 DEF Next

\* IInv is an invariant of the physical memory manager.
LEMMA Invariance == Spec => []IInv
BY InitIInv, NextIInv, PTL DEF Spec

-----------------------------------------------------------------------------
(* The theorems *)

\* Type correctness of the statics of pmm.c and of the allocation loops.
THEOREM TypeCorrect == Spec => []TypeOK
<1>1. IInv => TypeOK
  BY DEF IInv
<1> QED BY <1>1, Invariance, PTL

\* Whatever sequence of allocations and releases the kernel makes, with any
\* bitmap size and any memory map, the bitmap of pmm.c accounts for every
\* page exactly and no page has two holders.
THEOREM Accounting == Spec => []ExactAccounting
<1>1. IInv => ExactAccounting
  BY DEF IInv
<1> QED BY <1>1, Invariance, PTL

\* Every page that pmm.c hands out, or could hand out, is usable memory
\* above 1MB, for every memory map.
THEOREM UsableOnly == Spec => []OnlyUsableMemory
<1>1. ASSUME IInv PROVE OnlyUsableMemory
  <2> SUFFICES ASSUME ready, NEW p \in Pages, pmm_is_page_free(kernel_start + p) \/ held[p] > 0
               PROVE  /\ kernel_start + p >= MinBase
                      /\ \E k \in DOMAIN memmap :
                           /\ memmap[k].usable
                           /\ kernel_start + p \in Frames(memmap[k])
                      /\ \A k \in DOMAIN memmap :
                           kernel_start + p \in Frames(memmap[k])
                             => memmap[k].usable
    BY DEF OnlyUsableMemory
  <2> USE PMMConstants
  <2>1. /\ memmap \in Seq(Entry) /\ kernel_start = StartAddress(memmap)
        /\ max_pages = MaxPages(memmap) /\ reserved = MarkedUsed(memmap)
        /\ p \in 0 .. max_pages - 1 /\ max_pages \in 0 .. BitmapPages
    BY <1>1 DEF IInv, TypeOK, BootInv, Pages
  <2>2. p \notin MarkedUsed(memmap)
    <3>1. p \in 0 .. BitmapPages - 1
      BY <2>1
    <3>2. held[p] \in Nat
      BY <1>1, <3>1 DEF IInv, TypeOK
    <3>3. (kernel_start + p) - kernel_start = p
      BY <1>1, <3>1 DEF IInv, TypeOK
    <3> QED BY <1>1, <2>1, <3>1, <3>2, <3>3
            DEF IInv, ExactAccounting, pmm_is_page_free
  <2>3. Candidates(memmap) # {}
    BY <2>1 DEF MaxPages, LargestSize
  <2> DEFINE k == Largest(memmap)
  <2>4. k \in Candidates(memmap)
    BY <2>1, <2>3, LargestExists
  <2>5. k \in 1 .. Len(memmap) /\ memmap[k].usable /\ memmap[k].base >= MinBase
    BY <2>1, <2>4 DEF Candidates
  <2>6. memmap[k] \in Entry
    BY <2>1, <2>5
  <2>7. /\ memmap[k].base \in Nat /\ memmap[k].length \in Nat
        /\ kernel_start = memmap[k].base /\ max_pages <= memmap[k].length
    BY <2>1, <2>3, <2>6 DEF Entry, StartAddress, MaxPages, LargestSize
  <2> HIDE DEF k
  <2>8. kernel_start + p \in Frames(memmap[k])
    <3> DEFINE b == memmap[k].base
               l == memmap[k].length
    <3>1. /\ b \in Nat /\ l \in Nat /\ max_pages <= l
          /\ max_pages \in Nat /\ p \in 0 .. max_pages - 1
      BY <2>1, <2>7, PMMConstants
    <3> HIDE DEF b, l
    <3>2. b + p \in b .. b + l - 1
      BY <3>1
    <3> QED BY <2>7, <3>2 DEF Frames, b, l
  <2>9. kernel_start + p >= MinBase
    BY <2>1, <2>5, <2>7
  <2>10. \A j \in DOMAIN memmap : kernel_start + p \in Frames(memmap[j])
                                    => memmap[j].usable
    BY <2>1, <2>2 DEF MarkedUsed
  <2> QED BY <2>1, <2>5, <2>8, <2>9, <2>10
<1> QED BY <1>1, Invariance, PTL

\* A run of n > 0 pages that ends at or beyond the end of the bitmap, or
\* contains a used page, is not free.
LEMMA NoRun ==
  ASSUME NEW s \in Nat, NEW n \in Nat, n > 0, max_pages \in Nat,
         \/ s + n > max_pages
         \/ \E p \in s .. s + n - 1 : p \in used
  PROVE  ~ FreeRun(s, n)
<1>1. CASE s + n > max_pages
  <2>1. s + n - 1 \in s .. s + n - 1 /\ s + n - 1 \notin Pages
    BY <1>1 DEF Pages
  <2> QED BY <2>1 DEF FreeRun
<1>2. CASE \E p \in s .. s + n - 1 : p \in used
  BY <1>2 DEF FreeRun
<1> QED BY <1>1, <1>2

\* pmm_alloc_page ends as first fit demands.
LEMMA PageFirstFit == ASSUME IInv, AllocPageStep PROVE FirstFitStep
<1> USE PMMConstants
<1>1. /\ i \in Nat /\ max_pages \in Nat /\ kernel_start \in Nat /\ count = 1
      /\ \A p \in 0 .. i - 1 : p \in used
      /\ pc = "page"
  BY DEF AllocPageStep, IInv, TypeOK, ScanInv
<1>2. ASSUME NEW s \in 0 .. i - 1 PROVE ~ FreeRun(s, count)
  <2>1. s \in s .. s + count - 1 /\ s \in used
    BY <1>1
  <2> QED BY <2>1 DEF FreeRun
<1>3. CASE i >= max_pages /\ Fail
  <2>1. \A s \in Pages : s \in 0 .. i - 1
    BY <1>1, <1>3 DEF Pages
  <2> QED BY <1>2, <1>3, <2>1 DEF FirstFitStep, Fail, Return
<1>4. CASE /\ i < max_pages /\ i \notin used /\ HandOut(i, 1)
           /\ Return(kernel_start + i)
  <2>1. i \in Pages /\ FreeRun(i, count)
    BY <1>1, <1>4 DEF FreeRun, Pages
  <2> QED BY <1>1, <1>2, <1>4, <2>1 DEF FirstFitStep, HandOut, Return
<1>5. CASE UNCHANGED pc
  BY <1>5 DEF FirstFitStep
<1> QED BY <1>3, <1>4, <1>5 DEF AllocPageStep

\* pmm_alloc_pages ends as first fit demands.
LEMMA PagesFirstFit == ASSUME IInv, AllocPagesStep PROVE FirstFitStep
<1> USE PMMConstants
<1>1. /\ i \in Nat /\ max_pages \in Nat /\ kernel_start \in Nat
      /\ count \in Nat /\ count > 1 /\ found_pages \in Nat
      /\ i <= max_pages /\ pc = "pages"
      /\ \A s \in 0 .. i - count : \E p \in s .. s + count - 1 : p \in used
  BY DEF AllocPagesStep, IInv, TypeOK, ScanInv
<1>2. ASSUME NEW s \in 0 .. i - count PROVE ~ FreeRun(s, count)
  <2>1. s \in Nat /\ \E p \in s .. s + count - 1 : p \in used
    BY <1>1
  <2> QED BY <1>1, <2>1, NoRun
<1>3. CASE i >= max_pages /\ Fail
  <2>1. ASSUME NEW s \in Pages PROVE ~ FreeRun(s, count)
    <3>1. s \in Nat /\ (s + count > max_pages \/ s \in 0 .. i - count)
      BY <1>1, <1>3 DEF Pages
    <3> QED BY <1>1, <1>2, <3>1, NoRun
  <2> QED BY <1>3, <2>1 DEF FirstFitStep, Fail, Return
<1>4. CASE /\ i < max_pages /\ i \notin used /\ found_pages + 1 = count
           /\ HandOut(RunStart, count) /\ Return(kernel_start + RunStart)
  <2>1. /\ FreeRun(RunStart, count) /\ RunStart \in Nat
        /\ RunStart = i - found_pages
    <3>1. /\ FreeRun(RunStart, found_pages + 1) /\ RunStart \in Nat
          /\ RunStart = i - found_pages
      BY <1>1, <1>4, RunSoFar
    <3> QED BY <1>4, <3>1
  <2>2. RunStart \in Pages
    BY <1>1, <1>4, <2>1 DEF Pages
  <2>3. \A r \in 0 .. RunStart - 1 : ~ FreeRun(r, count)
    <3>1. RunStart - 1 = i - count
      BY <1>1, <1>4, <2>1
    <3> QED BY <1>2, <3>1
  <2> QED BY <1>4, <2>1, <2>2, <2>3 DEF FirstFitStep, HandOut, Return
<1>5. CASE UNCHANGED pc
  BY <1>5 DEF FirstFitStep
<1> QED BY <1>3, <1>4, <1>5 DEF AllocPagesStep

\* The allocation loops of pmm.c are first fit: they fail only when no free
\* run of the requested length exists and otherwise return the lowest one,
\* for every bitmap size and request.
THEOREM AllocationIsFirstFit == Spec => FirstFit
<1>1. IInv /\ [Next]_vars => [FirstFitStep]_vars
  <2> SUFFICES ASSUME IInv, Next PROVE FirstFitStep
    OBVIOUS
  <2>1. CASE AllocPageStep
    BY <2>1, PageFirstFit
  <2>2. CASE AllocPagesStep
    BY <2>2, PagesFirstFit
  <2>3. CASE pmm_init \/ pmm_alloc_page
    BY <2>3 DEF pmm_init, pmm_alloc_page, FirstFitStep
  <2>4. CASE \E n \in 0 .. MaxRequest : pmm_alloc_pages(n)
    BY <2>4 DEF pmm_alloc_pages, FirstFitStep
  <2>5. CASE \/ \E a \in Addresses : pmm_free_page(a)
             \/ \E a \in Addresses, n \in 0 .. MaxRequest : pmm_free_pages(a, n)
    BY <2>5 DEF pmm_free_page, pmm_free_pages, FirstFitStep
  <2> QED BY <2>1, <2>2, <2>3, <2>4, <2>5 DEF Next
<1> QED BY <1>1, Invariance, PTL DEF Spec, FirstFit

-----------------------------------------------------------------------------
(* The bitmap allocator implements PageAllocator *)

\* Membership in the mapped sets, page by page.
FrameFacts ==
  /\ FreeFrames \subseteq Nat /\ OwnedFrames \subseteq Nat
  /\ \A x \in Nat :
       /\ x \in FreeFrames <=> x - kernel_start \in Pages \ used
       /\ x \in OwnedFrames <=> /\ x - kernel_start \in Pages
                                /\ held[x - kernel_start] = 1

\* The mapped sets are the free and the held pages, shifted by kernel_start.
LEMMA FrameSets == TypeOK => FrameFacts
<1> SUFFICES ASSUME TypeOK PROVE FrameFacts
  OBVIOUS
<1> USE PMMConstants
<1>1. kernel_start \in Nat /\ Pages \subseteq Nat
  BY DEF TypeOK, Pages
<1>2. FreeFrames \subseteq Nat /\ OwnedFrames \subseteq Nat
  <2>1. \A p \in Pages : kernel_start + p \in Nat
    BY <1>1
  <2> QED BY <2>1 DEF FreeFrames, OwnedFrames
<1>3. ASSUME NEW x \in Nat
      PROVE  x \in FreeFrames <=> x - kernel_start \in Pages \ used
  <2>1. ASSUME x \in FreeFrames PROVE x - kernel_start \in Pages \ used
    <3>1. PICK p \in Pages \ used : x = kernel_start + p
      BY <2>1 DEF FreeFrames
    <3>2. x - kernel_start = p
      BY <1>1, <3>1
    <3> QED BY <3>1, <3>2
  <2>2. x = kernel_start + (x - kernel_start)
    BY <1>1
  <2> QED BY <2>1, <2>2 DEF FreeFrames
<1>4. ASSUME NEW x \in Nat
      PROVE  x \in OwnedFrames <=> /\ x - kernel_start \in Pages
                                   /\ held[x - kernel_start] = 1
  <2>1. ASSUME x \in OwnedFrames
        PROVE  x - kernel_start \in Pages /\ held[x - kernel_start] = 1
    <3>1. PICK p \in Pages : held[p] = 1 /\ x = kernel_start + p
      BY <2>1 DEF OwnedFrames
    <3>2. x - kernel_start = p
      BY <1>1, <3>1
    <3> QED BY <3>1, <3>2
  <2>2. x = kernel_start + (x - kernel_start)
    BY <1>1
  <2> QED BY <2>1, <2>2 DEF OwnedFrames
<1> QED BY <1>2, <1>3, <1>4 DEF FrameFacts

\* Handing out a free run is an allocation of PageAllocator.
LEMMA HandOutRefines ==
  ASSUME IInv, IInv', ready, NEW s \in Nat, NEW n \in Nat, n > 0,
         FreeRun(s, n), HandOut(s, n), ret' = kernel_start + s,
         UNCHANGED config
  PROVE  Promise!Allocate
<1> DEFINE first == kernel_start + s
           last  == kernel_start + (s + n - 1)
<1> USE PMMConstants DEF config
<1>1. /\ kernel_start \in Nat /\ max_pages \in 0 .. BitmapPages
      /\ kernel_start' = kernel_start /\ Pages' = Pages
      /\ held \in [0 .. BitmapPages - 1 -> Nat]
  BY DEF IInv, TypeOK, Pages
<1>a. TypeOK /\ TypeOK'
  BY DEF IInv
<1>b. FrameFacts /\ FrameFacts'
  BY <1>a, FrameSets, PTL
<1>2. first \in FreeFrames /\ last \in FreeFrames /\ first <= last
      /\ first \in Nat /\ last \in Nat
  <2>1. s \in Pages \ used /\ s + n - 1 \in Pages \ used
    BY DEF FreeRun
  <2> QED BY <1>1, <2>1 DEF FreeFrames
<1>3. ASSUME NEW x \in Nat
      PROVE  x \in first .. last <=> x - kernel_start \in s .. s + n - 1
  BY <1>1
<1> HIDE DEF first, last
<1>4. first .. last \subseteq FreeFrames
  <2>1. ASSUME NEW x \in first .. last PROVE x \in FreeFrames
    <3>1. x \in Nat
      BY <1>2
    <3>2. x - kernel_start \in Pages \ used
      BY <1>3, <3>1 DEF FreeRun
    <3> QED BY <3>1, <3>2, <1>b DEF FrameFacts
  <2> QED BY <2>1
<1>5. /\ FreeFrames \subseteq Nat /\ FreeFrames' \subseteq Nat
      /\ OwnedFrames \subseteq Nat /\ OwnedFrames' \subseteq Nat
      /\ first .. last \subseteq Nat
  BY <1>2, <1>b DEF FrameFacts
<1>6. FreeFrames' = FreeFrames \ (first .. last)
  <2>1. ASSUME NEW x \in Nat
        PROVE  x \in FreeFrames' <=> x \in FreeFrames /\ x \notin first .. last
    <3>1. x \in FreeFrames' <=> x - kernel_start \in Pages \ used'
      BY <1>1, <1>b DEF FrameFacts
    <3>2. x \in FreeFrames <=> x - kernel_start \in Pages \ used
      BY <1>b DEF FrameFacts
    <3> QED BY <1>3, <3>1, <3>2 DEF HandOut
  <2> QED BY <1>5, <2>1
<1>7. OwnedFrames' = OwnedFrames \cup (first .. last)
  <2>1. ASSUME NEW x \in Nat
        PROVE  x \in OwnedFrames' <=> x \in OwnedFrames \/ x \in first .. last
    <3> DEFINE p == x - kernel_start
    <3>1. x \in OwnedFrames' <=> p \in Pages /\ held'[p] = 1
      BY <1>1, <1>b DEF FrameFacts
    <3>2. x \in OwnedFrames <=> p \in Pages /\ held[p] = 1
      BY <1>b DEF FrameFacts
    <3>3. x \in first .. last <=> p \in s .. s + n - 1
      BY <1>3
    <3> HIDE DEF p
    <3>4. p \in Pages => p \in 0 .. BitmapPages - 1
      BY <1>1 DEF Pages
    <3>5. p \in s .. s + n - 1 => p \in Pages /\ held[p] = 0
      BY <3>4, <1>1 DEF FreeRun, IInv, ExactAccounting
    <3>6. p \in Pages => held'[p] = IF p \in s .. s + n - 1
                                      THEN held[p] + 1 ELSE held[p]
      BY <3>4 DEF HandOut
    <3> QED BY <3>1, <3>2, <3>3, <3>5, <3>6
  <2> QED BY <1>5, <2>1
<1>8. ret' = first
  BY DEF first
<1> QED BY <1>2, <1>4, <1>6, <1>7, <1>8 DEF Promise!Allocate

\* Clearing the bits of pages the caller holds is a release of PageAllocator.
LEMMA FreeRefines ==
  ASSUME IInv, IInv', NEW a \in Addresses, NEW n \in Nat, pmm_free_pages(a, n)
  PROVE  Promise!Release
<1> DEFINE F == FreedPages(a, n)
<1> USE PMMConstants
<1>1. /\ kernel_start' = kernel_start /\ Pages' = Pages /\ ready' = ready
      /\ ret' = ret /\ used' = used \ F
  BY DEF pmm_free_pages, config, Pages
<1>2. TypeOK /\ TypeOK'
  BY DEF IInv
<1>3. FrameFacts /\ FrameFacts'
  BY <1>2, FrameSets, PTL
<1>4. ASSUME NEW x \in Nat
      PROVE  /\ x \in OwnedFrames' <=> x \in OwnedFrames /\ x - kernel_start \notin F
             /\ x \in FreeFrames' <=> \/ x \in FreeFrames
                                      \/ x \in OwnedFrames /\ x - kernel_start \in F
  <2> DEFINE p == x - kernel_start
  <2>1. /\ x \in OwnedFrames' <=> p \in Pages /\ held'[p] = 1
        /\ x \in OwnedFrames <=> p \in Pages /\ held[p] = 1
        /\ x \in FreeFrames' <=> p \in Pages \ used'
        /\ x \in FreeFrames <=> p \in Pages \ used
    BY <1>1, <1>3 DEF FrameFacts
  <2>2. F \subseteq used
    BY DEF FreedPages
  <2> HIDE DEF p, F
  <2>3. p \in F => held[p] = 1
    BY OwnPages DEF pmm_free_pages, F
  <2>4. p \in Pages => /\ held[p] \in Nat
                       /\ held'[p] = IF p \in F THEN held[p] - 1 ELSE held[p]
    BY DEF pmm_free_pages, F, IInv, TypeOK, Pages
  <2>5. x \in OwnedFrames' <=> x \in OwnedFrames /\ p \notin F
    BY <2>1, <2>3, <2>4
  <2>6. x \in FreeFrames' <=> \/ x \in FreeFrames
                              \/ x \in OwnedFrames /\ p \in F
    BY <1>1, <2>1, <2>2, <2>3
  <2> QED BY <2>5, <2>6 DEF p
<1> HIDE DEF F
<1>5. /\ FreeFrames \subseteq Nat /\ FreeFrames' \subseteq Nat
      /\ OwnedFrames \subseteq Nat /\ OwnedFrames' \subseteq Nat
  BY <1>3 DEF FrameFacts
<1>6. OwnedFrames' \subseteq OwnedFrames
  BY <1>4, <1>5
<1>7. FreeFrames' = FreeFrames \cup (OwnedFrames \ OwnedFrames')
  BY <1>4, <1>5
<1> QED BY <1>1, <1>6, <1>7 DEF Promise!Release

\* Every step of the bitmap allocator is a step of PageAllocator or none.
LEMMA StepRefines ==
  ASSUME IInv, IInv', [Next]_vars
  PROVE  [Promise!Next]_(Promise!vars)
<1> USE PMMConstants
<1>1. CASE pmm_init
  <2>1. TypeOK' /\ TypeOK
    BY DEF IInv
  <2>2. FrameFacts'
    BY <2>1, FrameSets, PTL
  <2>3. \A p \in 0 .. BitmapPages - 1 : held[p] = 0
    <3>1. used = {} /\ reserved = {} /\ held \in [0 .. BitmapPages - 1 -> Nat]
      BY <1>1 DEF IInv, BootInv, TypeOK, pmm_init
    <3>2. ASSUME NEW p \in 0 .. BitmapPages - 1 PROVE held[p] = 0
      <4>1. held[p] \in Nat /\ held[p] <= 1 /\ held[p] # 1
        BY <3>1 DEF IInv, ExactAccounting
      <4> QED BY <4>1
    <3> QED BY <3>2
  <2>4. Pages \subseteq 0 .. BitmapPages - 1 /\ Pages' \subseteq 0 .. BitmapPages - 1
    <3>1. max_pages \in 0 .. BitmapPages /\ max_pages' \in 0 .. BitmapPages
      BY <2>1 DEF TypeOK
    <3>2. \A m \in 0 .. BitmapPages : 0 .. m - 1 \subseteq 0 .. BitmapPages - 1
      OBVIOUS
    <3> QED BY <3>1, <3>2 DEF Pages
  <2>5. OwnedFrames' = {} /\ OwnedFrames = {}
    <3>1. held' = held
      BY <1>1 DEF pmm_init
    <3>2. \A p \in Pages : held[p] = 0
      BY <2>3, <2>4
    <3>3. \A p \in Pages' : held'[p] = 0
      BY <2>3, <2>4, <3>1
    <3> QED BY <3>2, <3>3 DEF OwnedFrames
  <2>6. FreeFrames' \subseteq Nat
    BY <2>2 DEF FrameFacts
  <2>7. Promise!Boot
    BY <1>1, <2>5, <2>6 DEF pmm_init, Promise!Boot
  <2> QED BY <2>7 DEF Promise!Next
<1>2. CASE Fail
  <2>1. Promise!Refuse
    BY <1>2, Zenon DEF Fail, Return, config, Promise!Refuse, FreeFrames, OwnedFrames, Pages
  <2> QED BY <2>1 DEF Promise!Next
<1>3. CASE UNCHANGED <<config, used, ret, held>>
  <2>1. UNCHANGED Promise!vars
    BY <1>3 DEF config, Promise!vars, FreeFrames, OwnedFrames, Pages
  <2> QED BY <2>1
<1>4. CASE AllocPageStep /\ ~ Fail /\ ~ UNCHANGED <<config, used, ret, held>>
  <2>1. /\ HandOut(i, 1) /\ ret' = kernel_start + i /\ UNCHANGED config
        /\ i < max_pages /\ i \notin used
    BY <1>4 DEF AllocPageStep, Return
  <2>2. FreeRun(i, 1) /\ i \in Nat /\ ready
    BY <1>4, <2>1 DEF AllocPageStep, FreeRun, Pages, IInv, TypeOK, ScanInv
  <2>3. Promise!Allocate
    BY <2>1, <2>2, HandOutRefines
  <2> QED BY <2>3 DEF Promise!Next
<1>5. CASE AllocPagesStep /\ ~ Fail /\ ~ UNCHANGED <<config, used, ret, held>>
  <2>1. /\ HandOut(RunStart, count) /\ ret' = kernel_start + RunStart
        /\ UNCHANGED config /\ pc = "pages"
        /\ i < max_pages /\ i \notin used /\ found_pages + 1 = count
    BY <1>5 DEF AllocPagesStep, Return
  <2>2. FreeRun(RunStart, found_pages + 1) /\ RunStart \in Nat
    BY <2>1, RunSoFar
  <2>3. ready /\ count \in Nat /\ count > 0
    BY <2>1 DEF IInv, TypeOK, ScanInv
  <2>4. Promise!Allocate
    BY <2>1, <2>2, <2>3, HandOutRefines
  <2> QED BY <2>4 DEF Promise!Next
<1>6. CASE \E a \in Addresses, n \in Nat : pmm_free_pages(a, n)
  <2>1. Promise!Release
    BY <1>6, FreeRefines
  <2> QED BY <2>1 DEF Promise!Next
<1>7. CASE UNCHANGED vars
  BY <1>3, <1>7 DEF vars
<1>8. CASE pmm_alloc_page
  BY <1>2, <1>3, <1>8 DEF pmm_alloc_page
<1>9. CASE \E n \in 0 .. MaxRequest : pmm_alloc_pages(n)
  BY <1>2, <1>3, <1>8, <1>9 DEF pmm_alloc_pages
<1> QED BY <1>1, <1>2, <1>3, <1>4, <1>5, <1>6, <1>7, <1>8, <1>9
        DEF Next, pmm_free_page

\* The bitmap allocator of pmm.c implements PageAllocator: under any bitmap
\* size, memory map and sequence of calls its callers see an atomic allocator.
THEOREM Refinement == Spec => ImplementsPageAllocator
<1>1. Init => Promise!Init
  BY DEF Init, Promise!Init, FreeFrames, OwnedFrames, Pages
<1>2. IInv /\ IInv' /\ [Next]_vars => [Promise!Next]_(Promise!vars)
  BY StepRefines
<1> QED BY <1>1, <1>2, Invariance, PTL DEF Spec, ImplementsPageAllocator, Promise!Spec

USE PICConstants, BootLines

-----------------------------------------------------------------------------
(* The interrupt controllers *)

\* What the induction over the controllers needs.
PICInv == PICTypeOK /\ InStep

\* Whatever masks the firmware leaves, nothing is in service.
LEMMA PICInitInv == PICInit => PICInv
BY DEF PICInit, PICInv, PICTypeOK, InStep

\* One EOI, or two for a line of the second controller, leave nothing in
\* service when all that is in service is the line being served.
LEMMA EOIEnds ==
  ASSUME PICInv, serving # NoLine, pic_send_eoi(serving)
  PROVE  in_service' = {}
<1>1. serving \in 0 .. 15 /\ Cascade \in 0 .. 15
  BY DEF PICInv, PICTypeOK, Cascade
<1>2. CASE serving < 8
  <2>1. in_service = {serving}
    BY <1>1, <1>2 DEF PICInv, InStep
  <2> QED BY <1>1, <1>2, <2>1 DEF pic_send_eoi, Acknowledge
<1>3. CASE serving >= 8
  <2>1. in_service = {serving, Cascade}
    BY <1>3 DEF PICInv, InStep
  <2>2. {s \in in_service : s < 8} = {Cascade}
    BY <1>1, <1>3, <2>1 DEF Cascade
  <2>3. in_service \ {Cascade} = {serving}
    BY <1>1, <1>3, <2>1 DEF Cascade
  <2>4. \A m \in 0 .. 15 : Acknowledge({m}) = {}
    BY DEF Acknowledge
  <2>5. in_service' = Acknowledge({Cascade}) \cup Acknowledge({serving})
    BY <1>3, <2>2, <2>3 DEF pic_send_eoi
  <2> QED BY <1>1, <2>4, <2>5
<1> QED BY <1>1, <1>2, <1>3

\* pic_init and the calls that change masks keep the copy exact.
LEMMA MaskKeeps ==
  ASSUME PICInv, NEW m \in Lines, pic_mask_irq(m) \/ pic_unmask_irq(m),
         UNCHANGED <<initialized, requested, in_service, serving>>
  PROVE  PICInv'
BY DEF PICInv, PICTypeOK, InStep, pic_mask_irq, pic_unmask_irq, WriteMask,
       Chip

\* pic_init programs both controllers and its copy alike.
LEMMA PICInitKeeps ==
  ASSUME PICInv, pic_init, serving = NoLine
  PROVE  PICInv'
BY DEF PICInv, PICTypeOK, InStep, pic_init

\* A call of the driver changes the masks and the copy together.
LEMMA CallKeeps ==
  ASSUME PICInv, Call
  PROVE  PICInv'
<1>1. ASSUME NEW m \in Lines, pic_mask_irq(m) \/ pic_unmask_irq(m)
      PROVE  PICInv'
  BY <1>1, MaskKeeps DEF Call
<1>2. ASSUME NEW mask \in SUBSET Lines, pic_set_irq_mask(mask) PROVE PICInv'
  BY <1>2 DEF Call, pic_set_irq_mask, PICInv, PICTypeOK, InStep
<1>3. CASE pic_disable
  BY <1>3 DEF Call, pic_disable, PICInv, PICTypeOK, InStep
<1> QED BY <1>1, <1>2, <1>3 DEF Call

\* The CPU accepts a line only when nothing is in service.
LEMMA AcceptKeeps ==
  ASSUME PICInv, Accept
  PROVE  PICInv'
BY DEF Accept, Deliverable, PICInv, PICTypeOK, InStep

\* The end of interrupt_handler acknowledges what the CPU serves.
LEMMA HandlerKeeps ==
  ASSUME PICInv, interrupt_handler
  PROVE  PICInv'
<1>1. in_service' = {} /\ serving' = NoLine
  BY EOIEnds DEF interrupt_handler
<1> QED BY <1>1 DEF interrupt_handler, PICInv, PICTypeOK, InStep

-----------------------------------------------------------------------------
(* The boot *)

\* How far the boot has come says what is registered and enabled.
Progress ==
  /\ at > 2 => 0 \in handlers
  /\ at > 4 => Keyboard \in handlers
  /\ IF_flag => at > 7
  /\ serving # NoLine => IF_flag
  /\ idle_task => at > 10
  /\ at > 11 => current_task
  /\ unsaved => at = 11

KmainInv == PICInv /\ BootTypeOK /\ Progress

\* Where the statements of the boot are.
LEMMA Places ==
  ASSUME NEW n \in 1 .. 12
  PROVE  /\ Statements[n] = "idt_init" <=> n = 1
         /\ Statements[n] = "timer_register" <=> n = 2
         /\ Statements[n] = "timer_unmask" <=> n = 3
         /\ Statements[n] = "keyboard_register" <=> n = 4
         /\ Statements[n] = "keyboard_unmask" <=> n = 5
         /\ Statements[n] = "mouse_init" <=> n = 6
         /\ Statements[n] = "interrupt_enable" <=> n = 7
         /\ Statements[n] = "register_callback" <=> n = 8
         /\ Statements[n] = "timer_reinit" <=> n = 9
         /\ Statements[n] = "set_idle" <=> n = 10
         /\ Statements[n] = "set_current" <=> n = 11
         /\ Statements[n] = "loop" <=> n = 12
BY DEF Statements

\* kmain starts with interrupts off and no handler registered.
LEMMA InitBoot == BootInit => KmainInv
<1> SUFFICES ASSUME BootInit PROVE KmainInv
  OBVIOUS
<1>1. PICInv
  BY PICInitInv DEF BootInit
<1>2. BootTypeOK
  <2>1. {IF_flag, callback, idle_task, current_task, unsaved} \subseteq BOOLEAN
    BY Zenon DEF BootInit
  <2> QED BY <1>1, <2>1 DEF BootInit, BootTypeOK, PICInv
<1>3. Progress
  BY DEF BootInit, Progress, PICInit
<1> QED BY <1>1, <1>2, <1>3 DEF KmainInv

\* The flags, as BootTypeOK has them.
Flags == {IF_flag, callback, idle_task, current_task, unsaved} \subseteq BOOLEAN

LEMMA PICSame ==
  ASSUME PICInv, UNCHANGED picVars
  PROVE  PICInv'
BY Zenon DEF picVars, PICInv, PICTypeOK, InStep

\* What a statement does to the rest of the state: it gives up no handler and
\* no current task, and it may register, enable and set in its own place only.
Advances ==
  /\ at' = at + 1 /\ serving' = NoLine /\ ~ unsaved'
  /\ handlers \subseteq handlers' /\ handlers' \subseteq Lines
  /\ at = 2 => 0 \in handlers'
  /\ at = 4 => Keyboard \in handlers'
  /\ IF_flag' => IF_flag \/ at = 7
  /\ idle_task' => idle_task \/ at = 10
  /\ current_task => current_task'
  /\ at = 11 => current_task'

LEMMA AdvanceKeeps ==
  ASSUME KmainInv, at # 12, PICInv', Flags', Advances
  PROVE  KmainInv'
<1>1. at \in 1 .. 11 /\ at' = at + 1
  BY DEF KmainInv, BootTypeOK, Advances
<1>2. BootTypeOK'
  <2>1. at' \in 1 .. 12
    BY <1>1
  <2> QED BY <2>1, Zenon DEF BootTypeOK, PICInv, Flags, Advances
<1>3. Progress'
  <2>1. /\ at' > 2 <=> at > 2 \/ at = 2
        /\ at' > 4 <=> at > 4 \/ at = 4
        /\ at' > 7 <=> at > 7 \/ at = 7
        /\ at' > 10 <=> at > 10 \/ at = 10
        /\ at' > 11 <=> at > 11 \/ at = 11
    BY <1>1
  <2> QED BY <2>1, Zenon DEF KmainInv, Progress, Advances
<1> QED BY <1>2, <1>3, Zenon DEF KmainInv

\* A statement of the boot.
LEMMA BootKeeps ==
  ASSUME KmainInv, kmain
  PROVE  KmainInv'
<1>0. at \in 1 .. 12 /\ PICInv /\ Flags /\ handlers \subseteq Lines
  BY Zenon DEF KmainInv, BootTypeOK, Flags
<1>1. CASE idt_init
  <2>1. PICInv'
    BY <1>0, <1>1, PICInitKeeps, Zenon DEF idt_init, Reach
  <2>2. at = 1
    BY <1>0, <1>1, Places, Zenon DEF idt_init, Reach
  <2>3. Flags'
    BY <1>0, <1>1, Zenon DEF idt_init, Flags
  <2>4. Advances
    BY <1>0, <1>1, <2>2 DEF idt_init, Reach, pic_init, Advances
  <2> QED BY <2>1, <2>2, <2>3, <2>4, AdvanceKeeps
<1>2. ASSUME NEW s, NEW line \in Lines, Register(s, line),
             \/ s = "timer_register" /\ line = 0
             \/ s = "keyboard_register" /\ line = Keyboard
      PROVE  KmainInv'
  <2>1. PICInv'
    BY <1>0, <1>2, PICSame, Zenon DEF Register
  <2>2. (at = 2 /\ line = 0) \/ (at = 4 /\ line = Keyboard)
    <3>1. \/ Statements[at] = "timer_register" /\ line = 0
          \/ Statements[at] = "keyboard_register" /\ line = Keyboard
      BY <1>2, Zenon DEF Register, Reach
    <3>2. Statements[at] = "timer_register" => at = 2
      BY <1>0, Places, Zenon
    <3>3. Statements[at] = "keyboard_register" => at = 4
      BY <1>0, Places, Zenon
    <3> QED BY <3>1, <3>2, <3>3, Zenon
  <2>3. Flags'
    BY <1>0, <1>2, Zenon DEF Register, Flags
  <2>4. Advances
    BY <1>0, <1>2, <2>2 DEF Register, Reach, picVars, Advances
  <2>5. at # 12
    BY <2>2
  <2> QED BY <2>1, <2>3, <2>4, <2>5, AdvanceKeeps
<1>3. ASSUME NEW s \in {"timer_unmask", "keyboard_unmask", "timer_reinit"},
             NEW line \in Lines, Unmask(s, line)
      PROVE  KmainInv'
  <2>1. PICInv'
    BY <1>0, <1>3, MaskKeeps, Zenon DEF Unmask
  <2>2. at \in {3, 5, 9}
    BY <1>0, <1>3, Places, Zenon DEF Unmask, Reach
  <2>3. Flags'
    BY <1>0, <1>3, Zenon DEF Unmask, Flags
  <2>4. Advances
    BY <1>0, <1>3, <2>2 DEF Unmask, Reach, Advances
  <2>5. at # 12
    BY <2>2
  <2> QED BY <2>1, <2>3, <2>4, <2>5, AdvanceKeeps
<1>4. CASE mouse_init
  <2>1. PICInv'
    BY <1>0, <1>4, MaskKeeps, Zenon DEF mouse_init, PICInv, PICTypeOK, InStep
  <2>2. at = 6
    BY <1>0, <1>4, Places, Zenon DEF mouse_init, Reach
  <2>3. Flags'
    BY <1>0, <1>4, Zenon DEF mouse_init, Flags
  <2>4. handlers \subseteq handlers' /\ handlers' \subseteq Lines
    BY <1>0, <1>4, BootLines, Zenon DEF mouse_init
  <2>5. Advances
    BY <1>0, <1>4, <2>2, <2>4 DEF mouse_init, Reach, Advances
  <2> QED BY <2>1, <2>2, <2>3, <2>5, AdvanceKeeps
<1>5. CASE interrupt_enable
  <2>1. PICInv'
    BY <1>0, <1>5, PICSame, Zenon DEF interrupt_enable
  <2>2. at = 7
    BY <1>0, <1>5, Places, Zenon DEF interrupt_enable, Reach
  <2>3. Flags'
    BY <1>0, <1>5, Zenon DEF interrupt_enable, Flags
  <2>4. Advances
    BY <1>0, <1>5, <2>2 DEF interrupt_enable, Reach, picVars, Advances
  <2> QED BY <2>1, <2>2, <2>3, <2>4, AdvanceKeeps
<1>6. CASE register_callback
  <2>1. PICInv'
    BY <1>0, <1>6, PICSame, Zenon DEF register_callback
  <2>2. at = 8
    BY <1>0, <1>6, Places, Zenon DEF register_callback, Reach
  <2>3. Flags'
    BY <1>0, <1>6, Zenon DEF register_callback, Flags
  <2>4. Advances
    BY <1>0, <1>6, <2>2 DEF register_callback, Reach, picVars, Advances
  <2> QED BY <2>1, <2>2, <2>3, <2>4, AdvanceKeeps
<1>7. CASE set_idle
  <2>1. PICInv'
    BY <1>0, <1>7, PICSame, Zenon DEF set_idle
  <2>2. at = 10
    BY <1>0, <1>7, Places, Zenon DEF set_idle, Reach
  <2>3. Flags'
    BY <1>0, <1>7, Zenon DEF set_idle, Flags
  <2>4. Advances
    BY <1>0, <1>7, <2>2 DEF set_idle, Reach, picVars, Advances
  <2> QED BY <2>1, <2>2, <2>3, <2>4, AdvanceKeeps
<1>8. CASE set_current
  <2>1. PICInv'
    BY <1>0, <1>8, PICSame, Zenon DEF set_current
  <2>2. at = 11
    BY <1>0, <1>8, Places, Zenon DEF set_current, Reach
  <2>3. Flags'
    BY <1>0, <1>8, Zenon DEF set_current, Flags
  <2>4. Advances
    BY <1>0, <1>8, <2>2 DEF set_current, Reach, picVars, Advances
  <2> QED BY <2>1, <2>2, <2>3, <2>4, AdvanceKeeps
<1>9. 0 \in Lines /\ Keyboard \in Lines
  BY BootLines, Zenon
<1> QED BY <1>1, <1>2, <1>3, <1>4, <1>5, <1>6, <1>7, <1>8, <1>9, Zenon
        DEF kmain, timer_reinit

\* What the rest does: the boot stays where it is, and the CPU serves a line
\* only with interrupts on.
Stays ==
  /\ UNCHANGED <<at, IF_flag, handlers, callback, idle_task>>
  /\ serving' # NoLine => serving # NoLine \/ IF_flag
  /\ current_task => current_task'
  /\ unsaved' => unsaved \/ at = 11

LEMMA StayKeeps ==
  ASSUME KmainInv, PICInv', Flags', Stays
  PROVE  KmainInv'
<1>1. BootTypeOK'
  BY Zenon DEF KmainInv, BootTypeOK, PICInv, Flags, Stays
<1>2. Progress'
  BY Zenon DEF KmainInv, Progress, Stays
<1> QED BY <1>1, <1>2, Zenon DEF KmainInv

\* A request, an interrupt, its end, and a call of the driver.
LEMMA NextBoot == KmainInv /\ [BootNext]_bootVars => KmainInv'
<1> SUFFICES ASSUME KmainInv, [BootNext]_bootVars PROVE KmainInv'
  OBVIOUS
<1>0. PICInv /\ Flags
  BY Zenon DEF KmainInv, BootTypeOK, Flags
<1>1. CASE kmain
  BY <1>1, BootKeeps, Zenon
<1>2. CASE DriverCall
  <2>1. PICInv'
    BY <1>0, <1>2, CallKeeps, Zenon DEF DriverCall
  <2>2. Flags' /\ Stays
    BY <1>0, <1>2, Zenon DEF DriverCall, Call, Flags, Stays
  <2> QED BY <2>1, <2>2, StayKeeps, Zenon
<1>3. ASSUME NEW m \in Lines, Raise(m) PROVE KmainInv'
  <2>1. PICInv'
    BY <1>0, <1>3 DEF Raise, Request, PICInv, PICTypeOK, InStep
  <2>2. Flags' /\ Stays
    BY <1>0, <1>3, Zenon DEF Raise, Request, Flags, Stays
  <2> QED BY <2>1, <2>2, StayKeeps, Zenon
<1>4. CASE Interrupt
  <2>1. PICInv'
    BY <1>0, <1>4, AcceptKeeps, Zenon DEF Interrupt
  <2>2. Flags' /\ Stays
    BY <1>0, <1>4, Zenon DEF Interrupt, Flags, Stays
  <2> QED BY <2>1, <2>2, StayKeeps, Zenon
<1>5. CASE Serve
  <2>1. CASE /\ TickIsLost /\ unsaved' = TRUE /\ current_task' = TRUE
             /\ UNCHANGED picVars
    <3>1. PICInv'
      BY <1>0, <2>1, PICSame, Zenon
    <3>2. at = 11
      <4>1. at > 10 /\ ~ (at > 11)
        BY <2>1, Zenon DEF TickIsLost, KmainInv, Progress
      <4> QED BY <4>1 DEF KmainInv, BootTypeOK
    <3>3. Flags' /\ Stays
      BY <1>0, <1>5, <2>1, <3>2, Zenon DEF Serve, picVars, Flags, Stays
    <3> QED BY <3>1, <3>3, StayKeeps, Zenon
  <2>2. CASE interrupt_handler /\ UNCHANGED <<current_task, unsaved>>
    <3>1. PICInv'
      BY <1>0, <2>2, HandlerKeeps, Zenon
    <3>2. serving' = NoLine
      BY <2>2, Zenon DEF interrupt_handler
    <3>3. Flags' /\ Stays
      BY <1>0, <1>5, <2>2, <3>2, Zenon DEF Serve, Flags, Stays
    <3> QED BY <3>1, <3>3, StayKeeps, Zenon
  <2> QED BY <1>5, <2>1, <2>2, Zenon DEF Serve
<1>6. CASE UNCHANGED bootVars
  <2>1. PICInv'
    BY <1>0, <1>6, PICSame, Zenon DEF bootVars
  <2>2. Flags' /\ Stays
    BY <1>0, <1>6, Zenon DEF bootVars, picVars, Flags, Stays
  <2> QED BY <2>1, <2>2, StayKeeps, Zenon
<1> QED BY <1>1, <1>2, <1>3, <1>4, <1>5, <1>6, Zenon DEF BootNext

\* The copy of the masks is exact, and nothing stays in service.
THEOREM DriverInStep == BootSpec => []InStep
<1>1. KmainInv => InStep
  BY DEF KmainInv, PICInv
<1> QED BY <1>1, InitBoot, NextBoot, PTL DEF BootSpec

\* Ticks and keys find their handlers, and a tick restores a context that was
\* never saved in one window of the boot only.
THEOREM OneWindow == BootSpec => []OnlyWindow
<1>1. ASSUME KmainInv PROVE OnlyWindow
  <2>1. serving \in {0, Keyboard} => serving \in handlers
    BY <1>1 DEF KmainInv, BootTypeOK, Progress, Keyboard, PICTypeOK
  <2>2. unsaved => Statements[at] = "set_current"
    BY <1>1, Places DEF KmainInv, BootTypeOK, Progress
  <2> QED BY <1>1, <2>1, <2>2 DEF KmainInv, OnlyWindow
<1> QED BY <1>1, InitBoot, NextBoot, PTL DEF BootSpec

-----------------------------------------------------------------------------
(* The timer *)

USE TimerConstants

\* At the first rate the ticks and the phase make up the time.  A sleep under
\* way waits for a tick that is less than 20 ms too early.
Clock ==
  /\ inits = 0 => now = 0 /\ timer_ticks = 0 /\ sleeper = "idle"
  /\ inits = 1 => period = 10 /\ now = timer_ticks * 10 + phase
  /\ (inits = 1 /\ sleeper # "idle") => began + ms < target_ticks * 10 + 20
  /\ slept.inits = 1 => slept.ms < slept.took + 20

TimerIInv == TimerTypeOK /\ Clock

\* No tick has come and nobody sleeps.
LEMMA TimerInitIInv == TimerInit => TimerIInv
BY DEF TimerInit, TimerIInv, TimerTypeOK, Clock, NoSleep

\* A part of a millisecond count that ms / 10 leaves out is less than 10.
LEMMA Tens == ASSUME NEW n \in Nat
              PROVE  n \div 10 \in Nat /\ n < (n \div 10) * 10 + 10
OBVIOUS

\* Every tick, interrupt and statement of timer_sleep keeps the invariant.
LEMMA TimerNextIInv == TimerIInv /\ [TimerNext]_timerVars => TimerIInv'
<1> SUFFICES ASSUME TimerIInv, [TimerNext]_timerVars PROVE TimerIInv'
  OBVIOUS
<1> USE DEF TimerIInv, TimerTypeOK, Clock
<1>1. CASE timer_init
  BY <1>1 DEF timer_init, timer_set_frequency
<1>2. ASSUME NEW d \in Delays, timer_sleep(d) PROVE TimerIInv'
  BY <1>2, Tens DEF timer_sleep, NoSleep
<1>3. CASE Millisecond
  BY <1>3 DEF Millisecond, timer_interrupt_handler, After
<1>4. CASE OtherInterrupt
  BY <1>4 DEF OtherInterrupt
<1>5. CASE Test
  <2>1. CASE timer_ticks < target_ticks
    BY <1>5, <2>1 DEF Test, GoesOn
  <2>2. CASE ~ (timer_ticks < target_ticks)
    BY <1>5, <2>2 DEF Test, Returns
  <2> QED BY <2>1, <2>2
<1>6. CASE Halt
  BY <1>6 DEF Halt
<1>7. CASE UNCHANGED timerVars
  BY <1>7 DEF timerVars
<1> QED BY <1>1, <1>2, <1>3, <1>4, <1>5, <1>6, <1>7, Zenon DEF TimerNext

\* The uptime is exact to the tick and a sleep less than 20 ms too short, for
\* every delay, however often other interrupts end the halt.
THEOREM SleepLength == TimerSpec => []SleepsLongEnough
<1>1. TimerIInv => SleepsLongEnough
  BY DEF TimerIInv, TimerTypeOK, Clock, SleepsLongEnough, timer_get_uptime_ms
<1> QED BY <1>1, TimerInitIInv, TimerNextIInv, PTL DEF TimerSpec
=============================================================================
