-------------------------------- MODULE PMM --------------------------------
(***************************************************************************)
(* The physical memory manager, kernel/src/memory/pmm.c: a bitmap over the *)
(* pages of the largest usable region of the memory map, with a first-fit  *)
(* scan for single pages and for runs of pages.                            *)
(*                                                                         *)
(* Addresses are frame numbers (the code's byte addresses divided by the   *)
(* page size); an address that is no multiple of the page size is the      *)
(* single value Misaligned.  The scans of pmm_alloc_page and               *)
(* pmm_alloc_pages are modelled one loop iteration per step.  Calls are    *)
(* serialised: the boot code is the only caller until tasks run, and       *)
(* system calls run with interrupts masked (syscalls.c:46-48).             *)
(*                                                                         *)
(* The counters total_allocations and failed_allocations are only printed  *)
(* and are left out.                                                       *)
(***************************************************************************)
EXTENDS Integers, Sequences

CONSTANTS
  BitmapPages,   \* STATIC_BITMAP_SIZE * 8, the pages the bitmap can track
  LowPages,      \* 256, the pages pmm_init keeps back at the start
  MinBase,       \* the frame of address 0x100000
  MemMaps,       \* the memory maps the boot loader may hand over
  MaxRequest,    \* bound on the count argument of a call
  Misaligned,    \* an address that is not page aligned
  NULL

\* An entry of the memory map: frames base .. base + length - 1.
Entry == [base : Nat, length : Nat, usable : BOOLEAN]

ASSUME PMMConstants ==
  /\ BitmapPages \in Nat /\ LowPages \in Nat /\ MinBase \in Nat \ {0}
  /\ MaxRequest \in Nat
  /\ \A mm \in MemMaps : mm \in Seq(Entry)
  /\ Misaligned \notin Int /\ NULL \notin Int

VARIABLES
  ready,         \* page_bitmap # NULL
  kernel_start,  \* pmm_config.kernel_start
  max_pages,     \* pmm_config.max_pages
  used,          \* the pages whose bit is set in page_bitmap
  pc,            \* the loop in progress: "idle", "page" or "pages"
  count, i, found_pages, start_page,   \* locals of the allocation loops
  ret,           \* what the last allocation returned
  memmap,        \* history: the map pmm_init was given
  reserved,      \* history: the pages pmm_init marked used
  held           \* history: how many callers hold each page

locals == <<count, i, found_pages, start_page>>
config == <<ready, kernel_start, max_pages, memmap, reserved>>
vars   == <<config, used, pc, locals, ret, held>>

kernel_end == kernel_start + max_pages
Pages      == 0 .. max_pages - 1
Frames(e)  == e.base .. e.base + e.length - 1

-----------------------------------------------------------------------------
(* pmm_init *)

\* The entries the region search may settle on: it starts from size 0 and
\* takes only usable entries at or above 1MB.
Candidates(mm) ==
  {k \in DOMAIN mm : mm[k].usable /\ mm[k].base >= MinBase /\ mm[k].length > 0}

\* The entry the search settles on: the longest, the first among equals.
Largest(mm) ==
  CHOOSE k \in Candidates(mm) : \A j \in Candidates(mm) :
    \/ mm[j].length < mm[k].length
    \/ mm[j].length = mm[k].length /\ k <= j

StartAddress(mm) ==
  IF Candidates(mm) = {} THEN MinBase ELSE mm[Largest(mm)].base

LargestSize(mm) ==
  IF Candidates(mm) = {} THEN 0 ELSE mm[Largest(mm)].length

MaxPages_NoClamp(mm) == LargestSize(mm)

MaxPages(mm) ==
  IF BitmapPages > LargestSize(mm) THEN LargestSize(mm) ELSE BitmapPages

MarkedUsed_LowOnly(mm) == {p \in 0 .. MaxPages(mm) - 1 : p < LowPages}

\* The pages marked used: those a non-usable entry overlaps, and the first
\* LowPages ones.
MarkedUsed(mm) ==
  {p \in 0 .. MaxPages(mm) - 1 :
     \/ p < LowPages
     \/ \E k \in DOMAIN mm : /\ ~ mm[k].usable
                             /\ StartAddress(mm) + p \in Frames(mm[k])}

pmm_init ==
  /\ ~ ready
  /\ \E mm \in MemMaps :
       /\ ready' = TRUE
       /\ memmap' = mm
       /\ kernel_start' = StartAddress(mm)
       /\ max_pages' = MaxPages(mm)
       /\ used' = MarkedUsed(mm)
       /\ reserved' = MarkedUsed(mm)
  /\ UNCHANGED <<pc, locals, ret, held>>

-----------------------------------------------------------------------------
(* Allocation *)

\* The end of an allocation call: the loop's locals die.
Return(r) ==
  /\ pc' = "idle" /\ ret' = r
  /\ count' = 0 /\ i' = 0 /\ found_pages' = 0 /\ start_page' = 0

HandOut_OneShort(s, n) ==
  /\ used' = used \cup (s .. s + n - 2)
  /\ held' = [p \in 0 .. BitmapPages - 1 |->
                IF p \in s .. s + n - 1 THEN held[p] + 1 ELSE held[p]]

\* The pages s .. s + n - 1 are marked used and handed to the caller.
HandOut(s, n) ==
  /\ used' = used \cup (s .. s + n - 1)
  /\ held' = [p \in 0 .. BitmapPages - 1 |->
                IF p \in s .. s + n - 1 THEN held[p] + 1 ELSE held[p]]

Fail == Return(NULL) /\ UNCHANGED <<config, used, held>>

pmm_alloc_page ==
  /\ pc = "idle"
  /\ \/ ~ ready /\ Fail
     \/ /\ ready
        /\ pc' = "page" /\ count' = 1 /\ i' = 0
        /\ UNCHANGED <<config, used, found_pages, start_page, ret, held>>

AllocPageStep_NoIncrement ==
  /\ pc = "page"
  /\ i < max_pages /\ i \notin used
  /\ HandOut(i, 1) /\ Return(kernel_start + i) /\ UNCHANGED config

\* One iteration of the loop of pmm_alloc_page.
AllocPageStep ==
  /\ pc = "page"
  /\ \/ i >= max_pages /\ Fail
     \/ /\ i < max_pages /\ i \notin used
        /\ HandOut(i, 1)
        /\ Return(kernel_start + i)
        /\ UNCHANGED config
     \/ /\ i < max_pages /\ i \in used
        /\ i' = i + 1
        /\ UNCHANGED <<config, used, pc, count, found_pages, start_page, ret, held>>

pmm_alloc_pages(n) ==
  /\ pc = "idle"
  /\ \/ (~ ready \/ n = 0) /\ Fail
     \/ ready /\ n = 1 /\ pmm_alloc_page
     \/ /\ ready /\ n > 1
        /\ pc' = "pages" /\ count' = n
        /\ i' = 0 /\ found_pages' = 0 /\ start_page' = 0
        /\ UNCHANGED <<config, used, ret, held>>

RunStart_LastPage == i

\* Where the run that page i belongs to starts.
RunStart == IF found_pages = 0 THEN i ELSE start_page

\* One iteration of the loop of pmm_alloc_pages.
AllocPagesStep ==
  /\ pc = "pages"
  /\ \/ i >= max_pages /\ Fail
     \/ /\ i < max_pages /\ i \notin used
        /\ found_pages + 1 = count
        /\ HandOut(RunStart, count)
        /\ Return(kernel_start + RunStart)
        /\ UNCHANGED config
     \/ /\ i < max_pages /\ i \notin used
        /\ found_pages + 1 # count
        /\ start_page' = RunStart /\ found_pages' = found_pages + 1 /\ i' = i + 1
        /\ UNCHANGED <<config, used, pc, count, ret, held>>
     \/ /\ i < max_pages /\ i \in used
        /\ found_pages' = 0 /\ i' = i + 1
        /\ UNCHANGED <<config, used, pc, count, start_page, ret, held>>

-----------------------------------------------------------------------------
(* Release *)

\* The test at the head of pmm_free_page and pmm_free_pages.
Managed(addr) == addr \in kernel_start .. kernel_end - 1

FreedPages_OneMore(addr, n) ==
  IF ~ ready \/ n = 0 \/ ~ Managed(addr) THEN {}
  ELSE (addr - kernel_start .. addr - kernel_start + n) \cap used

\* pmm_free_pages cuts a run that leaves the managed range, then clears the
\* bits that are set; pmm_free_page is the run of one page.
FreedPages(addr, n) ==
  IF ~ ready \/ n = 0 \/ ~ Managed(addr) THEN {}
  ELSE (addr - kernel_start ..
          (IF addr + n > kernel_end THEN kernel_end ELSE addr + n)
             - kernel_start - 1)
       \cap used

\* What the interface asks of a caller ("a previously allocated" page or
\* pages, pmm.h:29-33): of the frames it names, those in use are its own.
MayFree(addr, n) ==
  addr # Misaligned =>
    \A p \in used : kernel_start + p \in addr .. addr + n - 1 => held[p] = 1

pmm_free_pages(addr, n) ==
  /\ pc = "idle"
  /\ MayFree(addr, n)
  /\ used' = used \ FreedPages(addr, n)
  /\ held' = [p \in 0 .. BitmapPages - 1 |->
                IF p \in FreedPages(addr, n) THEN held[p] - 1 ELSE held[p]]
  /\ UNCHANGED <<config, pc, locals, ret>>

pmm_free_page(addr) == pmm_free_pages(addr, 1)

-----------------------------------------------------------------------------
(* Queries *)

pmm_is_page_free(addr) ==
  ready /\ Managed(addr) /\ (addr - kernel_start) \notin used

-----------------------------------------------------------------------------
Init ==
  /\ ready = FALSE /\ kernel_start = 0 /\ max_pages = 0
  /\ used = {} /\ reserved = {} /\ memmap = <<>>
  /\ pc = "idle" /\ ret = NULL
  /\ count = 0 /\ i = 0 /\ found_pages = 0 /\ start_page = 0
  /\ held = [p \in 0 .. BitmapPages - 1 |-> 0]

\* The addresses callers pass: frames in and around the managed range.
Addresses == (0 .. kernel_end + 1) \cup {Misaligned}

Next ==
  \/ pmm_init
  \/ pmm_alloc_page
  \/ AllocPageStep
  \/ \E n \in 0 .. MaxRequest : pmm_alloc_pages(n)
  \/ AllocPagesStep
  \/ \E a \in Addresses : pmm_free_page(a)
  \/ \E a \in Addresses, n \in 0 .. MaxRequest : pmm_free_pages(a, n)

\* A call that is scanning keeps scanning: the loops contain no wait.
Spec == Init /\ [][Next]_vars /\ WF_vars(AllocPageStep \/ AllocPagesStep)

-----------------------------------------------------------------------------
(* Properties *)

TypeOK ==
  /\ ready \in BOOLEAN
  /\ kernel_start \in Nat /\ max_pages \in 0 .. BitmapPages
  /\ used \subseteq Pages /\ reserved \subseteq Pages
  /\ memmap \in Seq(Entry)
  /\ pc \in {"idle", "page", "pages"}
  /\ count \in Nat /\ i \in Nat /\ found_pages \in Nat /\ start_page \in Nat
  /\ ret \in Nat \cup {NULL}
  /\ held \in [0 .. BitmapPages - 1 -> Nat]

\* The bitmap accounts for every page exactly: a bit is set if pmm_init
\* reserved the page or one caller holds it, no page is held twice, and a
\* reserved page is never handed out.  Allocation and release in any order,
\* double frees, cut runs and failed calls included, leak and lose nothing.
ExactAccounting ==
  \A p \in 0 .. BitmapPages - 1 :
    /\ held[p] <= 1
    /\ p \in used <=> (p \in reserved \/ held[p] = 1)
    /\ p \in reserved => held[p] = 0

\* A run of n pages that starts at page s lies in the bitmap and is free.
FreeRun(s, n) == s .. s + n - 1 \subseteq Pages \ used

\* An allocation loop that ends in failure does so because no free run of
\* the requested length exists, and one that succeeds returns the lowest
\* free run: pmm_alloc_page and pmm_alloc_pages are first fit, whatever
\* runs were found and abandoned during the scan.
FirstFitStep ==
  (pc # "idle" /\ pc' = "idle") =>
    \/ /\ ret' = NULL /\ used' = used
       /\ \A s \in Pages : ~ FreeRun(s, count)
    \/ \E s \in Pages : /\ ret' = kernel_start + s
                        /\ FreeRun(s, count)
                        /\ \A r \in 0 .. s - 1 : ~ FreeRun(r, count)
                        /\ used' = used \cup (s .. s + count - 1)

\* Every end of an allocation call is a FirstFitStep.
FirstFit == [][FirstFitStep]_vars

\* A page that pmm_alloc_page may hand out, or that a caller holds, is
\* memory the boot loader reported usable, above 1MB, that no non-usable
\* entry of the map overlaps (pmm_init:102-144).
OnlyUsableMemory ==
  ready =>
    \A p \in Pages : pmm_is_page_free(kernel_start + p) \/ held[p] > 0 =>
      /\ kernel_start + p >= MinBase
      /\ \E k \in DOMAIN memmap :
           memmap[k].usable /\ kernel_start + p \in Frames(memmap[k])
      /\ \A k \in DOMAIN memmap :
           kernel_start + p \in Frames(memmap[k]) => memmap[k].usable

\* What the scans know in the middle of the bitmap.  pmm_alloc_page has seen
\* only used pages below i.  pmm_alloc_pages knows that the found_pages
\* pages below i are free and start at start_page, that the page before them
\* is used, and that no free run of the requested length lies below i.
ScanInv ==
  /\ pc # "idle" => ready /\ i <= max_pages
  /\ pc = "page" => count = 1 /\ \A p \in 0 .. i - 1 : p \in used
  /\ pc = "pages" =>
       /\ count > 1 /\ found_pages < count /\ found_pages <= i
       /\ found_pages > 0 => start_page = i - found_pages
       /\ \A p \in (i - found_pages) .. (i - 1) : p \notin used
       /\ found_pages < i => (i - found_pages - 1) \in used
       /\ \A s \in 0 .. i - count :
            \E p \in s .. s + count - 1 : p \in used

\* pmm_init ran on the recorded map, or has not run yet.
BootInv ==
  /\ ready => /\ kernel_start = StartAddress(memmap)
              /\ max_pages = MaxPages(memmap)
              /\ reserved = MarkedUsed(memmap)
  /\ ~ ready => pc = "idle" /\ used = {} /\ reserved = {}

\* The inductive invariant behind ExactAccounting, OnlyUsableMemory and
\* FirstFit.
IInv == TypeOK /\ ExactAccounting /\ ScanInv /\ BootInv

\* Every allocation call returns.
CallsReturn == (pc # "idle") ~> (pc = "idle")

-----------------------------------------------------------------------------
(* Refinement *)

FreeFrames  == {kernel_start + p : p \in Pages \ used}
OwnedFrames == {kernel_start + p : p \in {q \in Pages : held[q] = 1}}

Promise == INSTANCE PageAllocator
             WITH up <- ready, free <- FreeFrames, owned <- OwnedFrames

\* The bitmap allocator implements the abstract one: the iterations of a
\* scan are invisible, and its last one is the atomic allocation.
ImplementsPageAllocator == Promise!Spec
=============================================================================
