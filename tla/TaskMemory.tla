----------------------------- MODULE TaskMemory -----------------------------
(***************************************************************************)
(* The callers of the virtual memory manager: the address space and the    *)
(* stack that scheduler_create_task makes and free_task_resources gives    *)
(* back (kernel/src/core/exec/scheduler.c), the ELF loader (elf.c), the    *)
(* brk call (syscalls.c) and the switch between address spaces.  Any of    *)
(* them may run out of memory halfway.                                     *)
(*                                                                         *)
(* Physical addresses are dereferenced as they are, so that creating a     *)
(* space and reading or loading a file fault within the space of a task;   *)
(* the page fault handler then stops the machine.                          *)
(***************************************************************************)
EXTENDS VMM

CONSTANTS
  Images,      \* program files: the pages of each segment, and whether its
               \* data lies within the file
  Sizes,       \* sizes of program files, in half pages
  Chunk,       \* pages by which the buffer of a file grows (16)
  MaxCalls     \* bound on the creations of tasks, the reads and the loads

ASSUME TaskMemoryConstants ==
  /\ \A image \in Images : \A k \in DOMAIN image :
       image[k].pages \in Seq(User) /\ image[k].fits \in BOOLEAN
  /\ Sizes \subseteq Nat \ {0} /\ Chunk \in Nat \ {0} /\ MaxCalls \in Nat

VARIABLES
  spaces,     \* page_table of the tasks
  elf,        \* the elf_file_t of the loader's caller
  calls,      \* bound: creations, reads and loads so far
  halted,     \* page_fault_handler has stopped the machine
  lost        \* history: frames that are allocated and that nothing refers to

vars == <<vmmVars, spaces, elf, calls, halted, lost>>

\* The two pages below 0xF0000000.
Stack == <<<<0, 1, 0, 0>>, <<0, 1, 0, 1>>>>

NoElf == [data |-> {}, image |-> <<>>, base |-> 0]

\* The frames that the tables of space s map, other than by large pages.
Held(s) ==
  Managed \cap {Walk(mem, s, v) : v \in {u \in User : s # BootPML4 \/ u[2] = 1}}

Count == calls < MaxCalls /\ calls' = calls + 1

Fault == halted' = TRUE /\ UNCHANGED <<vmmVars, spaces, elf, calls, lost>>

-----------------------------------------------------------------------------
(* scheduler.c *)

\* The stack is mapped with the task's space switched to.  The guard page is
\* a page without a frame, which vmm_map_page refuses.
create_task_stack(st, s) ==
  LET f == pmm_alloc_pages(st, 2)
      m == MapRun([Take(st, f, 2) EXCEPT !.cr3 = s], Stack, f)
      u == Give(UnmapRun(m, Stack, m.n), {f, f + 1})
  IN  IF f = 0 THEN [st EXCEPT !.tab = 0]
      ELSE IF m.tab = 0 THEN [u EXCEPT !.cr3 = st.cr3]
      ELSE [m EXCEPT !.cr3 = st.cr3, !.got = <<f>>]

\* A space, a stack, and elf_load of what the caller passed: nothing (the fork
\* call passes NULL), which fails, or something without segments to load.
\* free_task_resources then gives the space back; the stack it frees by the
\* virtual address of its top, which the physical memory manager refuses.
scheduler_create_task(data) ==
  LET f  == pmm_alloc_pages(Now, 1)
      st == create_task_stack(NewSpace(Now, f), f)
      d  == vmm_delete_address_space(st, f)
  IN  /\ Count /\ f # 0 /\ Identity(cr3)
      /\ \/ /\ st.tab = 0 /\ Becomes(d)
            /\ UNCHANGED <<spaces, want, lost>>
         \/ /\ st.tab # 0 /\ data = "NULL" /\ Becomes(d)
            /\ lost' = lost \cup {st.got[1], st.got[1] + 1}
            /\ UNCHANGED <<spaces, want>>
         \/ /\ st.tab # 0 /\ data # "NULL" /\ Becomes(st)
            /\ spaces' = spaces \cup {f}
            /\ want' = Asked([want EXCEPT ![f] = [v \in DOMAIN @ |->
                                IF v[1] = 1 THEN want[cr3][v] ELSE 0]],
                             f, Stack, 2, LAMBDA i : st.got[1] + i - 1)
            /\ UNCHANGED lost
      /\ UNCHANGED <<is_used, elf, halted>>

\* free_task_resources of a task, as its callers mean it (before it gets there
\* scheduler_terminate_task spins, module Scheduler).  The current space is not
\* deleted; pages are never given back, nor is the area of the brk call.
free_task_resources(s) ==
  /\ s \in spaces /\ spaces' = spaces \ {s}
  /\ Becomes(vmm_delete_address_space(Now, s))
  /\ lost' = lost \cup Held(s) \cup (IF s = cr3 THEN TablesOf(mem, s) ELSE {})
  /\ want' = IF s = cr3 THEN want
             ELSE [want EXCEPT ![s] = [v \in DOMAIN @ |-> 0]]
  /\ UNCHANGED <<is_used, elf, calls, halted>>

vmm_switch_address_space(s) ==
  /\ s \in spaces \cup {BootPML4} /\ cr3' = s
  /\ UNCHANGED <<mem, allocated, is_used, want, spaces, elf, calls, halted,
                 lost>>

\* The brk call allocates in the current space, and nothing frees what it got
\* but a vmm_free of all of it in the same space.
sys_brk(n) ==
  /\ cr3 \in spaces /\ vmm_allocate(n)
  /\ UNCHANGED <<spaces, elf, calls, halted, lost>>

FreeArea(n) ==
  /\ is_used /\ \A i \in DOMAIN Area : (want[cr3][Area[i]] # 0) <=> i <= n
  /\ cr3 \in spaces /\ vmm_free(n)
  /\ UNCHANGED <<spaces, elf, calls, halted, lost>>

-----------------------------------------------------------------------------
(* elf.c *)

\* The buffer of k chunks at got is full: a larger one takes its place.
Grow(st, k) ==
  LET old == st.got[1] .. (st.got[1] + k * Chunk - 1)
      f   == pmm_alloc_pages(st, (k + 1) * Chunk)
  IN  IF st.tab = 0 THEN st
      ELSE IF f = 0 THEN [Give(st, old) EXCEPT !.tab = 0]
      ELSE [Give(Take(st, f, (k + 1) * Chunk), old) EXCEPT !.got = <<f>>]

\* The file is read into a buffer, whose pages beyond the file nobody frees;
\* a file that does not parse gives back the others.
elf_parse_file(image, size, valid) ==
  LET f     == pmm_alloc_pages(Now, Chunk)
      grown == size \div (2 * Chunk)
      st    == FoldLeft(LAMBDA s, k : Grow(s, k),
                        [Take(Now, f, Chunk) EXCEPT !.got = <<f>>],
                        Upto(grown))
      data  == st.got[1] .. (st.got[1] + (size + 1) \div 2 - 1)
      tail  == (st.got[1] .. (st.got[1] + (grown + 1) * Chunk - 1)) \ data
  IN  /\ Count /\ elf = NoElf /\ f # 0 /\ Identity(cr3)
      /\ \/ st.tab = 0 /\ Becomes(st) /\ UNCHANGED <<elf, lost>>
         \/ /\ st.tab # 0 /\ lost' = lost \cup tail
            /\ \/ valid /\ Becomes(st)
                  /\ elf' = [data |-> data, image |-> image, base |-> 0]
               \/ ~ valid /\ Becomes(Give(st, data)) /\ UNCHANGED elf
      /\ UNCHANGED <<is_used, want, spaces, halted>>

\* A segment gets frames, and its pages are mapped to them.  A failure leaves
\* the frames where they are, except when the data is not in the file.
LoadSegment(st, segment) ==
  LET pages == segment.pages
      f     == pmm_alloc_pages(st, Len(pages))
      m     == MapRun(Take(st, f, Len(pages)), pages, f)
      over  == {Walk(st.mem, st.cr3, pages[i]) : i \in 1 .. m.n} \ {0}
  IN  IF st.tab = 0 THEN st
      ELSE IF f = 0 \/ ~ segment.fits THEN [st EXCEPT !.tab = 0]
      ELSE [m EXCEPT !.waste = @ \cup over
                                 \cup (f + m.n) .. (f + Len(pages) - 1),
                     !.got = @ \o [i \in 1 .. m.n |-> <<pages[i], f + i - 1>>]]

\* A file linked for its address is loaded with base 0.
elf_load(base) ==
  LET st == FoldLeft(LAMBDA s, g : LoadSegment(s, g), Now, elf.image) IN
  /\ Count /\ elf # NoElf /\ Identity(cr3)
  /\ Becomes(st) /\ elf' = [elf EXCEPT !.base = base]
  /\ lost' = lost \cup st.waste
  /\ want' = FoldLeft(LAMBDA w, g : [w EXCEPT ![cr3][g[1]] = g[2]],
                      want, st.got)
  /\ UNCHANGED <<is_used, spaces, halted>>

PagesOf(image) ==
  FoldLeft(LAMBDA pages, g : pages \o g.pages, <<>>, image)

Unloaded_FirstOnly(st, pages) ==
  FoldLeft(LAMBDA s, i : LET p == virt_to_phys(s, pages[i]) IN
             IF p = 0 THEN s
             ELSE IF i = 1 THEN Give(vmm_unmap_page(s, pages[i]), {p})
             ELSE vmm_unmap_page(s, pages[i]), st, Upto(Len(pages)))

\* The frame before the one freed is unmapped by then, so that the test for a
\* contiguous block never holds and every page is freed.
Unloaded(st, pages) ==
  FoldLeft(LAMBDA s, i : LET p == virt_to_phys(s, pages[i]) IN
             IF p = 0 THEN s ELSE Give(vmm_unmap_page(s, pages[i]), {p}),
           st, Upto(Len(pages)))

\* Called where the file was loaded.  Does nothing for a file at base 0.
elf_unload ==
  LET pages == PagesOf(elf.image) IN
  /\ elf.base # 0 /\ Identity(cr3)
  /\ Becomes(Unloaded(Now, pages)) /\ elf' = [elf EXCEPT !.base = 0]
  /\ want' = Forgot(want, cr3, pages, Len(pages))
  /\ UNCHANGED <<is_used, spaces, calls, halted, lost>>

elf_free ==
  LET pages == IF elf.base = 0 THEN <<>> ELSE PagesOf(elf.image) IN
  /\ elf # NoElf /\ Identity(cr3)
  /\ Becomes(Give(Unloaded(Now, pages), elf.data)) /\ elf' = NoElf
  /\ want' = Forgot(want, cr3, pages, Len(pages))
  /\ UNCHANGED <<is_used, spaces, calls, halted, lost>>

\* A new space, a file buffer or a segment is written to where its physical
\* address means nothing.
page_fault_handler == ~ Identity(cr3) /\ allocated # Managed /\ Fault

-----------------------------------------------------------------------------
Init ==
  /\ VMMInit
  /\ spaces = {} /\ elf = NoElf /\ calls = 0 /\ halted = FALSE /\ lost = {}

Next ==
  \/ /\ ~ halted
     /\ \/ \E data \in {"NULL", "no segments"} : scheduler_create_task(data)
        \/ \E s \in spaces : free_task_resources(s)
        \/ \E s \in Frames : vmm_switch_address_space(s)
        \/ \E n \in 1 .. Len(Area) : sys_brk(n) \/ FreeArea(n)
        \/ \E image \in Images, size \in Sizes, valid \in BOOLEAN :
             elf_parse_file(image, size, valid)
        \/ \E base \in {0, 1} : elf_load(base)
        \/ elf_unload \/ elf_free
        \/ page_fault_handler
  \/ halted /\ UNCHANGED vars

Spec == Init /\ [][Next]_vars

-----------------------------------------------------------------------------
Live == spaces \cup {BootPML4}

TypeOK ==
  /\ \A f \in Frames : \A i \in Idx :
       mem[f][i].frame \in 0 .. NFrames /\ mem[f][i].huge \in BOOLEAN
  /\ allocated \subseteq Managed /\ lost \subseteq Managed
  /\ cr3 \in Live \cup lost /\ spaces \subseteq Managed
  /\ {is_used, halted} \subseteq BOOLEAN
  /\ calls \in 0 .. MaxCalls
  /\ elf.data \subseteq Managed /\ elf.base \in {0, 1}

\* Every address space translates every page as its users asked for, whatever
\* was mapped, unmapped, allocated, loaded, failed or deleted in it or in
\* others: "Map a physical page to a virtual address" (vmm.c:402).  The
\* current space is a live one, or one whose tables are still allocated.
Translates ==
  /\ TypeOK
  /\ \A s \in Live \cup {cr3} : \A v \in User \cup Kernel :
       Walk(mem, s, v) = want[s][v]

\* No frame has two uses: as a table of two spaces, as a table and a page, or
\* as pages of two tasks, of a task and a program, or of either and a file.
FramesExclusive ==
  LET Uses(s) == TablesOf(mem, s) \cup Held(s) IN
  /\ \A s, t \in Live : s # t => Uses(s) \cap Uses(t) = {}
  /\ \A s \in Live : /\ TablesOf(mem, s) \cap Held(s) = {}
                     /\ Uses(s) \cap (elf.data \cup lost) = {}
  /\ elf.data \cap lost = {}

\* The frames taken from the physical memory manager are the tables and pages
\* of the live spaces, the file that was read, and what is known to be lost:
\* the stack and the allocated pages of a task that has ended, its tables if
\* its space was the current one, the buffer beyond the end of a file, and
\* what a failed or repeated load left behind.  Nothing else leaks, also when
\* memory runs out halfway, and nothing in use is free.
FramesAccounted ==
  allocated = lost \cup elf.data
    \cup (Managed \cap UNION {TablesOf(mem, s) \cup Held(s) : s \in Live})
=============================================================================
