--------------------------------- MODULE VMM ---------------------------------
(***************************************************************************)
(* The virtual memory manager, kernel/src/memory/vmm.c: four levels of     *)
(* page tables in frames of the physical memory manager, address spaces    *)
(* that share the upper half, mapping and unmapping in the current one,    *)
(* and the allocation of ranges.  A virtual page is the sequence of its    *)
(* four table indices; every table has two entries, which stand for two    *)
(* neighbouring indices (page 0, which vmm_map_page refuses, is neither).  *)
(* The operators take and return the state that the code changes, so that  *)
(* the functions that call several of them can be put together.            *)
(***************************************************************************)
EXTENDS Naturals, SequencesExt, FiniteSetsExt

CONSTANT NFrames   \* frames of the physical memory manager: 6 .. NFrames

ASSUME VMMConstants == NFrames \in Nat /\ NFrames >= 10

\* Frames 1 to 5 hold the tables of the boot loader: the PML4, then PDPT and
\* PD of the direct map (upper half) and of the identity map (lower half).
BootPML4 == 1
Managed  == 6 .. NFrames
Frames   == 1 .. NFrames

Idx    == {0, 1}
User   == {<<0, b, c, d>> : b \in Idx, c \in Idx, d \in Idx}
Kernel == {<<1, 0, c, d>> : c \in Idx, d \in Idx}

\* Pages of the area that vmm_allocate uses for tasks; it crosses from one
\* page table to the next.
Area == <<<<0, 0, 0, 1>>, <<0, 0, 1, 0>>>>

\* A page table entry; frame 0 is an entry that is not present.
None  == [frame |-> 0, huge |-> FALSE]
To(f) == [frame |-> f, huge |-> FALSE]
Large(c) == [frame |-> 6 + 2 * c, huge |-> TRUE]   \* two frames from 6 on

Empty == [i \in Idx |-> None]

\* What a free frame holds, one left over from before or never used: bits that
\* read as entries and lead astray until create_page_table or vmm_allocate
\* clears the frame.  Which bits they are is not told apart.
Stale == [i \in Idx |-> To(BootPML4)]

VARIABLES
  mem,        \* contents of the frames, as tables
  allocated,  \* frames that the physical memory manager has given out
  cr3,        \* current_pml4_phys
  is_used,    \* is_used of the user area
  want        \* history: the translations that callers have asked for

vmmVars == <<mem, allocated, cr3, is_used, want>>

\* The state an operation starts from.  tab is the table reached, 0 after a
\* failure; n counts pages mapped; got and waste are what a caller obtained
\* and what it left behind.
Now == [mem |-> mem, allocated |-> allocated, cr3 |-> cr3, tab |-> cr3,
        n |-> 0, got |-> <<>>, waste |-> {}]

Becomes(st) == mem' = st.mem /\ allocated' = st.allocated /\ cr3' = st.cr3

-----------------------------------------------------------------------------
(* The physical memory manager: the first run of n free frames, or 0 *)

pmm_alloc_pages(st, n) ==
  LET runs == {f \in Managed : f + n - 1 \in Managed
                               /\ st.allocated \cap f .. (f + n - 1) = {}}
  IN  IF runs = {} THEN 0 ELSE Min(runs)

Take(st, f, n) == [st EXCEPT !.allocated = @ \cup f .. (f + n - 1)]

Give(st, fs) ==
  [st EXCEPT !.allocated = @ \ fs,
             !.mem = [f \in Frames |-> IF f \in fs THEN Stale ELSE @[f]]]

-----------------------------------------------------------------------------
(* Translation *)

\* What the processor does with page v under the PML4 s: the frame, or 0.
Walk(m, s, v) ==
  LET e4 == m[s][v[1]]
      e3 == m[e4.frame][v[2]]
      e2 == m[e3.frame][v[3]]
      e1 == m[e2.frame][v[4]]
  IN  IF e4.frame = 0 \/ (e4.frame # 0 /\ e3.frame = 0) THEN 0
      ELSE IF e2.frame = 0 THEN 0
      ELSE IF e2.huge THEN e2.frame + v[4]
      ELSE e1.frame

\* virt_to_phys: addresses of the upper half are taken for the direct map.
virt_to_phys(st, v) ==
  IF v[1] = 1 THEN Large(v[3]).frame + v[4] ELSE Walk(st.mem, st.cr3, v)

\* The frames of the manager are used by their physical addresses, which is
\* possible only where the identity map of the boot loader is.
Identity(s) == mem[s][0].frame = 4

-----------------------------------------------------------------------------
(* vmm_map_page and vmm_unmap_page *)

\* The next table, which is created when it is missing.  Whether the entry
\* maps a large page is not looked at.
Down(st, i) ==
  LET e == st.mem[st.tab][i]
      f == pmm_alloc_pages(st, 1)
  IN  IF st.tab = 0 THEN st
      ELSE IF e.frame # 0 THEN [st EXCEPT !.tab = e.frame]
      ELSE IF f = 0 THEN [st EXCEPT !.tab = 0]
      ELSE [Take(st, f, 1) EXCEPT !.mem[f] = Empty, !.mem[st.tab][i] = To(f),
                                  !.tab = f]

vmm_map_page(st, v, p) ==
  LET t == Down(Down(Down([st EXCEPT !.tab = st.cr3], v[1]), v[2]), v[3]) IN
  IF t.tab = 0 THEN t ELSE [t EXCEPT !.mem[t.tab][v[4]] = To(p)]

\* A large page is unmapped as a whole.
vmm_unmap_page(st, v) ==
  LET pdpt == st.mem[st.cr3][v[1]].frame
      pd   == st.mem[pdpt][v[2]].frame
      e    == st.mem[pd][v[3]]
  IN  IF Walk(st.mem, st.cr3, v) = 0 THEN st
      ELSE IF e.huge THEN [st EXCEPT !.mem[pd][v[3]] = None]
      ELSE [st EXCEPT !.mem[e.frame][v[4]] = None]

Upto(n) == [i \in 1 .. n |-> i]

\* The pages are mapped to the frames from f on, up to the first failure.
MapRun(st, pages, f) ==
  FoldLeft(LAMBDA s, i :
             LET m == vmm_map_page(s, pages[i], f + i - 1) IN
             IF s.tab = 0 THEN s
             ELSE IF m.tab = 0 THEN m ELSE [m EXCEPT !.n = @ + 1],
           [st EXCEPT !.n = 0, !.tab = st.cr3], Upto(Len(pages)))

UnmapRun(st, pages, n) ==
  FoldLeft(LAMBDA s, i : vmm_unmap_page(s, pages[i]), st, Upto(n))

\* Pages 1 to n of w become translations to the frames that F gives.
Asked(w, s, pages, n, F(_)) ==
  [w EXCEPT ![s] = [v \in DOMAIN @ |->
     IF \E i \in 1 .. n : pages[i] = v
     THEN F(CHOOSE i \in 1 .. n : pages[i] = v) ELSE @[v]]]

Forgot(w, s, pages, n) == Asked(w, s, pages, n, LAMBDA i : 0)

-----------------------------------------------------------------------------
(* vmm_create_address_space and vmm_delete_address_space *)

\* The PML4 in frame f: nothing but the upper half of the current one.
NewSpace(st, f) ==
  [Take(st, f, 1) EXCEPT !.mem[f] = [Empty EXCEPT ![1] = st.mem[st.cr3][1]]]

\* The frames in the entries of table f that do not map a large page.
Below(m, f) == {m[f][i].frame : i \in {j \in Idx : m[f][j].frame # 0
                                                   /\ ~ m[f][j].huge}}

\* The tables of the lower half under PML4 s, and s.
TablesOf(m, s) ==
  LET pdpts == {m[s][0].frame} \ {0}
      pds   == UNION {Below(m, f) : f \in pdpts}
      pts   == UNION {Below(m, f) : f \in pds}
  IN  {s} \cup pdpts \cup pds \cup pts

\* The tables are freed, not the pages that they map.
vmm_delete_address_space(st, s) ==
  IF s = st.cr3 THEN st ELSE Give(st, TablesOf(st.mem, s))

-----------------------------------------------------------------------------
(* vmm_allocate and vmm_free, for n pages of the user area *)

Undo_NoUnmap(st, n) ==
  FoldLeft(LAMBDA s, i : Give(s, {virt_to_phys(s, Area[i])}), st, Upto(n))

\* Pages 1 to n of the area are unmapped and the frames that virt_to_phys
\* gives for them are freed.
Undo(st, n) ==
  FoldLeft(LAMBDA s, i : LET p == virt_to_phys(s, Area[i]) IN
             IF p = 0 THEN s ELSE Give(vmm_unmap_page(s, Area[i]), {p}),
           st, Upto(n))

AllocStep_NotMarked(st, i) ==
  LET f == pmm_alloc_pages(st, 1)
      m == vmm_map_page(st, Area[i], f)
  IN  IF st.tab = 0 THEN st
      ELSE IF f = 0 THEN [Undo(st, i - 1) EXCEPT !.tab = 0]
      ELSE [m EXCEPT !.got = Append(@, f)]

\* Page i of the area gets a frame, is mapped and cleared.  When that fails
\* what was done before is undone.
AllocStep(st, i) ==
  LET f == pmm_alloc_pages(st, 1)
      m == vmm_map_page(Take(st, f, 1), Area[i], f)
  IN  IF st.tab = 0 THEN st
      ELSE IF f = 0 THEN [Undo(st, i - 1) EXCEPT !.tab = 0]
      ELSE IF m.tab = 0 THEN [Undo(Give(m, {f}), i - 1) EXCEPT !.tab = 0]
      ELSE [m EXCEPT !.mem[f] = Empty, !.got = Append(@, f)]

vmm_allocate(n) ==
  LET st == FoldLeft(LAMBDA s, i : AllocStep(s, i), Now, Upto(n)) IN
  /\ ~ is_used
  /\ Becomes(st)
  /\ is_used' = (st.tab # 0)
  /\ want' = IF st.tab = 0 THEN want
             ELSE Asked(want, cr3, Area, n, LAMBDA i : st.got[i])

vmm_free(n) ==
  /\ Becomes(Undo(Now, n))
  /\ is_used' = FALSE
  /\ want' = Forgot(want, cr3, Area, n)

-----------------------------------------------------------------------------
BootTables ==
  [f \in Frames |->
     IF f = 1 THEN [i \in Idx |-> To(IF i = 1 THEN 2 ELSE 4)]
     ELSE IF f = 2 THEN [Empty EXCEPT ![0] = To(3)]
     ELSE IF f = 4 THEN [Empty EXCEPT ![0] = To(5)]
     ELSE IF f \in {3, 5} THEN [i \in Idx |-> Large(i)]
     ELSE Stale]

VMMInit ==
  /\ mem = BootTables /\ allocated = {} /\ cr3 = BootPML4 /\ is_used = FALSE
  /\ want = [s \in Frames |-> [v \in User \cup Kernel |->
               IF s = BootPML4 /\ v[2] = 0 THEN Large(v[3]).frame + v[4]
               ELSE 0]]
=============================================================================
