---------------------------- MODULE MCTaskMemory ----------------------------
(* TaskMemory with programs of one and of two segments, the second of which *)
(* crosses from one page table to the next or lies outside the file.       *)
EXTENDS TaskMemory

Text(fits) == [pages |-> <<<<0, 1, 0, 0>>>>, fits |-> fits]
Bss(fits)  == [pages |-> <<<<0, 1, 0, 1>>, <<0, 1, 1, 0>>>>, fits |-> fits]

MCImages == {<<Text(TRUE), Bss(TRUE)>>, <<Text(TRUE), Bss(FALSE)>>}
=============================================================================
