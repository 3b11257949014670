------------------------------- MODULE Layout -------------------------------
(***************************************************************************)
(* Where the kernel's memory lies: kmain gives the heap the addresses from *)
(* 2 MB to 6 MB (kmalloc_init, ksrc/main.c), paging_init puts the page     *)
(* tables at 4 MB (ksrc/paging.c), and every task's directory maps the     *)
(* first 4 MB for the kernel (task_create, task_dup).  Nothing but the     *)
(* order in which the heap is used keeps these apart.                      *)
(***************************************************************************)
EXTENDS Kmalloc

CONSTANT TablesBegin   \* the page tables, 0x00400000: the end of what tasks map, too

ASSUME LayoutAssumption == TablesBegin \in HeapBegin .. HeapEnd

BlockEnd(b) == b.begin + b.len + Header

\* As long as all allocations together, freed ones included, would fit below
\* the page tables, no block reaches them: best fit may choose any chunk, but
\* every chunk is carved from its front and memory never served is above.
TablesUntouched ==
  served =< TablesBegin - HeapBegin => \A b \in live : BlockEnd(b) =< TablesBegin

=============================================================================
