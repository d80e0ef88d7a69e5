------------------------------- MODULE MCBoot -------------------------------
(* An instance of Boot for TLC: a kernel of two segments with a skipped    *)
(* header between them, one with overlapping segments, a malformed one and *)
(* a file that is no kernel, with and without firmware pages in the way.   *)
EXTENDS Boot

Load(first, memsz, filesz) ==
  [load |-> TRUE, first |-> first, memory |-> memsz, file |-> filesz, inside |-> TRUE]
Note == [load |-> FALSE, first |-> 1, memory |-> 1, file |-> 1, inside |-> TRUE]

MCPage == 1..7
MCBusy == {{}, {3}, {7}}
MCKernels ==
  {[elf |-> TRUE, segments |-> <<Load(1, 1, 1), Note, Load(2, 1, 0)>>],
   [elf |-> TRUE, segments |-> <<Load(1, 2, 1), Load(2, 1, 1)>>],
   [elf |-> TRUE, segments |-> <<Load(1, 1, 2)>>],
   [elf |-> TRUE, segments |-> <<[Load(1, 1, 1) EXCEPT !.inside = FALSE]>>],
   [elf |-> FALSE, segments |-> << >>]}
=============================================================================
