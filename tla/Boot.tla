--------------------------------- MODULE Boot -------------------------------
(***************************************************************************)
(* The UEFI loader after the installer (boot/main.c): efi_main checks the  *)
(* framebuffer, load_kernel places the segments of kernel.elf at their     *)
(* physical addresses, exit_boot_services fetches the memory map and       *)
(* leaves the firmware, and the kernel is entered.  Meanwhile the firmware *)
(* allocates where it likes and changes its memory map, so that the key of *)
(* a map fetched before is refused.  Memory is a set of pages, a pool      *)
(* allocation takes one; map sizes are in descriptors.                     *)
(***************************************************************************)
EXTENDS Integers, Sequences, FiniteSets

CONSTANTS
  Page,       \* physical pages
  Busy,       \* the sets of pages the firmware may occupy at the start
  Kernels,    \* the files there may be: [elf, segments]
  Slack,      \* the spare descriptors of a map buffer (8)
  Grow,       \* descriptors one allocation or release adds or removes at most
  MaxDesc,    \* bound on the map the firmware changes to by itself
  MaxChurn    \* bound on the changes it makes by itself

(* A program header: the pages from first on, of which the first file ones *)
(* come from the file, and whether that part lies inside the file.         *)
Segment == [load : BOOLEAN, first : Nat, memory : Nat, file : Nat, inside : BOOLEAN]

ASSUME BootAssumption ==
  /\ Page \subseteq Nat \ {0}
  /\ Busy \subseteq SUBSET Page
  /\ Kernels \subseteq [elf : BOOLEAN, segments : Seq(Segment)]
  /\ Slack \in Nat /\ Grow \in Nat
  \* an allocation and a release fit into the spare descriptors
  /\ 2 * Grow <= Slack
  /\ MaxDesc \in Nat \ {0}
  /\ MaxChurn \in Nat

NoPage == 0

VARIABLES
  pc,
  kernel,     \* the kernel.elf on the boot medium
  segment,    \* load_kernel: i
  entry,      \* kernel_entry has been set
  free,       \* pages the firmware can allocate
  memory,     \* what the pages hold, as far as the loader wrote them
  mapGen,     \* the key of the firmware's current memory map
  mapLen,     \* its size
  buf,        \* exit_boot_services: map
  capacity,   \* map_capacity
  key,        \* map_key
  bi,         \* the page of OrionBootInfo
  info,       \* its fields memory_map and memory_map_size
  exited,     \* boot services have been left
  churns,     \* changes of the map by the firmware alone (history)
  reallocs    \* buffers allocated inside the loop (history)

image == <<kernel, segment, entry>>
firmware == <<free, mapGen, mapLen>>
exit == <<buf, capacity, key, info>>
history == <<churns, reallocs>>
vars == <<pc, image, firmware, memory, exit, bi, exited, history>>

Init ==
  /\ pc = "gop"
  /\ kernel \in Kernels
  /\ segment = 1
  /\ entry = FALSE
  /\ free \in {Page \ b : b \in Busy}
  /\ memory = [p \in Page |-> [data |-> "other", n |-> 0]]
  /\ mapGen = 0
  /\ mapLen = 1
  /\ buf = NoPage
  /\ capacity = 0
  /\ key = 0
  /\ bi = NoPage
  /\ info = [map |-> NoPage, size |-> 0]
  /\ exited = FALSE
  /\ churns = 0
  /\ reallocs = 0
-----------------------------------------------------------------------------
(* The firmware.                                                            *)

(* A change of the memory map gives it a new key. *)
MapChanges(ops) ==
  /\ mapGen' = mapGen + ops
  /\ mapLen' \in {n \in (mapLen - Grow * ops)..(mapLen + Grow * ops) : n > 0}

(* AllocatePool: any free page. *)
AllocatePool(p) ==
  /\ p \in free
  /\ free' = free \ {p}
  /\ MapChanges(1)

(* A timer event or a driver allocates or releases memory.  The loader     *)
(* looks at the map from Probe on, so earlier changes make no difference.  *)
Churn ==
  /\ pc \in {"map", "get", "exit"}
  /\ churns < MaxChurn
  /\ churns' = churns + 1
  /\ mapGen' = mapGen + 1
  /\ mapLen' \in 1..MaxDesc
  /\ UNCHANGED <<pc, image, free, memory, exit, bi, exited, reallocs>>

(* Every call before ExitBootServices succeeds may return an error, which  *)
(* efi_main returns to the firmware.                                       *)
CallFails ==
  /\ pc \notin {"kernel", "returned"}
  /\ pc' = "returned"
  /\ UNCHANGED <<image, firmware, memory, exit, bi, exited, history>>
-----------------------------------------------------------------------------
(* The loader.                                                              *)

LocateGop ==
  /\ pc = "gop"
  /\ pc' = "info"
  /\ UNCHANGED <<image, firmware, memory, exit, bi, exited, history>>

(* load_kernel opens the file and asks for its size. *)
GetInfo ==
  /\ pc = "info"
  /\ \E p \in Page : AllocatePool(p)
  /\ pc' = "file"
  /\ UNCHANGED <<image, memory, exit, bi, exited, history>>

(* The checks of the ELF header; elf is their outcome for the file. *)
ValidKernelElf(k) == k.elf

ReadFile ==
  /\ pc = "file"
  /\ \E p \in Page : AllocatePool(p)
  /\ pc' = IF ValidKernelElf(kernel) THEN "segment" ELSE "returned"
  /\ UNCHANGED <<image, memory, exit, bi, exited, history>>

(* Mutant of AllocatePages: the segment is copied without the allocation. *)
CopyUnallocated(ps) == UNCHANGED firmware

Pages(s) == s.first..(s.first + s.memory - 1)
Skipped(s) == ~s.load \/ s.memory = 0
Malformed(s) == s.file > s.memory \/ ~s.inside

(* The image of segment i: its file part, then zeroes. *)
Byte(i, p) ==
  [data |-> IF p < kernel.segments[i].first + kernel.segments[i].file THEN "file" ELSE "zero",
   n |-> i]

(* The pages are taken at the segment's own address; the call fails        *)
(* (CallFails) when one of them is in use.                                 *)
AllocatePages(ps) ==
  /\ ps \subseteq free
  /\ free' = free \ ps
  /\ MapChanges(1)

LoadSegment ==
  /\ pc = "segment"
  /\ segment <= Len(kernel.segments)
  /\ LET s == kernel.segments[segment] IN
     \/ /\ Skipped(s)
        /\ segment' = segment + 1
        /\ UNCHANGED <<pc, firmware, memory>>
     \/ /\ ~Skipped(s) /\ Malformed(s)
        /\ pc' = "returned"
        /\ UNCHANGED <<segment, firmware, memory>>
     \/ /\ ~Skipped(s) /\ ~Malformed(s)
        /\ AllocatePages(Pages(s))
        /\ memory' = [p \in Page |-> IF p \in Pages(s) THEN Byte(segment, p) ELSE memory[p]]
        /\ segment' = segment + 1
        /\ UNCHANGED pc
  /\ UNCHANGED <<kernel, entry, exit, bi, exited, history>>

SetEntry ==
  /\ pc = "segment"
  /\ segment > Len(kernel.segments)
  /\ entry' = TRUE
  /\ pc' = "bi"
  /\ UNCHANGED <<kernel, segment, firmware, memory, exit, bi, exited, history>>

(* efi_main allocates and fills in OrionBootInfo. *)
AllocateInfo ==
  /\ pc = "bi"
  /\ \E p \in Page :
       /\ AllocatePool(p)
       /\ bi' = p
       /\ memory' = [memory EXCEPT ![p] = [data |-> "info", n |-> 0]]
  /\ pc' = "probe"
  /\ UNCHANGED <<image, exit, exited, history>>

(* Mutant of NewCapacity: no spare descriptors. *)
ExactCapacity == mapLen

NewCapacity == mapLen + Slack

(* exit_boot_services asks for the size of the map, *)
Probe ==
  /\ pc = "probe"
  /\ capacity' = NewCapacity
  /\ pc' = "map"
  /\ UNCHANGED <<image, firmware, memory, buf, key, info, bi, exited, history>>

(* allocates a buffer of that size and some more, *)
AllocateMap ==
  /\ pc = "map"
  /\ \E p \in Page : AllocatePool(p) /\ buf' = p
  /\ pc' = "get"
  /\ UNCHANGED <<image, memory, capacity, key, info, bi, exited, history>>

(* Mutant of Describe: only the first map fetched is recorded. *)
DescribeOnce == IF info.map = NoPage THEN [map |-> buf, size |-> mapLen] ELSE info

(* The fields of OrionBootInfo for the map in the buffer. *)
Describe == [map |-> buf, size |-> mapLen]

(* fetches the map into it, recording it in OrionBootInfo, *)
GetMemoryMap ==
  /\ pc = "get"
  /\ mapLen <= capacity
  /\ memory' = [memory EXCEPT ![buf] = [data |-> "map", n |-> mapGen]]
  /\ key' = mapGen
  /\ info' = Describe
  /\ pc' = "exit"
  /\ UNCHANGED <<image, firmware, buf, capacity, bi, exited, history>>

(* or replaces the buffer by a larger one when it has become too small, *)
ReplaceMap ==
  /\ pc = "get"
  /\ mapLen > capacity
  /\ capacity' = NewCapacity
  /\ \E p \in free :
       /\ buf' = p
       /\ free' = (free \ {p}) \cup {buf}
  /\ MapChanges(2)
  /\ reallocs' = reallocs + 1
  /\ UNCHANGED <<pc, image, memory, key, info, bi, exited, churns>>

(* Mutant of AfterRefusal: the same key is tried again. *)
SameKeyAgain == "exit"

(* and leaves the firmware, or starts again when the map has changed. *)
AfterRefusal == "get"

ExitBootServices ==
  /\ pc = "exit"
  /\ \/ /\ key = mapGen
        /\ exited' = TRUE
        /\ pc' = "kernel"
     \/ /\ key # mapGen
        /\ pc' = AfterRefusal
        /\ UNCHANGED exited
  /\ UNCHANGED <<image, firmware, memory, exit, bi, history>>

Proceed ==
  \/ LocateGop \/ GetInfo \/ ReadFile \/ LoadSegment \/ SetEntry \/ AllocateInfo
  \/ Probe \/ AllocateMap \/ GetMemoryMap \/ ReplaceMap \/ ExitBootServices

Loader == Proceed \/ CallFails

(* The next call cannot succeed: there is no memory for it. *)
OutOfMemory ==
  \/ free = {} /\ pc \in {"info", "file", "bi", "map"}
  \/ free = {} /\ pc = "get" /\ mapLen > capacity
  \/ /\ pc = "segment" /\ segment <= Len(kernel.segments)
     /\ LET s == kernel.segments[segment] IN
          ~Skipped(s) /\ ~Malformed(s) /\ ~(Pages(s) \subseteq free)

Finished == pc \in {"kernel", "returned"} /\ UNCHANGED vars

Next == Loader \/ Churn \/ Finished

(* Every firmware call returns; no call needs to fail that could succeed. *)
Spec == Init /\ [][Next]_vars /\ WF_vars(Proceed \/ (OutOfMemory /\ CallFails))
-----------------------------------------------------------------------------
TypeOK ==
  /\ pc \in {"gop", "info", "file", "segment", "bi", "probe", "map", "get", "exit",
             "kernel", "returned"}
  /\ kernel \in Kernels
  /\ segment \in 1..(Len(kernel.segments) + 1)
  /\ entry \in BOOLEAN
  /\ free \subseteq Page
  /\ memory \in [Page -> [data : {"other", "file", "zero", "info", "map"}, n : Nat]]
  /\ mapGen \in Nat
  /\ mapLen \in Nat \ {0}
  /\ buf \in Page \cup {NoPage}
  /\ capacity \in Nat
  /\ key \in Nat
  /\ bi \in Page \cup {NoPage}
  /\ info \in [map : Page \cup {NoPage}, size : Nat]
  /\ exited \in BOOLEAN
  /\ churns \in Nat
  /\ reallocs \in Nat

(* From the moment load_kernel has set the entry point, every loadable     *)
(* segment is in memory, zero-filled, wherever the firmware has put the    *)
(* loader's other allocations and whatever segments the file has.          *)
KernelIntact ==
  entry => \A i \in 1..Len(kernel.segments) : ~Skipped(kernel.segments[i]) =>
             /\ ~Malformed(kernel.segments[i])
             /\ \A p \in Pages(kernel.segments[i]) : memory[p] = Byte(i, p)

(* The kernel runs with the boot services left, its entry point set, and   *)
(* a boot info that describes the very map the firmware was left with.     *)
(* The firmware is never returned to after it has been left.               *)
HandedOver ==
  /\ pc = "kernel" =>
       /\ exited
       /\ entry
       /\ memory[bi].data = "info"
       /\ memory[info.map] = [data |-> "map", n |-> mapGen]
       /\ info.size = mapLen
       /\ info.size <= capacity
       /\ info.map \notin free /\ bi \notin free
  /\ pc = "returned" => ~exited

(* The loader's own allocation of the buffer never makes the buffer too    *)
(* small: each replacement answers a change the firmware made by itself.   *)
ReplacedOnlyForFirmware == reallocs <= churns

(* What the loader has yet to do at most while the map is left alone: a    *)
(* buffer that is too small is replaced once, and a key that is out of     *)
(* date is refused once.                                                   *)
ToLoad == Len(kernel.segments) + 1 - segment

StepsLeft ==
  [kernel |-> 0, returned |-> 0,
   exit |-> IF key = mapGen THEN 1 ELSE 4,
   get |-> IF mapLen <= capacity THEN 2 ELSE 3,
   map |-> 5, probe |-> 6, bi |-> 7, segment |-> ToLoad + 8, file |-> ToLoad + 9,
   info |-> ToLoad + 10, gop |-> ToLoad + 11][pc]

(* The loop of exit_boot_services has no bound of its own.  Unless the     *)
(* firmware changes the map by itself, every step brings the loader nearer *)
(* to the kernel or to an error: neither its own allocation and release in *)
(* the loop nor a stale key sends it round for ever.                       *)
BootAdvances == [][churns' = churns => StepsLeft' < StepsLeft]_vars

(* The retries end when the firmware stops changing the map. *)
BootEnds == <>(pc \in {"kernel", "returned"})
=============================================================================
