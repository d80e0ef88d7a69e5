------------------------------ MODULE BootProofs ----------------------------
(***************************************************************************)
(* Proofs about the UEFI loader (module Boot), for every memory, kernel    *)
(* file, firmware and amount of slack that BootAssumption allows.          *)
(***************************************************************************)
EXTENDS Boot, TLAPS

(* What one change of the map can do to its key and size. *)
LEMMA MapChange ==
  ASSUME TypeOK, NEW ops \in {1, 2}, MapChanges(ops)
  PROVE  /\ mapGen' \in Nat /\ mapGen' > mapGen
         /\ mapLen' \in Nat \ {0}
         /\ mapLen' <= mapLen + Slack
         /\ ops = 1 => mapLen' <= mapLen + Grow
<1>1. mapLen \in Nat /\ mapGen \in Nat /\ Grow \in Nat /\ Slack \in Nat /\ 2 * Grow <= Slack
  BY BootAssumption DEF TypeOK
<1>2. CASE ops = 1
  BY <1>1, <1>2 DEF MapChanges
<1>3. CASE ops = 2
  BY <1>1, <1>3 DEF MapChanges
<1>4. QED
  BY <1>2, <1>3
-----------------------------------------------------------------------------
(* TypeOK is not inductive: the loop releases the buffer it replaces, which *)
(* must be a page for free to stay a set of pages.                          *)
TypeInv == TypeOK /\ (pc \in {"get", "exit"} => buf \in Page)

(* The variables of the loader keep their types (boot/main.c). *)
THEOREM TypeCorrect == Spec => []TypeOK
<1>1. Init => TypeInv
  <2> SUFFICES ASSUME Init PROVE TypeInv
    OBVIOUS
  <2>1. kernel \in [elf : BOOLEAN, segments : Seq(Segment)]
    BY BootAssumption DEF Init
  <2>2. 1 \in 1..(Len(kernel.segments) + 1)
    BY <2>1
  <2>3. free \subseteq Page
    BY DEF Init
  <2>4. memory \in [Page -> [data : {"other", "file", "zero", "info", "map"}, n : Nat]]
    BY DEF Init
  <2>5. /\ pc = "gop" /\ kernel \in Kernels /\ segment = 1 /\ entry = FALSE
        /\ mapGen = 0 /\ mapLen = 1 /\ buf = NoPage /\ capacity = 0 /\ key = 0
        /\ bi = NoPage /\ info = [map |-> NoPage, size |-> 0] /\ exited = FALSE
        /\ churns = 0 /\ reallocs = 0
    BY DEF Init
  <2>6. /\ mapGen \in Nat /\ mapLen \in Nat \ {0} /\ capacity \in Nat /\ key \in Nat
        /\ churns \in Nat /\ reallocs \in Nat
        /\ info \in [map : Page \cup {NoPage}, size : Nat]
    BY <2>5
  <2>7. entry \in BOOLEAN /\ exited \in BOOLEAN
    BY <2>5, Zenon
  <2>8. segment \in 1..(Len(kernel.segments) + 1)
    BY <2>2, <2>5
  <2>9. QED
    BY <2>3, <2>4, <2>5, <2>6, <2>7, <2>8 DEF TypeOK, TypeInv
<1>2. TypeInv /\ [Next]_vars => TypeInv'
  <2> SUFFICES ASSUME TypeInv, [Next]_vars PROVE TypeInv'
    OBVIOUS
  <2> USE DEF TypeInv
  <2> USE DEF image, firmware, exit, history
  <2>0. /\ Page \subseteq Nat \ {0}
        /\ Slack \in Nat
        /\ kernel \in [elf : BOOLEAN, segments : Seq(Segment)]
        /\ Len(kernel.segments) \in Nat
    BY BootAssumption DEF TypeOK
  <2>1. ASSUME NEW p \in Page, AllocatePool(p)
        PROVE  free' \subseteq Page /\ mapGen' \in Nat /\ mapLen' \in Nat \ {0}
    BY <2>1, MapChange DEF AllocatePool, TypeOK
  <2>2. CASE LocateGop \/ CallFails \/ SetEntry \/ Finished \/ UNCHANGED vars
    BY <2>2 DEF LocateGop, CallFails, SetEntry, Finished, vars, TypeOK
  <2>3. CASE GetInfo \/ ReadFile
    BY <2>1, <2>3 DEF GetInfo, ReadFile, TypeOK
  <2>4. CASE LoadSegment
    <3> DEFINE s == kernel.segments[segment]
    <3>1. segment + 1 \in 1..(Len(kernel.segments) + 1)
      BY <2>0, <2>4 DEF LoadSegment, TypeOK
    <3>2. CASE Skipped(s) /\ segment' = segment + 1 /\ UNCHANGED <<pc, firmware, memory>>
      BY <2>4, <3>1, <3>2 DEF LoadSegment, TypeOK
    <3>3. CASE pc' = "returned" /\ UNCHANGED <<segment, firmware, memory>>
      BY <2>4, <3>3 DEF LoadSegment, TypeOK
    <3>4. CASE /\ AllocatePages(Pages(s))
               /\ memory' = [p \in Page |-> IF p \in Pages(s) THEN Byte(segment, p) ELSE memory[p]]
               /\ segment' = segment + 1
               /\ UNCHANGED pc
      <4>1. free' \subseteq Page /\ mapGen' \in Nat /\ mapLen' \in Nat \ {0}
        BY <3>4, MapChange DEF AllocatePages, TypeOK
      <4>2. memory' \in [Page -> [data : {"other", "file", "zero", "info", "map"}, n : Nat]]
        BY <2>0, <3>4 DEF Byte, TypeOK
      <4>3. QED
        BY <2>4, <3>1, <3>4, <4>1, <4>2 DEF LoadSegment, TypeOK
    <3>5. QED
      BY <2>4, <3>2, <3>3, <3>4 DEF LoadSegment
  <2>5. CASE AllocateInfo
    BY <2>1, <2>5 DEF AllocateInfo, TypeOK
  <2>6. CASE Probe
    BY <2>0, <2>6 DEF Probe, NewCapacity, TypeOK
  <2>7. CASE AllocateMap
    BY <2>1, <2>7 DEF AllocateMap, TypeOK
  <2>8. CASE GetMemoryMap
    BY <2>8 DEF GetMemoryMap, Describe, TypeOK
  <2>9. CASE ReplaceMap
    BY <2>0, <2>9, MapChange DEF ReplaceMap, NewCapacity, TypeOK
  <2>10. CASE ExitBootServices
    BY <2>10 DEF ExitBootServices, AfterRefusal, TypeOK
  <2>11. CASE Churn
    BY <2>11, BootAssumption DEF Churn, TypeOK
  <2>12. QED
    BY <2>2, <2>3, <2>4, <2>5, <2>6, <2>7, <2>8, <2>9, <2>10, <2>11 DEF Next, Loader, Proceed
<1>3. TypeInv => TypeOK
  BY DEF TypeInv
<1>4. QED
  BY <1>1, <1>2, <1>3, PTL DEF Spec
-----------------------------------------------------------------------------
(***************************************************************************)
(* The inductive invariant.  A loaded segment owns its pages: they are not *)
(* free, and neither the boot info nor the map buffer is among them.       *)
(***************************************************************************)
Loaded(i) == i < segment /\ ~Skipped(kernel.segments[i])

SegmentsInv ==
  \A i \in 1..Len(kernel.segments) : Loaded(i) =>
    /\ ~Malformed(kernel.segments[i])
    /\ \A p \in Pages(kernel.segments[i]) :
         /\ p \in Page \ free
         /\ memory[p] = Byte(i, p)
         /\ pc \in {"get", "exit", "kernel"} => p # buf

StageInv ==
  /\ entry => segment = Len(kernel.segments) + 1
  /\ pc \in {"bi", "probe", "map", "get", "exit", "kernel"} => entry
  /\ pc \in {"gop", "info", "file", "segment"} => ~entry
  /\ exited <=> pc = "kernel"

BuffersInv ==
  /\ pc \in {"probe", "map", "get", "exit", "kernel"} =>
       bi \in Page \ free /\ memory[bi].data = "info"
  /\ pc \in {"get", "exit", "kernel"} => buf \in Page \ free /\ buf # bi

(* The map in the buffer is the one of the key, which is current only as   *)
(* long as the map has not changed.                                        *)
KeyInv ==
  /\ key <= mapGen
  /\ pc \in {"exit", "kernel"} =>
       /\ info.map = buf
       /\ memory[buf] = [data |-> "map", n |-> key]
       /\ info.size <= capacity
       /\ key = mapGen => info.size = mapLen
  /\ pc = "kernel" => key = mapGen

(* A buffer that is too small was overtaken by the firmware. *)
CapacityInv ==
  /\ reallocs <= churns
  /\ pc = "map" => mapLen + Slack <= capacity \/ reallocs < churns
  /\ pc \in {"get", "exit"} => mapLen <= capacity \/ reallocs < churns

IInv == SegmentsInv /\ StageInv /\ BuffersInv /\ KeyInv /\ CapacityInv

(* An allocation from the pool takes a page that no loaded segment and     *)
(* none of the loader's own structures has.                                *)
LEMMA PoolPageIsNew ==
  ASSUME TypeOK, SegmentsInv, BuffersInv, NEW p \in free
  PROVE  /\ p \in Page
         /\ \A i \in 1..Len(kernel.segments) : Loaded(i) => p \notin Pages(kernel.segments[i])
         /\ pc \in {"probe", "map", "get", "exit", "kernel"} => p # bi
  BY DEF TypeOK, SegmentsInv, BuffersInv

(* The invariant holds throughout the loader's run. *)
LEMMA InductiveInvariant == Spec => []IInv
<1>1. Init => IInv
  <2> SUFFICES ASSUME Init PROVE IInv
    OBVIOUS
  <2>1. /\ pc = "gop" /\ segment = 1 /\ entry = FALSE /\ exited = FALSE
        /\ key = 0 /\ mapGen = 0 /\ churns = 0 /\ reallocs = 0
    BY DEF Init
  <2>2. SegmentsInv
    BY <2>1 DEF SegmentsInv, Loaded
  <2>3. StageInv
    BY <2>1, Zenon DEF StageInv
  <2>4. BuffersInv /\ KeyInv /\ CapacityInv
    BY <2>1 DEF BuffersInv, KeyInv, CapacityInv
  <2>5. QED
    BY <2>2, <2>3, <2>4 DEF IInv
<1>2. TypeOK /\ IInv /\ [Next]_vars => IInv'
  <2> SUFFICES ASSUME TypeOK, IInv, [Next]_vars PROVE IInv'
    OBVIOUS
  <2> USE DEF image, firmware, exit, history, IInv
  <2>0. /\ Slack \in Nat /\ Grow \in Nat /\ Grow <= Slack
        /\ Page \subseteq Nat \ {0}
        /\ kernel \in [elf : BOOLEAN, segments : Seq(Segment)]
        /\ Len(kernel.segments) \in Nat
        /\ segment \in Nat
        /\ mapLen \in Nat /\ mapGen \in Nat /\ key \in Nat /\ capacity \in Nat
        /\ churns \in Nat /\ reallocs \in Nat
    BY BootAssumption DEF TypeOK
  <2>1. CASE UNCHANGED vars
    BY <2>1 DEF vars, SegmentsInv, StageInv, BuffersInv, KeyInv, CapacityInv,
                Loaded, Skipped, Malformed, Pages, Byte
  <2>2. CASE LocateGop \/ CallFails
    <3>1. /\ pc' = "returned" \/ (pc = "gop" /\ pc' = "info")
          /\ pc # "kernel"
          /\ UNCHANGED <<kernel, segment, entry, free, memory, mapGen, mapLen, key, exited, churns, reallocs>>
      BY <2>2 DEF LocateGop, CallFails
    <3>2. SegmentsInv'
      BY <3>1 DEF SegmentsInv, Loaded, Skipped, Malformed, Pages, Byte
    <3>3. StageInv'
      BY <3>1 DEF StageInv
    <3>4. BuffersInv' /\ KeyInv' /\ CapacityInv'
      BY <3>1 DEF BuffersInv, KeyInv, CapacityInv
    <3>5. QED
      BY <3>2, <3>3, <3>4
  <2>3. CASE GetInfo \/ ReadFile
    <3>1. /\ pc' \in {"file", "segment", "returned"} /\ pc \in {"info", "file"}
          /\ UNCHANGED <<kernel, segment, entry, memory, key, exited, churns, reallocs>>
      BY <2>3 DEF GetInfo, ReadFile
    <3>2. free' \subseteq free /\ mapGen' \in Nat /\ mapGen' > mapGen
      BY <2>3, MapChange DEF GetInfo, ReadFile, AllocatePool
    <3>3. SegmentsInv'
      BY <3>1, <3>2 DEF SegmentsInv, Loaded, Skipped, Malformed, Pages, Byte
    <3>4. StageInv'
      BY <3>1 DEF StageInv
    <3>5. BuffersInv' /\ KeyInv' /\ CapacityInv'
      BY <2>0, <3>1, <3>2 DEF BuffersInv, KeyInv, CapacityInv
    <3>6. QED
      BY <3>3, <3>4, <3>5
  <2>4. CASE LoadSegment
    <3> DEFINE s == kernel.segments[segment]
    <3>0. /\ pc = "segment" /\ segment \in 1..Len(kernel.segments)
          /\ UNCHANGED <<kernel, entry, key, exited, churns, reallocs>>
      BY <2>0, <2>4 DEF LoadSegment, TypeOK
    <3>1. CASE Skipped(s) /\ segment' = segment + 1 /\ UNCHANGED <<pc, firmware, memory>>
      <4>1. ASSUME NEW i \in 1..Len(kernel.segments), Loaded(i)'
            PROVE  Loaded(i)
        BY <2>0, <3>0, <3>1, <4>1 DEF Loaded, Skipped
      <4>2. SegmentsInv'
        BY <3>0, <3>1, <4>1 DEF SegmentsInv, Skipped, Malformed, Pages, Byte
      <4>3. QED
        BY <3>0, <3>1, <4>2 DEF StageInv, BuffersInv, KeyInv, CapacityInv
    <3>2. CASE pc' = "returned" /\ UNCHANGED <<segment, firmware, memory>>
      <4>1. SegmentsInv'
        BY <3>0, <3>2 DEF SegmentsInv, Loaded, Skipped, Malformed, Pages, Byte
      <4>2. QED
        BY <3>0, <3>2, <4>1 DEF StageInv, BuffersInv, KeyInv, CapacityInv
    <3>3. CASE /\ ~Malformed(s)
               /\ AllocatePages(Pages(s))
               /\ memory' = [p \in Page |-> IF p \in Pages(s) THEN Byte(segment, p) ELSE memory[p]]
               /\ segment' = segment + 1
               /\ UNCHANGED pc
      <4>1. /\ Pages(s) \subseteq free /\ free' = free \ Pages(s) /\ free \subseteq Page
            /\ mapGen' \in Nat /\ mapGen' > mapGen
        BY <3>3, MapChange DEF AllocatePages, TypeOK
      <4>2. ASSUME NEW i \in 1..Len(kernel.segments), Loaded(i)'
            PROVE  Loaded(i) \/ i = segment
        BY <2>0, <3>0, <3>3, <4>2 DEF Loaded, Skipped
      <4>3. ASSUME NEW i \in 1..Len(kernel.segments), Loaded(i),
                   NEW p \in Pages(kernel.segments[i])
            PROVE  p \in Page \ free' /\ memory'[p] = Byte(i, p)
        BY <3>3, <4>1, <4>3 DEF SegmentsInv
      <4>4. ASSUME NEW p \in Pages(s)
            PROVE  p \in Page \ free' /\ memory'[p] = Byte(segment, p)
        BY <3>3, <4>1, <4>4
      <4>5. SegmentsInv'
        <5> SUFFICES ASSUME NEW i \in 1..Len(kernel.segments), Loaded(i)'
                     PROVE  /\ ~Malformed(kernel.segments[i])
                            /\ \A p \in Pages(kernel.segments[i]) :
                                 p \in Page \ free' /\ memory'[p] = Byte(i, p)
          BY <3>0, <3>3 DEF SegmentsInv, Malformed, Pages, Byte
        <5>1. CASE Loaded(i)
          BY <4>3, <5>1 DEF SegmentsInv
        <5>2. CASE i = segment
          BY <3>3, <4>4, <5>2
        <5>3. QED
          BY <4>2, <5>1, <5>2
      <4>6. QED
        BY <2>0, <3>0, <3>3, <4>1, <4>5 DEF StageInv, BuffersInv, KeyInv, CapacityInv
    <3>4. QED
      BY <2>4, <3>1, <3>2, <3>3 DEF LoadSegment
  <2>5. CASE SetEntry
    <3>1. /\ pc = "segment" /\ pc' = "bi" /\ entry' = TRUE
          /\ segment = Len(kernel.segments) + 1
          /\ UNCHANGED <<kernel, segment, free, memory, mapGen, mapLen, key, exited, churns, reallocs>>
      BY <2>0, <2>5 DEF SetEntry, TypeOK
    <3>2. SegmentsInv'
      BY <3>1 DEF SegmentsInv, Loaded, Skipped, Malformed, Pages, Byte
    <3>3. QED
      BY <3>1, <3>2 DEF StageInv, BuffersInv, KeyInv, CapacityInv
  <2>6. CASE AllocateInfo
    <3>1. PICK q \in Page :
            /\ AllocatePool(q)
            /\ bi' = q
            /\ memory' = [memory EXCEPT ![q] = [data |-> "info", n |-> 0]]
      BY <2>6 DEF AllocateInfo
    <3>2. /\ pc = "bi" /\ pc' = "probe"
          /\ UNCHANGED <<kernel, segment, entry, key, exited, churns, reallocs>>
      BY <2>6 DEF AllocateInfo
    <3>3. /\ q \in free /\ free' = free \ {q}
          /\ mapGen' \in Nat /\ mapGen' > mapGen
      BY <3>1, MapChange DEF AllocatePool
    <3>4. memory'[q].data = "info" /\ \A p \in Page : p # q => memory'[p] = memory[p]
      BY <3>1 DEF TypeOK
    <3>5. SegmentsInv'
      BY <3>2, <3>3, <3>4, PoolPageIsNew
         DEF SegmentsInv, Loaded, Skipped, Malformed, Pages, Byte
    <3>6. BuffersInv'
      BY <3>1, <3>2, <3>3, <3>4 DEF BuffersInv
    <3>7. QED
      BY <2>0, <3>2, <3>3, <3>5, <3>6 DEF StageInv, KeyInv, CapacityInv
  <2>7. CASE Probe
    <3>1. /\ pc = "probe" /\ pc' = "map" /\ capacity' = mapLen + Slack
          /\ UNCHANGED <<kernel, segment, entry, free, memory, mapGen, mapLen, buf, key, bi, exited,
                         churns, reallocs>>
      BY <2>7 DEF Probe, NewCapacity
    <3>2. SegmentsInv'
      BY <3>1 DEF SegmentsInv, Loaded, Skipped, Malformed, Pages, Byte
    <3>3. CapacityInv'
      BY <2>0, <3>1 DEF CapacityInv
    <3>4. QED
      BY <3>1, <3>2, <3>3 DEF StageInv, BuffersInv, KeyInv
  <2>8. CASE AllocateMap
    <3>1. PICK q \in Page : AllocatePool(q) /\ buf' = q
      BY <2>8 DEF AllocateMap
    <3>2. /\ pc = "map" /\ pc' = "get"
          /\ UNCHANGED <<kernel, segment, entry, memory, capacity, key, bi, exited, churns, reallocs>>
      BY <2>8 DEF AllocateMap
    <3>3. /\ q \in free /\ free' = free \ {q}
          /\ mapGen' \in Nat /\ mapGen' > mapGen
          /\ mapLen' \in Nat /\ mapLen' <= mapLen + Grow
      BY <3>1, MapChange DEF AllocatePool
    <3>4. SegmentsInv'
      BY <3>1, <3>2, <3>3, PoolPageIsNew
         DEF SegmentsInv, Loaded, Skipped, Malformed, Pages, Byte
    <3>5. BuffersInv'
      BY <3>1, <3>2, <3>3, PoolPageIsNew DEF BuffersInv
    <3>6. KeyInv' /\ CapacityInv'
      BY <2>0, <3>2, <3>3 DEF KeyInv, CapacityInv
    <3>7. QED
      BY <3>2, <3>4, <3>5, <3>6 DEF StageInv
  <2>9. CASE GetMemoryMap
    <3>1. /\ pc = "get" /\ pc' = "exit" /\ mapLen <= capacity
          /\ memory' = [memory EXCEPT ![buf] = [data |-> "map", n |-> mapGen]]
          /\ key' = mapGen
          /\ info' = [map |-> buf, size |-> mapLen]
          /\ UNCHANGED <<kernel, segment, entry, free, mapGen, mapLen, buf, capacity, bi, exited,
                         churns, reallocs>>
      BY <2>9 DEF GetMemoryMap, Describe
    <3>2. /\ buf \in Page /\ buf # bi
          /\ memory'[buf] = [data |-> "map", n |-> mapGen]
          /\ \A p \in Page : p # buf => memory'[p] = memory[p]
      BY <3>1 DEF BuffersInv, TypeOK
    <3>3. SegmentsInv'
      BY <3>1, <3>2 DEF SegmentsInv, Loaded, Skipped, Malformed, Pages, Byte
    <3>4. BuffersInv'
      BY <3>1, <3>2 DEF BuffersInv
    <3>5. KeyInv' /\ CapacityInv'
      BY <2>0, <3>1, <3>2 DEF KeyInv, CapacityInv
    <3>6. QED
      BY <3>1, <3>3, <3>4, <3>5 DEF StageInv
  <2>10. CASE ReplaceMap
    <3>1. PICK q \in free : buf' = q /\ free' = (free \ {q}) \cup {buf}
      BY <2>10 DEF ReplaceMap
    <3>2. /\ pc = "get" /\ pc' = "get" /\ mapLen > capacity
          /\ capacity' = mapLen + Slack /\ reallocs' = reallocs + 1
          /\ UNCHANGED <<kernel, segment, entry, memory, key, bi, exited, churns>>
      BY <2>10 DEF ReplaceMap, NewCapacity
    <3>3. mapGen' \in Nat /\ mapGen' > mapGen /\ mapLen' \in Nat /\ mapLen' <= mapLen + Slack
      BY <2>10, MapChange DEF ReplaceMap
    <3>4. buf \in Page \ free /\ buf # bi
      BY <3>2 DEF BuffersInv
    <3>5. SegmentsInv'
      BY <3>1, <3>2, <3>4, PoolPageIsNew
         DEF SegmentsInv, Loaded, Skipped, Malformed, Pages, Byte
    <3>6. BuffersInv'
      BY <3>1, <3>2, <3>4, PoolPageIsNew DEF BuffersInv
    <3>7. KeyInv' /\ CapacityInv'
      BY <2>0, <3>2, <3>3 DEF KeyInv, CapacityInv
    <3>8. QED
      BY <3>2, <3>5, <3>6, <3>7 DEF StageInv
  <2>11. CASE ExitBootServices
    <3>1. /\ pc = "exit"
          /\ \/ key = mapGen /\ exited' = TRUE /\ pc' = "kernel"
             \/ pc' = "get" /\ UNCHANGED exited
          /\ UNCHANGED <<kernel, segment, entry, free, memory, mapGen, mapLen, buf, capacity, key,
                         info, bi, churns, reallocs>>
      BY <2>11 DEF ExitBootServices, AfterRefusal
    <3>2. SegmentsInv'
      BY <3>1 DEF SegmentsInv, Loaded, Skipped, Malformed, Pages, Byte
    <3>3. StageInv'
      BY <3>1 DEF StageInv
    <3>4. BuffersInv' /\ KeyInv' /\ CapacityInv'
      BY <3>1 DEF BuffersInv, KeyInv, CapacityInv
    <3>5. QED
      BY <3>2, <3>3, <3>4
  <2>12. CASE Churn
    <3>1. /\ pc \in {"map", "get", "exit"} /\ churns' = churns + 1 /\ mapGen' = mapGen + 1
          /\ UNCHANGED <<pc, kernel, segment, entry, free, memory, buf, capacity, key, info, bi,
                         exited, reallocs>>
      BY <2>12 DEF Churn
    <3>2. SegmentsInv'
      BY <3>1 DEF SegmentsInv, Loaded, Skipped, Malformed, Pages, Byte
    <3>3. KeyInv' /\ CapacityInv'
      BY <2>0, <3>1 DEF KeyInv, CapacityInv
    <3>4. QED
      BY <3>1, <3>2, <3>3 DEF StageInv, BuffersInv
  <2>13. CASE Finished
    BY <2>1, <2>13 DEF Finished
  <2>14. QED
    BY <2>1, <2>2, <2>3, <2>4, <2>5, <2>6, <2>7, <2>8, <2>9, <2>10, <2>11, <2>12, <2>13
       DEF Next, Loader, Proceed
<1>3. QED
  BY <1>1, <1>2, TypeCorrect, PTL DEF Spec
-----------------------------------------------------------------------------
(* load_kernel sets the entry point only after every loadable segment is   *)
(* in place, and no later allocation or write of the loader disturbs it.   *)
THEOREM KernelLoaded == Spec => []KernelIntact
<1>1. TypeOK /\ IInv => KernelIntact
  <2> SUFFICES ASSUME TypeOK, IInv, entry,
                      NEW i \in 1..Len(kernel.segments), ~Skipped(kernel.segments[i])
               PROVE  /\ ~Malformed(kernel.segments[i])
                      /\ \A p \in Pages(kernel.segments[i]) : memory[p] = Byte(i, p)
    BY DEF KernelIntact
  <2>1. kernel \in [elf : BOOLEAN, segments : Seq(Segment)]
    BY BootAssumption DEF TypeOK
  <2>2. Loaded(i)
    BY <2>1 DEF Loaded, IInv, StageInv
  <2>3. QED
    BY <2>2 DEF IInv, SegmentsInv
<1>2. QED
  BY <1>1, TypeCorrect, InductiveInvariant, PTL

(* exit_boot_services enters the kernel with the map whose key the         *)
(* firmware accepted, however often the map changed underneath.            *)
THEOREM HandOver == Spec => []HandedOver
<1>1. TypeOK /\ IInv => HandedOver
  BY DEF HandedOver, IInv, StageInv, BuffersInv, KeyInv
<1>2. QED
  BY <1>1, TypeCorrect, InductiveInvariant, PTL

(* With twice Grow spare descriptors, the buffer is replaced at most once  *)
(* for each change the firmware makes by itself.                           *)
THEOREM ReplacementBound == Spec => []ReplacedOnlyForFirmware
<1>1. IInv => ReplacedOnlyForFirmware
  BY DEF IInv, CapacityInv, ReplacedOnlyForFirmware
<1>2. QED
  BY <1>1, InductiveInvariant, PTL
-----------------------------------------------------------------------------
(* Between two changes that the firmware makes by itself the loader takes a *)
(* bounded number of steps: the loop of exit_boot_services (boot/main.c)    *)
(* does not go round on its own account, for any kernel, memory and slack.  *)
THEOREM BootProgress == Spec => BootAdvances
<1>1. TypeOK /\ TypeOK' /\ [Next]_vars => [churns' = churns => StepsLeft' < StepsLeft]_vars
  <2> SUFFICES ASSUME TypeOK, TypeOK', Next, churns' = churns, ~UNCHANGED vars
               PROVE  StepsLeft' < StepsLeft
    OBVIOUS
  <2> USE DEF image, firmware, exit, history
  <2>1. ToLoad \in Nat /\ ToLoad' \in Nat /\ Len(kernel.segments) \in Nat /\ segment \in Nat
    <3>0. ASSUME NEW k \in Kernels PROVE Len(k.segments) \in Nat
      <4>1. k \in [elf : BOOLEAN, segments : Seq(Segment)]
        BY BootAssumption
      <4>2. k.segments \in Seq(Segment)
        BY <4>1
      <4> HIDE DEF Segment
      <4> QED BY <4>2
    <3>1. Len(kernel.segments) \in Nat /\ Len(kernel'.segments) \in Nat
      BY <3>0 DEF TypeOK
    <3> DEFINE n == Len(kernel.segments)
               m == Len(kernel'.segments)
    <3>2. segment \in 1..(n + 1) /\ segment' \in 1..(m + 1)
      BY DEF TypeOK
    <3>3. ToLoad = n + 1 - segment /\ ToLoad' = m + 1 - segment'
      BY DEF ToLoad
    <3>4. n \in Nat /\ m \in Nat
      BY <3>1
    <3> HIDE DEF n, m
    <3>5. ASSUME NEW k \in Nat, NEW i \in 1..(k + 1)
          PROVE  i \in Nat /\ k + 1 - i \in Nat
      OBVIOUS
    <3>6. segment \in Nat /\ n + 1 - segment \in Nat
      BY <3>2, <3>4, <3>5
    <3>7. m + 1 - segment' \in Nat
      BY <3>2, <3>4, <3>5
    <3> QED BY <3>1, <3>3, <3>6, <3>7
  <2>2. UNCHANGED <<kernel, segment>> => ToLoad' = ToLoad
    BY DEF ToLoad
  <2>3. pc \notin {"kernel", "returned"} => StepsLeft > 0
    <3>1. ASSUME pc \in {"exit", "get", "map", "probe", "bi"} PROVE StepsLeft > 0
      BY <3>1 DEF StepsLeft
    <3>2. ASSUME pc \in {"segment", "file", "info", "gop"} PROVE StepsLeft > 0
      BY <2>1, <3>2 DEF StepsLeft
    <3>3. QED
      BY <3>1, <3>2 DEF TypeOK
  <2>4. pc' = "returned" => StepsLeft' = 0
    BY DEF StepsLeft
  <2>5. CASE CallFails
    BY <2>3, <2>4, <2>5 DEF CallFails
  <2>6. CASE LocateGop \/ GetInfo
    BY <2>1, <2>2, <2>6 DEF LocateGop, GetInfo, StepsLeft
  <2>7. CASE ReadFile
    <3>1. pc = "file" /\ pc' \in {"segment", "returned"} /\ ToLoad' = ToLoad
      BY <2>2, <2>7 DEF ReadFile
    <3>2. QED
      BY <2>1, <3>1 DEF StepsLeft
  <2>8. CASE LoadSegment
    <3>1. pc = "segment"
      BY <2>8 DEF LoadSegment
    <3>2. CASE pc' = "returned"
      BY <2>3, <2>4, <3>1, <3>2
    <3>3. CASE segment' = segment + 1 /\ pc' = pc /\ kernel' = kernel
      <4>1. ToLoad' = ToLoad - 1
        <5> DEFINE n == Len(kernel.segments)
        <5>1. ToLoad = n + 1 - segment /\ ToLoad' = n + 1 - (segment + 1)
          BY <3>3 DEF ToLoad
        <5>2. n \in Nat
          BY <2>1
        <5> HIDE DEF n
        <5> QED BY <2>1, <5>1, <5>2
      <4>2. QED
        BY <2>1, <3>1, <3>3, <4>1 DEF StepsLeft
    <3>4. QED
      BY <2>8, <3>2, <3>3 DEF LoadSegment
  <2>9. CASE SetEntry \/ AllocateInfo \/ Probe
    BY <2>1, <2>9 DEF SetEntry, AllocateInfo, Probe, StepsLeft
  <2>10. CASE AllocateMap
    BY <2>10 DEF AllocateMap, StepsLeft
  <2>11. CASE GetMemoryMap
    BY <2>11 DEF GetMemoryMap, StepsLeft
  <2>12. CASE ReplaceMap
    <3>1. mapLen' <= mapLen + Slack
      BY <2>12, MapChange DEF ReplaceMap
    <3>2. mapLen' <= capacity'
      BY <2>12, <3>1 DEF ReplaceMap, NewCapacity
    <3>3. pc = "get" /\ pc' = "get" /\ ~(mapLen <= capacity)
      BY <2>12 DEF ReplaceMap, TypeOK
    <3>4. QED
      BY <3>2, <3>3 DEF StepsLeft
  <2>13. CASE ExitBootServices
    BY <2>13 DEF ExitBootServices, AfterRefusal, StepsLeft
  <2>14. ~Churn /\ ~Finished
    BY DEF Churn, Finished, TypeOK
  <2>15. QED
    BY <2>5, <2>6, <2>7, <2>8, <2>9, <2>10, <2>11, <2>12, <2>13, <2>14 DEF Next, Loader, Proceed
<1>2. QED
  BY <1>1, TypeCorrect, PTL DEF Spec, BootAdvances
=============================================================================
