------------------------------- MODULE MCFat16 ------------------------------
(* An instance of Fat16 for TLC: directories that fill their last sector   *)
(* and that do not, with files before and behind the end mark and in the   *)
(* unused rest, and media that are longer or shorter than the device says, *)
(* all overhead, or no volume.                                             *)
EXTENDS Fat16

File(n) == [kind |-> "file", name |-> n]
Mark(k) == [kind |-> k, name |-> "a"]

B(entries, total) ==
  [ok |-> TRUE, perCluster |-> 2, reserved |-> 1, fats |-> 2, entries |-> entries,
   perFat |-> 1, total |-> total]

Medium(count, start, bpb, dir) == [count |-> count, start |-> start, bpb |-> bpb, dir |-> dir]

MCImages ==
  {Medium(12, 1, B(4, 11), <<Mark("volume"), Mark("deleted"), Mark("long"), File("a")>>),
   Medium(11, 0, B(3, 11), <<File("b"), File("b"), File("a"), File("a")>>),
   Medium(13, 1, B(3, 11), <<Mark("volume"), File("a"), Mark("long"), File("b")>>),
   Medium(12, 1, B(3, 11), <<File("b"), Mark("end"), File("a"), File("a")>>),
   Medium(13, 1, B(3, 12), <<File("a"), File("b"), Mark("end"), File("b")>>),
   Medium(11, 1, B(4, 11), <<File("a"), File("b"), File("a"), File("b")>>),
   Medium(9, 1, B(2, 3), <<File("a"), File("b")>>),
   Medium(7, 0, B(2, 6), <<File("a"), File("b")>>),
   Medium(2, 0, [B(2, 9) EXCEPT !.ok = FALSE], <<File("a"), File("b")>>)}
=============================================================================
