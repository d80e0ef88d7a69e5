------------------------------ MODULE MCInstall -----------------------------
(* An instance of Install for TLC: media whose block sizes divide each     *)
(* other, do not, and have no common multiple below the limit; a drive     *)
(* that is no install medium; disks too small, write protected,            *)
(* partitions, not answering, absent or with a block size of zero.         *)
EXTENDS Install

Medium(block, blocks) == [present |-> TRUE, readOnly |-> TRUE, block |-> block, blocks |-> blocks]

MCSourceMedia ==
  {Medium(2, 6), Medium(1, 7), Medium(2, 7), Medium(0, 1),
   [Medium(2, 1) EXCEPT !.readOnly = FALSE]}

Whole(block, blocks) ==
  [io |-> TRUE, present |-> TRUE, readOnly |-> FALSE, partition |-> FALSE,
   block |-> block, blocks |-> blocks]

MCDiskMedia ==
  {Whole(1, 14), Whole(3, 5), Whole(4, 3), Whole(7, 2), Whole(2, 5), Whole(0, 1),
   [Whole(1, 14) EXCEPT !.readOnly = TRUE],
   [Whole(1, 14) EXCEPT !.partition = TRUE],
   [Whole(1, 14) EXCEPT !.present = FALSE],
   [Whole(1, 14) EXCEPT !.io = FALSE]}
=============================================================================
