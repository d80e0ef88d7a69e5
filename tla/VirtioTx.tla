------------------------------ MODULE VirtioTx ------------------------------
(***************************************************************************)
(* Transmission by the legacy virtio network driver (kernel/               *)
(* netdev_virtio.c).  All frames go through one buffer and one descriptor; *)
(* the driver publishes them by an index of 16 bits and polls, for a       *)
(* bounded time, the index of what the device has completed.  The device   *)
(* runs beside it: it may begin to read a frame, finish it and complete it *)
(* long after the driver gave up.  Neither the copy into the buffer nor    *)
(* the device's reading of it is one step: the buffer has a head and a     *)
(* tail, each with the number of the frame it was last written from, and   *)
(* the length in the descriptor is written after both.  Frames are         *)
(* numbered in the order they are sent; those of a length tx refuses leave *)
(* no trace.                                                               *)
(***************************************************************************)
EXTENDS Integers, Sequences

CONSTANTS
  Wrap,        \* the indices count modulo this (2^16)
  MaxFrames,   \* bound on the frames sent
  MaxExpired   \* bound on those that time out

ASSUME VirtioAssumption ==
  /\ Wrap \in Nat /\ Wrap > 1
  /\ MaxFrames \in Nat
  /\ MaxExpired \in Nat

VARIABLES
  at,            \* where tx is: idle, drain, copy, publish, wait
  txb_head,      \* the frame the head of the buffer is from, 0 before the first
  txb_tail,      \* and the tail
  desc_len,      \* the frame whose length the descriptor has
  avail_idx,     \* the driver's index in the ring
  tx_used_seen,  \* the last completion the driver took note of
  used_idx,      \* the device's index in the ring
  last_avail,    \* what the device has taken
  fetched,       \* the frame whose head it has read, 0 when it has none
  fetched_len,   \* the frame whose length it goes by, likewise
  wire,          \* what it sent: the frames that length, head and tail are of
  frames,        \* frames published (history)
  confirmed,     \* calls of tx that returned 1 (history)
  expired        \* calls that timed out (history)

buffer == <<txb_head, txb_tail, desc_len>>
device == <<used_idx, last_avail, fetched, fetched_len, wire>>
history == <<frames, confirmed, expired>>
txVars == <<at, buffer, avail_idx, tx_used_seen, device, history>>

(* init; the used index of the ring it has zeroed is 0. *)
TxInit ==
  /\ at = "idle"
  /\ txb_head = 0
  /\ txb_tail = 0
  /\ desc_len = 0
  /\ avail_idx = 0
  /\ tx_used_seen = 0
  /\ used_idx = 0
  /\ last_avail = 0
  /\ fetched = 0
  /\ fetched_len = 0
  /\ wire = << >>
  /\ frames = 0
  /\ confirmed = 0
  /\ expired = 0
-----------------------------------------------------------------------------
Inc(i) == (i + 1) % Wrap

Call ==
  /\ at = "idle"
  /\ frames < MaxFrames
  /\ expired < MaxExpired
  /\ at' = "drain"
  /\ UNCHANGED <<buffer, avail_idx, tx_used_seen, device, history>>

(* Mutant of TurnsSpent: the loop has no limit. *)
NoLimit == FALSE

(* The 200000 turns of the first loop may have passed at any time. *)
TurnsSpent == TRUE

DrainEnds == used_idx = tx_used_seen \/ TurnsSpent

(* The head of the frame is copied into the buffer, *)
CopyHead ==
  /\ at = "drain"
  /\ DrainEnds
  /\ txb_head' = frames + 1
  /\ at' = "copy"
  /\ UNCHANGED <<txb_tail, desc_len, avail_idx, tx_used_seen, device, history>>

(* Mutant of CopyTail: not into a buffer that a late completion is about. *)
CopyTailWhenDrained ==
  /\ at = "copy"
  /\ txb_tail' = IF used_idx = tx_used_seen THEN frames + 1 ELSE txb_tail
  /\ at' = "publish"
  /\ UNCHANGED <<txb_head, desc_len, avail_idx, tx_used_seen, device, history>>

(* and the tail, *)
CopyTail ==
  /\ at = "copy"
  /\ txb_tail' = frames + 1
  /\ at' = "publish"
  /\ UNCHANGED <<txb_head, desc_len, avail_idx, tx_used_seen, device, history>>

(* then the length is set, the entry published and the device notified. *)
Publish ==
  /\ at = "publish"
  /\ desc_len' = frames + 1
  /\ avail_idx' = Inc(avail_idx)
  /\ frames' = frames + 1
  /\ at' = "wait"
  /\ UNCHANGED <<txb_head, txb_tail, tx_used_seen, device, confirmed, expired>>

(* Mutant of Completed: the device is not waited for. *)
NotAwaited == TRUE

Completed == used_idx = Inc(tx_used_seen)

Confirm ==
  /\ at = "wait"
  /\ Completed
  /\ tx_used_seen' = Inc(tx_used_seen)
  /\ confirmed' = confirmed + 1
  /\ at' = "idle"
  /\ UNCHANGED <<buffer, avail_idx, device, frames, expired>>

(* A million turns have passed. *)
Expire ==
  /\ at = "wait"
  /\ ~Completed
  /\ expired' = expired + 1
  /\ at' = "idle"
  /\ UNCHANGED <<buffer, avail_idx, tx_used_seen, device, frames, confirmed>>
-----------------------------------------------------------------------------
(* The device takes the next entry of the ring, which is always descriptor *)
(* 0, and reads its length and the head of the buffer,                     *)
Fetch ==
  /\ fetched = 0
  /\ last_avail # avail_idx
  /\ last_avail' = Inc(last_avail)
  /\ fetched' = txb_head
  /\ fetched_len' = desc_len
  /\ UNCHANGED <<at, buffer, avail_idx, tx_used_seen, used_idx, wire, history>>

(* then the tail, sends the frame and completes the entry. *)
Complete ==
  /\ fetched # 0
  /\ wire' = Append(wire, [len |-> fetched_len, head |-> fetched, tail |-> txb_tail])
  /\ fetched' = 0
  /\ fetched_len' = 0
  /\ used_idx' = Inc(used_idx)
  /\ UNCHANGED <<at, buffer, avail_idx, tx_used_seen, last_avail, history>>

Driver == CopyHead \/ CopyTail \/ Publish \/ Confirm \/ Expire
Device == Fetch \/ Complete

(* No more frames are sent, and the device is through. *)
Quiet ==
  /\ at = "idle"
  /\ frames = MaxFrames \/ expired = MaxExpired
  /\ UNCHANGED txVars

TxNext == Call \/ Driver \/ Device \/ Quiet

(* The loops of tx are bounded; of the device nothing is expected. *)
TxSpec == TxInit /\ [][TxNext]_txVars /\ WF_txVars(Driver)
-----------------------------------------------------------------------------
Sent == [len : Nat, head : Nat, tail : Nat]

TxTypeOK ==
  /\ at \in {"idle", "drain", "copy", "publish", "wait"}
  /\ {avail_idx, tx_used_seen, used_idx, last_avail} \subseteq 0..(Wrap - 1)
  /\ {txb_head, txb_tail, desc_len, fetched, fetched_len} \subseteq Nat
  /\ {frames, confirmed, expired} \subseteq Nat
  /\ wire \in Seq(Sent)

(* As long as no call has timed out, every frame is sent once, in order    *)
(* and in one piece, although there is a single buffer and the device      *)
(* reads it beside the driver.  A time-out may let a later frame replace   *)
(* one, as a whole or in part, and the device then sends mixtures: of two  *)
(* frames while the later one is being copied, or with an old length.      *)
(* What remains is that nothing sent for the i-th entry is older than the  *)
(* i-th frame, that no part ever goes back to an older frame, and that a   *)
(* tail older than its head is of the frame just before.                   *)
WireInOrder ==
  /\ expired = 0 => \A i \in 1..Len(wire) : wire[i] = [len |-> i, head |-> i, tail |-> i]
  /\ \A i \in 1..Len(wire) :
       /\ i <= wire[i].len /\ wire[i].len <= wire[i].head
       /\ i <= wire[i].tail /\ wire[i].head <= wire[i].tail + 1
       /\ \A j \in 1..Len(wire) : i < j =>
            /\ wire[i].len <= wire[j].len
            /\ wire[i].head <= wire[j].head
            /\ wire[i].tail <= wire[j].tail

(* Success is not returned more often than the device has completed        *)
(* frames, and between calls the device is behind by no more frames than   *)
(* have timed out: the ring fills up by timeouts alone.                    *)
DeviceBehind ==
  /\ confirmed <= Len(wire)
  /\ at # "wait" => frames - Len(wire) <= expired

(* Every call returns, even when a late completion has left the used index *)
(* different from the one seen, which no later call puts right by waiting. *)
TxReturns == at # "idle" ~> at = "idle"
=============================================================================
