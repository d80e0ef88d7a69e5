----------------------------- MODULE ByteStream -----------------------------
(***************************************************************************)
(* What the callers of net_tcp_connect, net_tcp_read and net_tcp_close can *)
(* rely on: each connection is a stream of its own, whose bytes are handed *)
(* over once and in order.  Bytes are lost only where the receive buffer   *)
(* is full or the connection was closed.  An end of the stream tells       *)
(* nothing: a reset, a time-out and a real end look the same.              *)
(***************************************************************************)
EXTENDS Naturals, Sequences

CONSTANT Capacity    \* of the receive buffer

VARIABLES
  conn,    \* number of the connection
  live,    \* it has not been closed
  next,    \* bytes of its stream that have arrived
  queue,   \* the receive buffer
  taken    \* what the caller has been given

vars == <<conn, live, next, queue, taken>>

(* Bytes i..j of the stream of connection c. *)
Bytes(c, i, j) == [k \in 1..(j - i + 1) |-> <<c, i + k - 1>>]

Init ==
  /\ conn = 0
  /\ live = FALSE
  /\ next = 0
  /\ queue = <<>>
  /\ taken = <<>>

Open ==
  /\ conn' = conn + 1
  /\ live' = TRUE
  /\ next' = 0
  /\ queue' = <<>>
  /\ taken' = <<>>

Receive(kept) ==
  /\ next' \in Nat
  /\ next' > next
  /\ queue' = queue \o Bytes(conn, next + 1, next + kept)
  /\ kept <= next' - next
  /\ kept < next' - next => ~live \/ Len(queue') = Capacity
  /\ UNCHANGED <<conn, live, taken>>

Deliver(n) ==
  /\ taken' = taken \o SubSeq(queue, 1, n)
  /\ queue' = SubSeq(queue, n + 1, Len(queue))
  /\ UNCHANGED <<conn, live, next>>

HangUp ==
  /\ live' = FALSE
  /\ queue' = <<>>
  /\ UNCHANGED <<conn, next, taken>>

Next ==
  \/ Open
  \/ \E kept \in 0..Capacity : Receive(kept)
  \/ \E n \in 1..Len(queue) : Deliver(n)
  \/ HangUp

Spec == Init /\ [][Next]_vars
=============================================================================
