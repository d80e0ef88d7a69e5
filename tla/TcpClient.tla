------------------------------ MODULE TcpClient ------------------------------
(***************************************************************************)
(* The synchronous TCP client of kernel/net.c: net_tcp_connect, _write,    *)
(* _read, _close and handle_tcp, which runs for every segment that a poll  *)
(* of the driver takes from the receive ring.  There is one connection at  *)
(* a time and nothing is ever retransmitted.                               *)
(*                                                                         *)
(* The peer is external: a TCP that acknowledges what it has received in   *)
(* order.  Whatever it could have sent up to now, for this connection or   *)
(* an earlier one, may arrive at any time, any number of times or never.   *)
(* Bytes of its stream are numbered; a piece of at most 1200 bytes that    *)
(* the client writes counts as one unit of sequence space.                 *)
(***************************************************************************)
EXTENDS Integers, Sequences, FiniteSetsExt

CONSTANTS
  Modulus,     \* of sequence numbers (2^32)
  SizeMod,     \* of size_t (2^64, 2^32 on i686)
  Ports,       \* number of local ports (49152..65535)
  ClientIss,   \* tcp_iss: 0x13570000 plus the tick counter
  PeerIss,     \* initial sequence numbers of peers
  Chunks,      \* pieces of at most 1200 bytes of a request
  BufCap       \* sizeof(tcp_stream_buf)

(* The comparisons of handle_tcp and net_tcp_write are right as long as    *)
(* tcp_snd_nxt does not wrap: 0x13570000 leaves 460 days of ticks at       *)
(* 100 Hz.  Those of received sequence numbers are checked across a wrap.  *)
(* size_t has 32 or 64 bits.                                               *)
ASSUME TcpAssumption ==
  /\ Modulus \in Nat /\ SizeMod \in Nat
  /\ SizeMod = Modulus \/ SizeMod >= 2 * Modulus
  /\ Ports \in Nat \ {0} /\ Chunks \in Nat \ {0} /\ BufCap \in Nat \ {0}
  /\ ClientIss \in Nat /\ ClientIss + Chunks + 2 < Modulus
  /\ PeerIss \subseteq 0..(Modulus - 1) /\ PeerIss # {}

VARIABLES
  pc,       \* where the caller of the four functions stands
  conn,     \* connections begun
  lport,    \* tcp_local_port
  event,    \* tcp_event
  sndNxt, sndUna, rcvNxt,
  buf,      \* tcp_out[0 .. tcp_out_len - 1]
  cap,      \* tcp_out_cap
  written,  \* net_tcp_write: off, in pieces
  peer,     \* the peer of the connection
  ports     \* local ports of all connections (history)

tcpVars == <<conn, lport, event, sndNxt, sndUna, rcvNxt, buf, cap, written, peer, ports>>

Wrap(n) == n % Modulus

Peer == [state : {"none", "syn", "open"}, iss : PeerIss, got : Nat, len : Nat]
NewPeer == [state |-> "none", iss |-> CHOOSE i \in PeerIss : TRUE, got |-> 0, len |-> 0]

TcpInit ==
  /\ conn = 0
  /\ lport = 0
  /\ event = 0
  /\ sndNxt = 0
  /\ sndUna = 0
  /\ rcvNxt = 0
  /\ buf = <<>>
  /\ cap = 0
  /\ written = 0
  /\ peer = NewPeer
  /\ ports = <<>>
-----------------------------------------------------------------------------
(* Peers.                                                                  *)

Segment(c, seq, ack, flags, data) ==
  [port |-> ports[c], seq |-> Wrap(seq), ack |-> ack, flags |-> flags, data |-> data]

Data(c, i, j) == [k \in 1..(j - i + 1) |-> <<c, i + k - 1>>]

(* Every acknowledgement that was true at some time. *)
Acks == {ClientIss + 1 + g : g \in 0..peer.got}

(* Acknowledgements, any part of the stream, and the end of it with a FIN. *)
PureAcks == {Segment(conn, peer.iss, a, {"ACK"}, <<>>) : a \in Acks}

PartsFrom(i) ==
  {Segment(conn, peer.iss + i, a, {"ACK"}, Data(conn, i, j)) : a \in Acks, j \in i..peer.len}

Parts == UNION {PartsFrom(i) : i \in 1..peer.len}

Ends ==
  {Segment(conn, peer.iss + i, a, {"FIN", "ACK"}, Data(conn, i, peer.len)) :
     a \in Acks, i \in 1..(peer.len + 1)}

(* What the peer may have sent: resets at any time, its SYN once it has    *)
(* that of the client, then the rest.                                      *)
Segments ==
  {Segment(conn, peer.iss, ClientIss + 1, {"RST", "ACK"}, <<>>)}
  \cup (IF peer.state = "none" THEN {}
        ELSE {Segment(conn, peer.iss, ClientIss + 1, {"SYN", "ACK"}, <<>>)})
  \cup (IF peer.state # "open" THEN {} ELSE PureAcks \cup Parts \cup Ends)

(* Segments of earlier connections: their numbers may be any. *)
LateSegments ==
  {Segment(c, seq, ClientIss + 1, {"ACK"}, Data(c, 1, 1)) :
     c \in 1..(conn - 1), seq \in 0..(Modulus - 1)}

(* The SYN arrives at a listening peer, which will send len bytes. *)
PeerAccepts(len) ==
  /\ conn > 0
  /\ peer.state = "none"
  /\ \E i \in PeerIss :
       peer' = [peer EXCEPT !.state = "syn", !.iss = i, !.len = len]
  /\ UNCHANGED <<pc, conn, lport, event, sndNxt, sndUna, rcvNxt, buf, cap, written, ports>>

(* The next unit the client has sent arrives. *)
PeerReceives ==
  /\ peer.state = "open"
  /\ ClientIss + 1 + peer.got < sndNxt
  /\ peer' = [peer EXCEPT !.got = @ + 1]
  /\ UNCHANGED <<pc, conn, lport, event, sndNxt, sndUna, rcvNxt, buf, cap, written, ports>>
-----------------------------------------------------------------------------
(* handle_tcp.                                                             *)

AckedBy(s) ==
  IF "ACK" \in s.flags /\ s.ack >= sndUna /\ s.ack <= sndNxt THEN s.ack ELSE sndUna

IsSynAck(s) == {"SYN", "ACK"} \subseteq s.flags /\ event = 1 /\ s.ack = sndNxt

Establish(s) ==
  /\ IsSynAck(s)
  /\ rcvNxt' = Wrap(s.seq + 1)
  /\ event' = 2
  /\ peer' = [peer EXCEPT !.state = "open"]   \* by the ACK sent here
  /\ UNCHANGED buf

Reset(s) ==
  /\ ~IsSynAck(s)
  /\ "RST" \in s.flags
  /\ event' = -1
  /\ UNCHANGED <<rcvNxt, buf, peer>>

(* Mutant of InOrder: a segment that overlaps what has arrived is taken. *)
InOrderOverlap(s) == s.data # <<>> /\ s.seq <= rcvNxt

InOrder(s) == s.data # <<>> /\ s.seq = rcvNxt

(* Mutant of Room: what is buffered already is not subtracted. *)
RoomWhole == cap

Room == IF cap > Len(buf) THEN cap - Len(buf) ELSE 0

(* Data in order is copied as far as there is room and acknowledged as a   *)
(* whole.  A FIN ends the stream wherever it stands; seq + data_len is a   *)
(* size_t and does not wrap with tcp_rcv_nxt where that is wider.          *)
Accept(s) ==
  LET n == Len(s.data)
      nxt == IF InOrder(s) THEN Wrap(rcvNxt + n) ELSE rcvNxt
  IN  /\ ~IsSynAck(s)
      /\ "RST" \notin s.flags
      /\ buf' = IF InOrder(s) THEN buf \o SubSeq(s.data, 1, Min({n, Room})) ELSE buf
      /\ rcvNxt' = IF "FIN" \in s.flags /\ (s.seq + n) % SizeMod = nxt
                   THEN Wrap(nxt + 1) ELSE nxt
      /\ event' = IF "FIN" \in s.flags THEN 4 ELSE IF InOrder(s) THEN 3 ELSE event
      /\ UNCHANGED peer

OwnSegment(s) == s.port = lport

HandleTcp(s) ==
  /\ OwnSegment(s)
  /\ sndUna' = AckedBy(s)
  /\ Establish(s) \/ Reset(s) \/ Accept(s)
  /\ UNCHANGED <<pc, conn, lport, sndNxt, cap, written, ports>>

(* net_poll runs in the waiting loops, and in the main loop between calls. *)
Polling == pc \in {"idle", "connect", "write", "poll", "close"}

Arrive ==
  /\ Polling
  /\ conn > 0
  /\ \E s \in Segments \cup LateSegments : HandleTcp(s)
-----------------------------------------------------------------------------
(* The four functions.  A time-out may strike wherever the code tests one. *)

NextPort(p) == (p + 1) % Ports

(* net_tcp_connect once the address and the next hop are known. *)
Connect ==
  /\ conn' = conn + 1
  /\ lport' = NextPort(lport)
  /\ event' = 1
  /\ sndNxt' = ClientIss + 1
  /\ sndUna' = ClientIss
  /\ rcvNxt' = 0
  /\ buf' = <<>>
  /\ cap' = BufCap
  /\ written' = 0
  /\ peer' = NewPeer
  /\ ports' = Append(ports, lport')

Connected == pc = "connect" /\ event = 2
ConnectFails == pc = "connect" /\ event # 2

SendChunk ==
  /\ pc = "send"
  /\ written < Chunks
  /\ sndNxt' = sndNxt + 1
  /\ pc' = "write"
  /\ UNCHANGED <<conn, lport, event, sndUna, rcvNxt, buf, cap, written, peer, ports>>

(* Mutant of ChunkAcked: the number before the piece was sent. *)
ChunkAckedBefore == sndUna >= sndNxt - 1

ChunkAcked == sndUna >= sndNxt

ChunkSent ==
  /\ pc = "write"
  /\ ChunkAcked
  /\ written' = written + 1
  /\ pc' = "send"
  /\ UNCHANGED <<conn, lport, event, sndNxt, sndUna, rcvNxt, buf, cap, peer, ports>>

(* A time-out or a reset. *)
WriteFails == pc = "write" /\ ~ChunkAcked

Written == pc = "send" /\ written = Chunks

(* net_tcp_read: what is buffered, else the end, else another poll. *)
ReadBytes(n) ==
  /\ n <= Len(buf)
  /\ buf' = SubSeq(buf, n + 1, Len(buf))
  /\ UNCHANGED <<conn, lport, event, sndNxt, sndUna, rcvNxt, cap, written, peer, ports>>

ReadEnds == pc = "read" /\ buf = <<>>     \* reset, FIN or time-out

ReadPolls ==
  /\ pc = "read"
  /\ buf = <<>>
  /\ event \notin {-1, 4}
  /\ pc' = "poll"
  /\ UNCHANGED tcpVars

PollReturns ==
  /\ pc = "poll"
  /\ pc' = "read"
  /\ UNCHANGED tcpVars

(* net_tcp_close. *)
SendFin ==
  /\ pc = "closing"
  /\ event >= 2 /\ event # 4
  /\ sndNxt' = sndNxt + 1
  /\ pc' = "close"
  /\ UNCHANGED <<conn, lport, event, sndUna, rcvNxt, buf, cap, written, peer, ports>>

Closable == pc = "close" \/ (pc = "closing" /\ ~(event >= 2 /\ event # 4))

Closed ==
  /\ event' = 0
  /\ buf' = <<>>
  /\ cap' = 0
  /\ UNCHANGED <<conn, lport, sndNxt, sndUna, rcvNxt, written, peer, ports>>
-----------------------------------------------------------------------------
(* Bytes of the current peer's stream that have arrived (the FIN has a     *)
(* sequence number of its own).                                            *)
Arrived ==
  IF peer.state # "open" THEN 0
  ELSE Min({peer.len, Wrap(rcvNxt + Modulus - peer.iss - 1)})

TcpTypeOK ==
  /\ conn \in Nat
  /\ lport \in 0..(Ports - 1)
  /\ event \in -1..4
  /\ {sndNxt, sndUna, rcvNxt} \subseteq 0..(Modulus - 1)
  /\ Len(buf) <= BufCap
  /\ cap \in {0, BufCap}
  /\ written \in 0..Chunks
  /\ peer \in Peer
  /\ Len(ports) = conn

(* net_tcp_write reports success only if the peer has received every piece *)
(* of the request, although nothing is retransmitted and acknowledgements  *)
(* are late, doubled or lost.                                              *)
WriteReached == Written => peer.got >= Chunks
=============================================================================
