---------------------------- MODULE HttpGetProofs ----------------------------
(***************************************************************************)
(* Proofs about the TCP client and net_http_get, for any sequence number   *)
(* space, any sizes of the buffers and of the responses, and any peers.    *)
(***************************************************************************)
EXTENDS HttpGet, SequenceTheorems, TLAPS

-----------------------------------------------------------------------------
(* Sequence numbers.                                                       *)

LEMMA ModulusType == Modulus \in Nat /\ Modulus > 2
BY TcpAssumption

LEMMA WrapSmall ==
  ASSUME NEW t \in Nat, t < 2 * Modulus
  PROVE  Wrap(t) = IF t < Modulus THEN t ELSE t - Modulus
<1>1. Modulus \in Nat /\ Modulus > 0
  BY ModulusType
<1>2. CASE t < Modulus
  BY <1>1, <1>2 DEF Wrap
<1>3. CASE ~(t < Modulus)
  <2>1. t - Modulus \in 0..(Modulus - 1)
    BY <1>1, <1>3
  <2>2. t % Modulus = (t - Modulus) % Modulus
    BY <1>1, <2>1
  <2> QED BY <1>1, <1>3, <2>1, <2>2 DEF Wrap
<1> QED BY <1>2, <1>3

(* How far number r is behind the SYN of a peer: the bytes that have been  *)
(* taken, and the FIN.                                                     *)
Offset(r, iss) == Wrap(r + Modulus - iss - 1)

LEMMA OffsetType ==
  ASSUME NEW r \in 0..(Modulus - 1), NEW iss \in 0..(Modulus - 1)
  PROVE  /\ Offset(r, iss) = IF r > iss THEN r - iss - 1 ELSE r + Modulus - iss - 1
         /\ Offset(r, iss) \in 0..(Modulus - 1)
<1>1. Modulus \in Nat /\ Modulus > 2
  BY ModulusType
<1> DEFINE t == r + Modulus - iss - 1
<1>2. t \in Nat /\ t < 2 * Modulus
  BY <1>1
<1>3. Offset(r, iss) = Wrap(t)
  BY DEF Offset
<1> HIDE DEF t
<1>4. Wrap(t) = IF t < Modulus THEN t ELSE t - Modulus
  BY <1>2, WrapSmall
<1> QED BY <1>1, <1>3, <1>4 DEF t

(* A segment begins at r exactly if it begins at the next byte. *)
LEMMA OffsetNext ==
  ASSUME NEW r \in 0..(Modulus - 1), NEW iss \in 0..(Modulus - 1), NEW i \in 0..(Modulus - 1), i > 0
  PROVE  /\ Wrap(iss + i) \in 0..(Modulus - 1)
         /\ Wrap(iss + i) = r <=> i = Offset(r, iss) + 1
<1>1. Modulus \in Nat /\ Modulus > 2
  BY ModulusType
<1> DEFINE t == iss + i
<1>2. t \in Nat /\ t < 2 * Modulus
  BY <1>1
<1> HIDE DEF t
<1>3. Wrap(t) = IF t < Modulus THEN t ELSE t - Modulus
  BY <1>2, WrapSmall
<1>4. Offset(r, iss) = IF r > iss THEN r - iss - 1 ELSE r + Modulus - iss - 1
  BY OffsetType
<1>5. Wrap(t) \in 0..(Modulus - 1) /\ (Wrap(t) = r <=> i = Offset(r, iss) + 1)
  BY <1>1, <1>3, <1>4 DEF t
<1> QED BY <1>5 DEF t

LEMMA OffsetMoves ==
  ASSUME NEW r \in 0..(Modulus - 1), NEW iss \in 0..(Modulus - 1), NEW n \in Nat,
         Offset(r, iss) + n < Modulus
  PROVE  /\ Wrap(r + n) \in 0..(Modulus - 1)
         /\ Offset(Wrap(r + n), iss) = Offset(r, iss) + n
<1> DEFINE o == Offset(r, iss)
           t == r + n
           w == Wrap(t)
<1>1. Modulus \in Nat /\ Modulus > 2
  BY ModulusType
<1>2. o = (IF r > iss THEN r - iss - 1 ELSE r + Modulus - iss - 1) /\ o \in 0..(Modulus - 1)
  BY OffsetType
<1>3. n < Modulus /\ o + n < Modulus
  BY <1>1, <1>2
<1>4. t \in Nat /\ t < 2 * Modulus
  BY <1>1, <1>3
<1> HIDE DEF o, t
<1>5. w = IF t < Modulus THEN t ELSE t - Modulus
  BY <1>4, WrapSmall
<1> HIDE DEF w
<1>6. w \in 0..(Modulus - 1)
  BY <1>1, <1>3, <1>5 DEF t
<1>7. Offset(w, iss) = IF w > iss THEN w - iss - 1 ELSE w + Modulus - iss - 1
  BY <1>6, OffsetType
<1>8. Offset(w, iss) = o + n
  BY <1>1, <1>2, <1>3, <1>5, <1>7 DEF t
<1> QED BY <1>6, <1>8 DEF o, t, w

LEMMA MinTwo ==
  ASSUME NEW a \in Int, NEW b \in Int
  PROVE  Min({a, b}) = IF a <= b THEN a ELSE b
<1>1. PICK m \in {a, b} : \A y \in {a, b} : m <= y
  <2>1. CASE a <= b
    BY <2>1
  <2>2. CASE b <= a
    BY <2>2
  <2> QED BY <2>1, <2>2
<1>2. Min({a, b}) \in {a, b} /\ \A y \in {a, b} : Min({a, b}) <= y
  BY <1>1 DEF Min
<1> QED BY <1>2
-----------------------------------------------------------------------------
(* The inductive invariant.                                                *)

Byte == Nat \X Nat

Typing ==
  /\ TypeOK
  /\ buf \in Seq(Byte)
  /\ raw \in Seq(Byte)
  /\ ports \in Seq(Nat)

(* net_tcp_write: the client has numbered the pieces it sent, and no more  *)
(* is acknowledged than the peer has received.                             *)
CountInv ==
  /\ sndUna <= ClientIss + 1 + peer.got
  /\ pc = "connect" => sndNxt = ClientIss + 1 /\ written = 0
  /\ pc = "send" => sndNxt = ClientIss + 1 + written /\ peer.got >= written
  /\ pc = "write" => sndNxt = ClientIss + 2 + written /\ written < Chunks
  /\ pc \in {"read", "poll", "closing"} => sndNxt <= ClientIss + 1 + Chunks
  /\ sndNxt <= ClientIss + 2 + Chunks

(* net_http_get: once a request was secure, so is the next. *)
ReqInv ==
  /\ Len(reqs) <= redirect + 1
  /\ pc = "request" => Len(reqs) <= redirect
  /\ \A i \in 1..Len(reqs) : reqs[i] => secure
  /\ NoDowngrade

(* No two connections have the same local port. *)
PortOf(c) == IF c = Ports THEN 0 ELSE c

PortInv ==
  /\ conn <= MaxConn
  /\ lport = PortOf(conn)
  /\ \A c \in 1..conn : ports[c] = PortOf(c)

(* What the client knows of the peer: the handshake is over wherever bytes *)
(* are read, the sequence number stands for bytes of the peer's stream, of *)
(* its FIN at most, and the stream is the response.                        *)
Busy == pc \notin {"idle", "request"}

PeerInv ==
  /\ event = 1 => peer.state # "open"
  /\ event \in {2, 3, 4} => peer.state = "open"
  /\ pc \in {"send", "write", "read", "poll", "closing", "close", "judge"} => peer.state = "open"
  /\ peer.len + 1 < Modulus
  /\ peer.state = "open" => Offset(rcvNxt, peer.iss) <= peer.len + 1
  /\ Busy /\ peer.state # "none" => peer.len = StreamLen(resp)

(* Byte number k of the stream, where it stands in what the caller has     *)
(* been given or will be: no earlier than the k-th place, and later only   *)
(* by bytes that were lost.                                                *)
Lost == Arrived - Len(raw) - Len(buf)

Placed(c, s, before, lost) ==
  \A i \in 1..Len(s) :
    s[i][1] = c /\ before + i <= s[i][2] /\ s[i][2] <= before + i + lost

PosInv ==
  /\ Lost >= 0
  /\ Placed(conn, raw, 0, Lost)
  /\ Placed(conn, buf, Len(raw), Lost)

(* A response that came over TLS is only judged when it is complete. *)
ToJudge == pc = "judge" \/ (pc \in {"closing", "close"} /\ then = "judge")

JudgeInv == ToJudge /\ secure => TlsComplete

Inv == Typing /\ CountInv /\ ReqInv /\ PortInv /\ PeerInv /\ PosInv /\ JudgeInv /\ BodyWhole
-----------------------------------------------------------------------------
(* Segments.                                                               *)

LEMMA TcpTypes ==
  ASSUME Typing
  PROVE  /\ conn \in Nat /\ event \in -1..4 /\ cap \in {0, BufCap}
         /\ sndNxt \in 0..(Modulus - 1) /\ sndUna \in 0..(Modulus - 1) /\ rcvNxt \in 0..(Modulus - 1)
         /\ peer.state \in {"none", "syn", "open"} /\ peer.iss \in PeerIss
         /\ peer.iss \in 0..(Modulus - 1) /\ peer.got \in Nat /\ peer.len \in Nat
         /\ peer = [state |-> peer.state, iss |-> peer.iss, got |-> peer.got, len |-> peer.len]
         /\ buf \in Seq(Byte) /\ Len(buf) \in Nat /\ Len(buf) <= BufCap
         /\ raw \in Seq(Byte) /\ Len(raw) \in Nat /\ Len(raw) <= RawCap
         /\ BufCap \in Nat \ {0} /\ RawCap \in Nat \ {0}
<1>1. TcpTypeOK /\ Len(raw) <= RawCap /\ buf \in Seq(Byte) /\ raw \in Seq(Byte)
  BY DEF Typing, TypeOK
<1>2. peer \in Peer
  BY <1>1 DEF TcpTypeOK
<1>3. /\ peer.state \in {"none", "syn", "open"} /\ peer.iss \in PeerIss
      /\ peer.got \in Nat /\ peer.len \in Nat
      /\ peer = [state |-> peer.state, iss |-> peer.iss, got |-> peer.got, len |-> peer.len]
  BY <1>2 DEF Peer
<1>4. peer.iss \in 0..(Modulus - 1)
  BY <1>3, TcpAssumption
<1>5. BufCap \in Nat \ {0} /\ RawCap \in Nat \ {0}
  BY TcpAssumption, HttpAssumption
<1>6. /\ conn \in Nat /\ event \in -1..4 /\ cap \in {0, BufCap} /\ Len(buf) <= BufCap
      /\ sndNxt \in 0..(Modulus - 1) /\ sndUna \in 0..(Modulus - 1) /\ rcvNxt \in 0..(Modulus - 1)
  BY <1>1 DEF TcpTypeOK
<1>7. Len(buf) \in Nat /\ Len(raw) \in Nat
  BY <1>1, LenProperties
<1> QED BY <1>1, <1>3, <1>4, <1>5, <1>6, <1>7

LEMMA DataType ==
  ASSUME NEW c \in Nat, NEW i \in Nat, NEW j \in Nat, i > 0, i <= j + 1
  PROVE  /\ Data(c, i, j) \in Seq(Byte)
         /\ Len(Data(c, i, j)) = j - i + 1
         /\ \A k \in 1..(j - i + 1) : Data(c, i, j)[k] = <<c, i + k - 1>>
<1> DEFINE n == j - i + 1
<1>1. n \in Nat
  OBVIOUS
<1>2. \A k \in 1..n : <<c, i + k - 1>> \in Byte
  BY DEF Byte
<1>3. Data(c, i, j) = [k \in 1..n |-> <<c, i + k - 1>>]
  BY DEF Data
<1> HIDE DEF n
<1>4. Data(c, i, j) \in [1..n -> Byte]
  BY <1>2, <1>3
<1>5. Data(c, i, j) \in Seq(Byte)
  BY <1>1, <1>4, SeqDef
<1>6. Len(Data(c, i, j)) = n
  BY <1>1, <1>4, <1>5, LenProperties
<1>7. \A k \in 1..n : Data(c, i, j)[k] = <<c, i + k - 1>>
  BY <1>3
<1> QED BY <1>5, <1>6, <1>7 DEF n

(* A segment without data, and one with a part of the stream. *)
Plain(s) ==
  /\ s.data = <<>> /\ "FIN" \notin s.flags /\ s.seq = Wrap(peer.iss)
  /\ "SYN" \in s.flags => peer.state # "none"

Carries(s, i, j) ==
  /\ peer.state = "open"
  /\ i \in 1..(peer.len + 1) /\ j \in 0..peer.len /\ i <= j + 1
  /\ s.seq = Wrap(peer.iss + i) /\ s.data = Data(conn, i, j)
  /\ "SYN" \notin s.flags /\ "RST" \notin s.flags
  /\ "FIN" \in s.flags => j = peer.len

(* What comes from an earlier connection has another port. *)
LEMMA LateIsForeign ==
  ASSUME Inv, NEW s \in LateSegments
  PROVE  ~OwnSegment(s)
<1>1. PICK c \in 1..(conn - 1), seq \in 0..(Modulus - 1) :
        s = Segment(c, seq, ClientIss + 1, {"ACK"}, Data(c, 1, 1))
  BY DEF LateSegments
<1>2. conn \in Nat /\ conn <= Ports /\ Ports \in Nat
  <2>1. conn \in Nat /\ conn <= MaxConn
    BY TcpTypes DEF Inv, PortInv
  <2>2. Ports \in Nat /\ MaxConn \in 0..Ports
    BY TcpAssumption, HttpAssumption
  <2> QED BY <2>1, <2>2
<1>3. s.port = ports[c]
  BY <1>1 DEF Segment
<1>4. c \in 1..conn /\ c # Ports /\ c # conn
  BY <1>1, <1>2
<1>5. s.port = c /\ lport = PortOf(conn)
  BY <1>3, <1>4 DEF Inv, PortInv, PortOf
<1> QED BY <1>1, <1>2, <1>4, <1>5 DEF OwnSegment, PortOf

LEMMA SegmentKinds ==
  ASSUME Inv, NEW s \in Segments \cup LateSegments, OwnSegment(s)
  PROVE  /\ s.ack \in Nat /\ s.ack <= ClientIss + 1 + peer.got
         /\ Plain(s) \/ \E i, j \in Nat : Carries(s, i, j)
<1>1. ClientIss \in Nat /\ peer.got \in Nat /\ peer.len \in Nat
  BY TcpTypes, TcpAssumption DEF Inv
<1>2. s \in Segments
  BY LateIsForeign
<1>3. \/ s = Segment(conn, peer.iss, ClientIss + 1, {"RST", "ACK"}, <<>>)
      \/ /\ peer.state # "none"
         /\ s = Segment(conn, peer.iss, ClientIss + 1, {"SYN", "ACK"}, <<>>)
      \/ \E g \in 0..peer.got : s = Segment(conn, peer.iss, ClientIss + 1 + g, {"ACK"}, <<>>)
      \/ /\ peer.state = "open"
         /\ \E g \in 0..peer.got, i \in 1..peer.len : \E j \in i..peer.len :
              s = Segment(conn, peer.iss + i, ClientIss + 1 + g, {"ACK"}, Data(conn, i, j))
      \/ /\ peer.state = "open"
         /\ \E g \in 0..peer.got, i \in 1..(peer.len + 1) :
              s = Segment(conn, peer.iss + i, ClientIss + 1 + g, {"FIN", "ACK"}, Data(conn, i, peer.len))
  <2>1. \/ s = Segment(conn, peer.iss, ClientIss + 1, {"RST", "ACK"}, <<>>)
        \/ /\ peer.state # "none"
           /\ s = Segment(conn, peer.iss, ClientIss + 1, {"SYN", "ACK"}, <<>>)
        \/ peer.state = "open" /\ s \in PureAcks
        \/ peer.state = "open" /\ s \in Parts
        \/ peer.state = "open" /\ s \in Ends
    BY <1>2 DEF Segments
  <2>2. s \in PureAcks =>
          \E g \in 0..peer.got : s = Segment(conn, peer.iss, ClientIss + 1 + g, {"ACK"}, <<>>)
    BY DEF PureAcks, Acks
  <2>3. s \in Parts =>
          \E g \in 0..peer.got, i \in 1..peer.len : \E j \in i..peer.len :
            s = Segment(conn, peer.iss + i, ClientIss + 1 + g, {"ACK"}, Data(conn, i, j))
    BY DEF Parts, PartsFrom, Acks
  <2>4. s \in Ends =>
          \E g \in 0..peer.got, i \in 1..(peer.len + 1) :
            s = Segment(conn, peer.iss + i, ClientIss + 1 + g, {"FIN", "ACK"}, Data(conn, i, peer.len))
    BY DEF Ends, Acks
  <2> QED BY <2>1, <2>2, <2>3, <2>4
<1>4. CASE s = Segment(conn, peer.iss, ClientIss + 1, {"RST", "ACK"}, <<>>)
  BY <1>1, <1>4 DEF Segment, Plain
<1>5. CASE /\ peer.state # "none"
           /\ s = Segment(conn, peer.iss, ClientIss + 1, {"SYN", "ACK"}, <<>>)
  BY <1>1, <1>5 DEF Segment, Plain
<1>6. ASSUME NEW g \in 0..peer.got, s = Segment(conn, peer.iss, ClientIss + 1 + g, {"ACK"}, <<>>)
      PROVE  s.ack \in Nat /\ s.ack <= ClientIss + 1 + peer.got /\ Plain(s)
  BY <1>1, <1>6 DEF Segment, Plain
<1>7. ASSUME peer.state = "open",
             NEW g \in 0..peer.got, NEW i \in 1..peer.len, NEW j \in i..peer.len,
             s = Segment(conn, peer.iss + i, ClientIss + 1 + g, {"ACK"}, Data(conn, i, j))
      PROVE  /\ s.ack \in Nat /\ s.ack <= ClientIss + 1 + peer.got
             /\ i \in Nat /\ j \in Nat /\ Carries(s, i, j)
  BY <1>1, <1>7 DEF Segment, Carries
<1>8. ASSUME peer.state = "open",
             NEW g \in 0..peer.got, NEW i \in 1..(peer.len + 1),
             s = Segment(conn, peer.iss + i, ClientIss + 1 + g, {"FIN", "ACK"}, Data(conn, i, peer.len))
      PROVE  /\ s.ack \in Nat /\ s.ack <= ClientIss + 1 + peer.got
             /\ i \in Nat /\ Carries(s, i, peer.len)
  BY <1>1, <1>8 DEF Segment, Carries
<1> QED BY <1>1, <1>3, <1>4, <1>5, <1>6, <1>7, <1>8
-----------------------------------------------------------------------------
(* handle_tcp.                                                             *)

(* Arrived, for any state. *)
Reached(r, p) == IF p.state # "open" THEN 0 ELSE Min({p.len, Offset(r, p.iss)})

LEMMA ArrivedReached == Arrived = Reached(rcvNxt, peer)
BY DEF Arrived, Reached, Offset

LEMMA ReachedIs ==
  ASSUME NEW r \in 0..(Modulus - 1), NEW p, p.iss \in 0..(Modulus - 1), p.len \in Nat
  PROVE  /\ p.state # "open" => Reached(r, p) = 0
         /\ p.state = "open" =>
              Reached(r, p) = IF p.len <= Offset(r, p.iss) THEN p.len ELSE Offset(r, p.iss)
         /\ Reached(r, p) \in Nat /\ Reached(r, p) <= p.len
<1>1. Offset(r, p.iss) \in 0..(Modulus - 1) /\ Modulus \in Nat
  BY OffsetType, ModulusType
<1>2. Min({p.len, Offset(r, p.iss)}) = IF p.len <= Offset(r, p.iss) THEN p.len ELSE Offset(r, p.iss)
  BY <1>1, MinTwo
<1> QED BY <1>1, <1>2 DEF Reached

(* size_t is as wide as a sequence number or at least twice its range: the *)
(* end of a segment is at nxt only if it is so in sequence numbers.        *)
LEMMA FinAt ==
  ASSUME NEW q \in 0..(Modulus - 1), NEW n \in Nat, n < Modulus, NEW nxt \in 0..(Modulus - 1),
         (q + n) % SizeMod = nxt
  PROVE  Wrap(q + n) = nxt
<1>1. Modulus \in Nat /\ Modulus > 2 /\ SizeMod \in Nat
  BY ModulusType, TcpAssumption
<1>2. CASE SizeMod = Modulus
  BY <1>2 DEF Wrap
<1>3. CASE SizeMod >= 2 * Modulus
  <2>1. q + n \in 0..(SizeMod - 1)
    BY <1>1, <1>3
  <2>2. (q + n) % SizeMod = q + n
    BY <1>1, <2>1
  <2>3. q + n = nxt
    BY <2>2
  <2>4. nxt % Modulus = nxt
    BY <1>1
  <2> QED BY <2>3, <2>4 DEF Wrap
<1> QED BY <1>2, <1>3, TcpAssumption

(* A FIN is only counted behind the last byte of the stream. *)
LEMMA FinBehindLast ==
  ASSUME NEW iss \in 0..(Modulus - 1), NEW L \in Nat, L + 1 < Modulus, NEW i \in 1..(L + 1),
         NEW nxt \in 0..(Modulus - 1), (Wrap(iss + i) + (L - i + 1)) % SizeMod = nxt
  PROVE  Offset(nxt, iss) = L
<1> DEFINE q == Wrap(iss + i)
           n == L - i + 1
<1>1. Modulus \in Nat /\ Modulus > 2 /\ i \in 0..(Modulus - 1) /\ i > 0
  BY ModulusType
<1>2. q \in 0..(Modulus - 1)
  BY <1>1, OffsetNext
<1>3. i = Offset(q, iss) + 1
  BY <1>1, <1>2, OffsetNext
<1>4. n \in Nat /\ n < Modulus
  BY <1>1
<1> HIDE DEF q
<1>5. Wrap(q + n) = nxt
  <2> HIDE DEF n
  <2>1. (q + n) % SizeMod = nxt
    BY DEF q, n
  <2> QED BY <1>2, <1>4, <2>1, FinAt
<1>6. Offset(q, iss) \in 0..(Modulus - 1)
  BY <1>2, OffsetType
<1>7. Offset(q, iss) + n = L
  BY <1>1, <1>3, <1>6
<1> HIDE DEF n
<1>8. Offset(Wrap(q + n), iss) = Offset(q, iss) + n
  BY <1>1, <1>2, <1>4, <1>7, OffsetMoves
<1> QED BY <1>5, <1>7, <1>8

(* What a segment does to the stream: nothing, or the bytes that follow    *)
(* the last one are taken as far as there is room.                         *)
Takes(j) ==
  /\ peer.state = "open" /\ peer' = peer
  /\ j \in (Arrived + 1)..peer.len
  /\ Arrived' = j
  /\ buf' = buf \o SubSeq(Data(conn, Arrived + 1, j), 1, Min({j - Arrived, Room}))

StreamStep ==
  \/ buf' = buf /\ Arrived' = Arrived
  \/ \E j \in Nat : Takes(j)

PeerStep ==
  /\ rcvNxt' \in 0..(Modulus - 1)
  /\ \/ peer' = peer
     \/ peer.state # "none" /\ event = 1 /\ event' = 2 /\ peer' = [peer EXCEPT !.state = "open"]
  /\ event' \in -1..4
  /\ event' = 1 => event = 1 /\ peer' = peer
  /\ event' \in {2, 3, 4} => peer'.state = "open"
  /\ peer'.state = "open" => Offset(rcvNxt', peer.iss) <= peer.len + 1

LEMMA EstablishStep ==
  ASSUME Inv, NEW s, Plain(s) \/ \E i, j \in Nat : Carries(s, i, j), Establish(s)
  PROVE  StreamStep /\ PeerStep
<1>1. Plain(s) /\ event = 1
  BY DEF Establish, IsSynAck, Carries
<1>2. /\ peer.state \in {"none", "syn", "open"} /\ peer.iss \in 0..(Modulus - 1)
      /\ peer.len \in Nat /\ rcvNxt \in 0..(Modulus - 1)
      /\ peer = [state |-> peer.state, iss |-> peer.iss, got |-> peer.got, len |-> peer.len]
  BY TcpTypes DEF Inv
<1>3. peer.state = "syn"
  BY <1>1, <1>2 DEF Inv, PeerInv, Plain, Establish, IsSynAck
<1>4. /\ peer' = [peer EXCEPT !.state = "open"] /\ event' = 2 /\ buf' = buf
      /\ rcvNxt' = Wrap(s.seq + 1)
  BY DEF Establish
<1>5. peer' = [state |-> "open", iss |-> peer.iss, got |-> peer.got, len |-> peer.len]
  BY <1>2, <1>4
<1>6. Modulus \in Nat /\ Modulus > 2
  BY ModulusType
<1>7. s.seq = peer.iss
  <2>1. peer.iss < 2 * Modulus /\ peer.iss < Modulus /\ peer.iss \in Nat
    BY <1>2, <1>6
  <2> QED BY <1>1, <2>1, WrapSmall DEF Plain
<1>8. rcvNxt' \in 0..(Modulus - 1) /\ Offset(rcvNxt', peer.iss) = 0
  <2>1. Wrap(peer.iss + 1) \in 0..(Modulus - 1) /\ 1 \in 0..(Modulus - 1)
    BY <1>2, <1>6, OffsetNext
  <2>2. rcvNxt' = Wrap(peer.iss + 1)
    BY <1>4, <1>7
  <2>3. 1 = Offset(rcvNxt', peer.iss) + 1
    BY <1>2, <2>1, <2>2, OffsetNext
  <2>4. Offset(rcvNxt', peer.iss) \in 0..(Modulus - 1)
    BY <1>2, <2>1, <2>2, OffsetType
  <2> QED BY <1>6, <2>1, <2>2, <2>3, <2>4
<1>9. PeerStep
  BY <1>1, <1>2, <1>3, <1>4, <1>5, <1>8 DEF PeerStep
<1>10. Arrived = 0
  BY <1>3 DEF Arrived
<1>11. Arrived' = 0
  <2>1. Arrived' = Reached(rcvNxt', peer')
    BY DEF Arrived, Reached, Offset
  <2>2. peer'.state = "open" /\ peer'.iss = peer.iss /\ peer'.len = peer.len
    BY <1>5
  <2>3. Reached(rcvNxt', peer') = IF peer'.len <= Offset(rcvNxt', peer'.iss) THEN peer'.len
                                  ELSE Offset(rcvNxt', peer'.iss)
    BY <1>2, <1>8, <2>2, ReachedIs
  <2> QED BY <1>2, <1>8, <2>1, <2>2, <2>3
<1> QED BY <1>4, <1>9, <1>10, <1>11 DEF StreamStep

LEMMA ResetStep ==
  ASSUME Inv, NEW s, Reset(s)
  PROVE  StreamStep /\ PeerStep
<1>1. event' = -1 /\ rcvNxt' = rcvNxt /\ buf' = buf /\ peer' = peer
  BY DEF Reset
<1>2. Arrived' = Arrived
  BY <1>1 DEF Arrived
<1>3. rcvNxt \in 0..(Modulus - 1)
  BY TcpTypes DEF Inv
<1>4. PeerStep
  BY <1>1, <1>3 DEF PeerStep, Inv, PeerInv
<1> QED BY <1>1, <1>2, <1>4 DEF StreamStep

LEMMA AcceptPlain ==
  ASSUME Inv, NEW s, Plain(s), Accept(s)
  PROVE  StreamStep /\ PeerStep
<1>1. ~InOrder(s) /\ "FIN" \notin s.flags
  BY DEF Plain, InOrder
<1>2. event' = event /\ rcvNxt' = rcvNxt /\ buf' = buf /\ peer' = peer
  BY <1>1 DEF Accept
<1>3. Arrived' = Arrived
  BY <1>2 DEF Arrived
<1>4. rcvNxt \in 0..(Modulus - 1) /\ event \in -1..4
  BY TcpTypes DEF Inv
<1>5. PeerStep
  BY <1>2, <1>4 DEF PeerStep, Inv, PeerInv
<1> QED BY <1>2, <1>3, <1>5 DEF StreamStep

LEMMA AcceptCarries ==
  ASSUME Inv, NEW s, NEW i \in Nat, NEW j \in Nat, Carries(s, i, j), Accept(s)
  PROVE  StreamStep /\ PeerStep
<1> DEFINE L == peer.len
           iss == peer.iss
           C == Offset(rcvNxt, iss)
           n == Len(s.data)
           nxt == IF InOrder(s) THEN Wrap(rcvNxt + n) ELSE rcvNxt
           fin == "FIN" \in s.flags /\ (s.seq + n) % SizeMod = nxt
<1>1. /\ peer.state = "open" /\ iss \in 0..(Modulus - 1) /\ L \in Nat /\ L + 1 < Modulus
      /\ rcvNxt \in 0..(Modulus - 1) /\ event \in -1..4 /\ conn \in Nat
      /\ C <= L + 1
  BY TcpTypes DEF Inv, PeerInv, Carries
<1>2. Modulus \in Nat /\ Modulus > 2 /\ C \in 0..(Modulus - 1)
  BY <1>1, ModulusType, OffsetType
<1>3. /\ i \in 1..(L + 1) /\ j \in 0..L /\ i <= j + 1
      /\ s.seq = Wrap(iss + i) /\ s.data = Data(conn, i, j)
      /\ "FIN" \in s.flags => j = L
  BY DEF Carries
<1>4. n = j - i + 1
  BY <1>1, <1>3, DataType
<1>5. i \in 0..(Modulus - 1) /\ i > 0
  BY <1>1, <1>2, <1>3
<1>6. /\ buf' = IF InOrder(s) THEN buf \o SubSeq(s.data, 1, Min({n, Room})) ELSE buf
      /\ rcvNxt' = IF fin THEN Wrap(nxt + 1) ELSE nxt
      /\ event' = IF "FIN" \in s.flags THEN 4 ELSE IF InOrder(s) THEN 3 ELSE event
      /\ peer' = peer
  BY DEF Accept
<1>7. /\ nxt \in 0..(Modulus - 1)
      /\ InOrder(s) => C < j /\ i = C + 1 /\ Offset(nxt, iss) = j
      /\ ~InOrder(s) => Offset(nxt, iss) = C
  <2>1. CASE InOrder(s)
    <3>1. s.data # <<>> /\ s.seq = rcvNxt
      BY <2>1 DEF InOrder
    <3>2. i = C + 1
      BY <1>1, <1>3, <1>5, <3>1, OffsetNext
    <3>3. n # 0
      BY <1>1, <1>3, <3>1, DataType, EmptySeq
    <3>4. n \in Nat /\ C + n = j /\ C < j
      BY <1>2, <1>3, <1>4, <3>2, <3>3
    <3>5. C + n < Modulus
      BY <1>1, <1>2, <1>3, <3>4
    <3>6. Wrap(rcvNxt + n) \in 0..(Modulus - 1) /\ Offset(Wrap(rcvNxt + n), iss) = C + n
      <4> HIDE DEF n
      <4> QED BY <1>1, <3>4, <3>5, OffsetMoves
    <3> QED BY <2>1, <3>2, <3>4, <3>6
  <2>2. CASE ~InOrder(s)
    BY <1>1, <2>2
  <2> QED BY <2>1, <2>2
<1>8. fin => Offset(nxt, iss) = L
  <2>1. SUFFICES ASSUME fin PROVE Offset(nxt, iss) = L
    OBVIOUS
  <2>2. (Wrap(iss + i) + (L - i + 1)) % SizeMod = nxt
    <3>1. n = L - i + 1
      BY <1>3, <1>4, <2>1
    <3> HIDE DEF n, nxt
    <3> QED BY <1>3, <2>1, <3>1
  <2> HIDE DEF nxt
  <2> QED BY <1>1, <1>3, <1>7, <2>2, FinBehindLast
<1> HIDE DEF nxt, fin
<1>9. /\ rcvNxt' \in 0..(Modulus - 1)
      /\ fin => Offset(rcvNxt', iss) = L + 1 /\ Offset(nxt, iss) = L
      /\ ~fin => rcvNxt' = nxt
  <2>1. CASE fin
    <3>1. /\ Wrap(nxt + 1) \in 0..(Modulus - 1)
          /\ Offset(Wrap(nxt + 1), iss) = Offset(nxt, iss) + 1
      BY <1>1, <1>7, <1>8, <2>1, OffsetMoves
    <3> QED BY <1>6, <1>8, <2>1, <3>1
  <2>2. CASE ~fin
    BY <1>6, <1>7, <2>2
  <2> QED BY <2>1, <2>2
<1>10. PeerStep
  <2>1. Offset(rcvNxt', iss) <= L + 1
    BY <1>1, <1>2, <1>3, <1>7, <1>9
  <2>2. event' \in -1..4 /\ (event' = 1 => event = 1)
    BY <1>1, <1>6
  <2> QED BY <1>1, <1>6, <1>9, <2>1, <2>2 DEF PeerStep
<1>11. Arrived = IF L <= C THEN L ELSE C
  BY <1>1, ArrivedReached, ReachedIs
<1>12. Arrived' = IF L <= Offset(rcvNxt', iss) THEN L ELSE Offset(rcvNxt', iss)
  <2>1. Arrived' = Reached(rcvNxt', peer)
    BY <1>6 DEF Arrived, Reached, Offset
  <2> QED BY <1>1, <1>9, <2>1, ReachedIs
<1>13. CASE ~InOrder(s)
  <2>1. Arrived' = Arrived
    BY <1>1, <1>2, <1>7, <1>9, <1>11, <1>12, <1>13
  <2> QED BY <1>6, <1>10, <1>13, <2>1 DEF StreamStep
<1>14. CASE InOrder(s)
  <2>1. Arrived = C /\ Arrived' = j /\ C < j
    BY <1>1, <1>2, <1>3, <1>7, <1>9, <1>11, <1>12, <1>14
  <2>2. i = Arrived + 1 /\ n = j - Arrived
    BY <1>2, <1>3, <1>4, <1>7, <1>14, <2>1
  <2>3. j \in (Arrived + 1)..L
    BY <1>2, <1>3, <2>1
  <2>4. buf' = buf \o SubSeq(Data(conn, Arrived + 1, j), 1, Min({j - Arrived, Room}))
    <3> HIDE DEF n
    <3> QED BY <1>3, <1>6, <1>14, <2>2
  <2>5. Takes(j)
    BY <1>1, <1>6, <2>1, <2>3, <2>4 DEF Takes
  <2> QED BY <1>10, <2>5 DEF StreamStep
<1> QED BY <1>13, <1>14

LEMMA HandleStep ==
  ASSUME Inv, Arrive
  PROVE  /\ StreamStep /\ PeerStep
         /\ sndUna' \in 0..(Modulus - 1) /\ sndUna' <= ClientIss + 1 + peer.got
         /\ UNCHANGED <<pc, conn, lport, sndNxt, cap, written, ports>>
<1>1. PICK s \in Segments \cup LateSegments : HandleTcp(s)
  BY DEF Arrive
<1>2. /\ s.ack \in Nat /\ s.ack <= ClientIss + 1 + peer.got
      /\ Plain(s) \/ \E i, j \in Nat : Carries(s, i, j)
  BY <1>1, SegmentKinds DEF HandleTcp
<1>3. StreamStep /\ PeerStep
  BY <1>1, <1>2, EstablishStep, ResetStep, AcceptPlain, AcceptCarries DEF HandleTcp
<1>4. sndUna' = AckedBy(s) /\ UNCHANGED <<pc, conn, lport, sndNxt, cap, written, ports>>
  BY <1>1 DEF HandleTcp
<1>5. /\ sndUna \in 0..(Modulus - 1) /\ sndNxt \in 0..(Modulus - 1) /\ Modulus \in Nat
      /\ sndUna <= ClientIss + 1 + peer.got
  BY TcpTypes, ModulusType DEF Inv, CountInv
<1>6. sndUna' \in 0..(Modulus - 1) /\ sndUna' <= ClientIss + 1 + peer.got
  BY <1>2, <1>4, <1>5 DEF AckedBy
<1> QED BY <1>3, <1>4, <1>6
-----------------------------------------------------------------------------
(* Bytes in the two buffers.                                               *)

LEMMA PartIs ==
  ASSUME NEW S, NEW s \in Seq(S), NEW m \in Nat, NEW n \in Nat, m >= 1, n <= Len(s), m <= n + 1
  PROVE  /\ SubSeq(s, m, n) \in Seq(S)
         /\ Len(SubSeq(s, m, n)) = n - m + 1
         /\ \A i \in 1..(n - m + 1) : SubSeq(s, m, n)[i] = s[m + i - 1]
<1>1. \A i \in m..n : s[i] \in S
  <2> TAKE i \in m..n
  <2>1. i \in 1..Len(s)
    BY LenProperties
  <2> QED BY <2>1, ElementOfSeq
<1>2. /\ SubSeq(s, m, n) \in Seq(S)
      /\ Len(SubSeq(s, m, n)) = IF m <= n THEN n - m + 1 ELSE 0
      /\ \A i \in 1..(n - m + 1) : SubSeq(s, m, n)[i] = s[m + i - 1]
  BY <1>1, SubSeqProperties
<1> QED BY <1>2

LEMMA JoinIs ==
  ASSUME NEW S, NEW s \in Seq(S), NEW t \in Seq(S)
  PROVE  /\ s \o t \in Seq(S)
         /\ Len(s \o t) = Len(s) + Len(t)
         /\ \A i \in 1..Len(s) : (s \o t)[i] = s[i]
         /\ \A i \in 1..Len(t) : (s \o t)[Len(s) + i] = t[i]
<1>1. Len(s) \in Nat /\ Len(t) \in Nat
  BY LenProperties
<1>2. /\ s \o t \in Seq(S)
      /\ Len(s \o t) = Len(s) + Len(t)
      /\ \A i \in 1..(Len(s) + Len(t)) : (s \o t)[i] = IF i <= Len(s) THEN s[i] ELSE t[i - Len(s)]
  BY ConcatProperties
<1>3. ASSUME NEW i \in 1..Len(s) PROVE (s \o t)[i] = s[i]
  <2>1. i \in 1..(Len(s) + Len(t)) /\ i <= Len(s)
    BY <1>1
  <2> QED BY <1>2, <2>1
<1>4. ASSUME NEW i \in 1..Len(t) PROVE (s \o t)[Len(s) + i] = t[i]
  <2> DEFINE k == Len(s) + i
  <2>1. k \in 1..(Len(s) + Len(t)) /\ ~(k <= Len(s)) /\ k - Len(s) = i
    BY <1>1
  <2> HIDE DEF k
  <2>2. (s \o t)[k] = t[k - Len(s)]
    BY <1>2, <2>1
  <2> QED BY <2>1, <2>2 DEF k
<1> QED BY <1>2, <1>3, <1>4

LEMMA PlacedMore ==
  ASSUME NEW c, NEW s \in Seq(Byte), NEW before \in Nat, NEW l \in Nat, NEW m \in Nat, l <= m,
         Placed(c, s, before, l)
  PROVE  Placed(c, s, before, m)
<1> SUFFICES ASSUME NEW i \in 1..Len(s)
             PROVE  s[i][1] = c /\ before + i <= s[i][2] /\ s[i][2] <= before + i + m
  BY DEF Placed
<1>1. s[i] \in Byte /\ i \in Nat
  BY ElementOfSeq, LenProperties
<1>2. s[i][2] \in Nat
  BY <1>1 DEF Byte
<1>3. s[i][1] = c /\ before + i <= s[i][2] /\ s[i][2] <= before + i + l
  BY DEF Placed
<1> QED BY <1>1, <1>2, <1>3

LEMMA PlacedJoin ==
  ASSUME NEW c, NEW s \in Seq(Byte), NEW t \in Seq(Byte), NEW before \in Nat, NEW l \in Nat,
         Placed(c, s, before, l), Placed(c, t, before + Len(s), l)
  PROVE  Placed(c, s \o t, before, l)
<1>1. Len(s) \in Nat /\ Len(t) \in Nat
  BY LenProperties
<1>2. /\ Len(s \o t) = Len(s) + Len(t)
      /\ \A i \in 1..Len(s) : (s \o t)[i] = s[i]
      /\ \A i \in 1..Len(t) : (s \o t)[Len(s) + i] = t[i]
  BY JoinIs
<1> SUFFICES ASSUME NEW i \in 1..(Len(s) + Len(t))
             PROVE  /\ (s \o t)[i][1] = c
                    /\ before + i <= (s \o t)[i][2] /\ (s \o t)[i][2] <= before + i + l
  BY <1>2 DEF Placed
<1>3. CASE i <= Len(s)
  <2>1. i \in 1..Len(s)
    BY <1>1, <1>3
  <2> QED BY <1>2, <2>1 DEF Placed
<1>4. CASE ~(i <= Len(s))
  <2> DEFINE k == i - Len(s)
  <2>1. k \in 1..Len(t) /\ i = Len(s) + k
    BY <1>1, <1>4
  <2> HIDE DEF k
  <2>2. (s \o t)[i] = t[k]
    BY <1>2, <2>1
  <2>3. /\ t[k][1] = c
        /\ before + Len(s) + k <= t[k][2] /\ t[k][2] <= before + Len(s) + k + l
    BY <2>1 DEF Placed
  <2>4. before + Len(s) + k = before + i
    BY <1>1, <2>1
  <2> QED BY <2>2, <2>3, <2>4
<1> QED BY <1>3, <1>4

LEMMA PlacedPart ==
  ASSUME NEW c, NEW s \in Seq(Byte), NEW before \in Nat, NEW l \in Nat, Placed(c, s, before, l),
         NEW n \in 0..Len(s)
  PROVE  /\ Placed(c, SubSeq(s, 1, n), before, l)
         /\ Placed(c, SubSeq(s, n + 1, Len(s)), before + n, l)
<1>1. Len(s) \in Nat /\ n \in Nat /\ n <= Len(s)
  BY LenProperties
<1>2. Len(SubSeq(s, 1, n)) = n /\ \A i \in 1..n : SubSeq(s, 1, n)[i] = s[i]
  <2>1. /\ Len(SubSeq(s, 1, n)) = n - 1 + 1
        /\ \A i \in 1..(n - 1 + 1) : SubSeq(s, 1, n)[i] = s[1 + i - 1]
    BY <1>1, PartIs
  <2> QED BY <1>1, <2>1
<1>3. /\ Len(SubSeq(s, n + 1, Len(s))) = Len(s) - n
      /\ \A i \in 1..(Len(s) - n) : SubSeq(s, n + 1, Len(s))[i] = s[n + i]
  <2>1. n + 1 \in Nat /\ n + 1 >= 1 /\ n + 1 <= Len(s) + 1
    BY <1>1
  <2>2. /\ Len(SubSeq(s, n + 1, Len(s))) = Len(s) - (n + 1) + 1
        /\ \A i \in 1..(Len(s) - (n + 1) + 1) : SubSeq(s, n + 1, Len(s))[i] = s[n + 1 + i - 1]
    BY <1>1, <2>1, PartIs
  <2> QED BY <1>1, <2>2
<1>4. Placed(c, SubSeq(s, 1, n), before, l)
  BY <1>1, <1>2 DEF Placed
<1>5. Placed(c, SubSeq(s, n + 1, Len(s)), before + n, l)
  <2> SUFFICES ASSUME NEW i \in 1..(Len(s) - n)
               PROVE  /\ s[n + i][1] = c
                      /\ before + n + i <= s[n + i][2] /\ s[n + i][2] <= before + n + i + l
    BY <1>3 DEF Placed
  <2> DEFINE k == n + i
  <2>1. k \in 1..Len(s) /\ before + n + i = before + k
    BY <1>1
  <2> HIDE DEF k
  <2>2. /\ s[k][1] = c /\ before + k <= s[k][2] /\ s[k][2] <= before + k + l
    BY <2>1 DEF Placed
  <2>3. /\ s[k][1] = c
        /\ before + n + i <= s[k][2] /\ s[k][2] <= before + n + i + l
    BY <2>1, <2>2
  <2> QED BY <2>3 DEF k
<1> QED BY <1>4, <1>5
-----------------------------------------------------------------------------
(* What a step that leaves the relevant variables alone preserves.         *)

LEMMA ReqFrame ==
  ASSUME Inv, UNCHANGED <<reqs, secure, redirect>>, pc' # "request" \/ pc = "request"
  PROVE  ReqInv'
BY DEF Inv, ReqInv, NoDowngrade

LEMMA PortFrame ==
  ASSUME Inv, UNCHANGED <<conn, lport, ports>>
  PROVE  PortInv'
BY DEF Inv, PortInv

LEMMA PosFrame ==
  ASSUME Inv, UNCHANGED <<conn, raw, buf>>, Arrived' = Arrived
  PROVE  PosInv'
BY DEF Inv, PosInv, Lost, Placed

LEMMA JudgeFrame ==
  ASSUME Inv, UNCHANGED <<conn, raw, resp, secure>>, ToJudge' => ToJudge
  PROVE  JudgeInv'
BY DEF Inv, JudgeInv, TlsComplete, Framed, Intact, StreamLen, Notify, Last

LEMMA BodyFrame ==
  ASSUME Inv, UNCHANGED result
  PROVE  BodyWhole'
BY DEF Inv, BodyWhole, Data

OpenPhase == {"send", "write", "read", "poll", "closing", "close", "judge"}

LEMMA PeerFrame ==
  ASSUME Inv, UNCHANGED <<event, peer, rcvNxt, resp, secure>>,
         pc' \in OpenPhase => peer.state = "open",
         Busy' => Busy
  PROVE  PeerInv'
<1>1. StreamLen(resp)' = StreamLen(resp) /\ Offset(rcvNxt, peer.iss)' = Offset(rcvNxt, peer.iss)
  BY DEF StreamLen, Notify, Last, Offset, Wrap
<1> QED BY <1>1 DEF Inv, PeerInv, OpenPhase

(* Of the steps between the calls of the TCP client, and of those of the   *)
(* client that send something.                                             *)
LEMMA PhaseKeeps ==
  ASSUME Inv, Typing', CountInv',
         UNCHANGED <<conn, lport, event, rcvNxt, buf, peer, ports, secure, redirect, raw, resp, reqs, result>>,
         pc' \in OpenPhase => peer.state = "open",
         Busy' => Busy,
         pc' # "request" \/ pc = "request",
         ToJudge' => ToJudge
  PROVE  Inv'
<1>1. Arrived' = Arrived
  BY DEF Arrived
<1> QED BY <1>1, ReqFrame, PortFrame, PosFrame, JudgeFrame, BodyFrame, PeerFrame DEF Inv

(* The bytes a segment brings. *)
LEMMA TakesEffect ==
  ASSUME Inv, NEW j \in Nat, Takes(j)
  PROVE  /\ buf' \in Seq(Byte) /\ Len(buf') <= BufCap
         /\ Arrived \in Nat /\ Arrived < j
         /\ \E k \in 0..(j - Arrived) :
              /\ Len(buf') = Len(buf) + k
              /\ k < j - Arrived => cap = 0 \/ Len(buf') = BufCap
              /\ buf' = buf \o Data(conn, Arrived + 1, Arrived + k)
              /\ Data(conn, Arrived + 1, Arrived + k) \in Seq(Byte)
              /\ Placed(conn, Data(conn, Arrived + 1, Arrived + k), Arrived, 0)
              /\ Len(Data(conn, Arrived + 1, Arrived + k)) = k
<1> DEFINE A == Arrived
           k == Min({j - A, Room})
           d == Data(conn, A + 1, j)
           e == Data(conn, A + 1, A + k)
<1>1. /\ conn \in Nat /\ buf \in Seq(Byte) /\ Len(buf) \in Nat /\ Len(buf) <= BufCap
      /\ cap \in {0, BufCap} /\ BufCap \in Nat
  BY TcpTypes DEF Inv
<1>2. A \in Nat /\ j \in (A + 1)..peer.len /\ peer.len \in Nat
  <2>1. /\ rcvNxt \in 0..(Modulus - 1) /\ peer.iss \in 0..(Modulus - 1) /\ peer.len \in Nat
    BY TcpTypes DEF Inv
  <2>2. A \in Nat
    BY <2>1, ArrivedReached, ReachedIs
  <2> QED BY <2>1, <2>2 DEF Takes
<1>3. buf' = buf \o SubSeq(d, 1, k)
  BY DEF Takes
<1> HIDE DEF A
<1>4. Room \in Nat /\ (Len(buf) + Room <= BufCap) /\ (cap = 0 \/ Len(buf) + Room = BufCap)
  BY <1>1 DEF Room
<1>5. k = IF j - A <= Room THEN j - A ELSE Room
  BY <1>2, <1>4, MinTwo
<1> HIDE DEF k
<1>6. k \in Nat /\ k <= j - A /\ Len(buf) + k <= BufCap /\ (k < j - A => cap = 0 \/ Len(buf) + k = BufCap)
  BY <1>1, <1>2, <1>4, <1>5
<1>7. /\ d \in Seq(Byte) /\ Len(d) = j - A
      /\ \A x \in 1..(j - A) : d[x] = <<conn, A + x>>
  <2>1. A + 1 \in Nat /\ A + 1 > 0 /\ A + 1 <= j + 1 /\ j - (A + 1) + 1 = j - A
    BY <1>2
  <2>2. /\ d \in Seq(Byte) /\ Len(d) = j - (A + 1) + 1
        /\ \A x \in 1..(j - (A + 1) + 1) : d[x] = <<conn, (A + 1) + x - 1>>
    BY <1>1, <2>1, DataType
  <2>3. \A x \in 1..(j - A) : (A + 1) + x - 1 = A + x
    BY <1>2
  <2> QED BY <2>1, <2>2, <2>3
<1>8. /\ e \in Seq(Byte) /\ Len(e) = k
      /\ \A x \in 1..k : e[x] = <<conn, A + x>>
  <2> DEFINE i1 == A + 1
             j1 == A + k
  <2>1. i1 \in Nat /\ j1 \in Nat /\ i1 > 0 /\ i1 <= j1 + 1 /\ j1 - i1 + 1 = k
    BY <1>2, <1>6
  <2>2. \A x \in 1..k : i1 + x - 1 = A + x
    BY <1>2, <1>6
  <2>3. e = Data(conn, i1, j1)
    OBVIOUS
  <2> HIDE DEF i1, j1, e
  <2> HIDE DEF d
  <2>4. /\ Data(conn, i1, j1) \in Seq(Byte)
        /\ Len(Data(conn, i1, j1)) = j1 - i1 + 1
        /\ \A x \in 1..(j1 - i1 + 1) : Data(conn, i1, j1)[x] = <<conn, i1 + x - 1>>
    <3>1. conn \in Nat /\ i1 \in Nat /\ j1 \in Nat /\ i1 > 0 /\ i1 <= j1 + 1
      BY <1>1, <2>1
    <3> QED BY ONLY <3>1, DataType
  <2> QED BY <2>1, <2>2, <2>3, <2>4
<1> HIDE DEF d, e
<1>9. SubSeq(d, 1, k) = e
  <2>1. 1 \in Nat /\ k <= Len(d) /\ 1 <= k + 1 /\ k - 1 + 1 = k
    BY <1>2, <1>6, <1>7
  <2>2. /\ SubSeq(d, 1, k) \in Seq(Byte) /\ Len(SubSeq(d, 1, k)) = k - 1 + 1
        /\ \A x \in 1..(k - 1 + 1) : SubSeq(d, 1, k)[x] = d[1 + x - 1]
    BY <1>6, <1>7, <2>1, PartIs
  <2>3. \A x \in 1..k : x \in 1..(j - A) /\ 1 + x - 1 = x
    BY <1>2, <1>6
  <2>4. \A x \in 1..k : SubSeq(d, 1, k)[x] = e[x]
    BY <1>7, <1>8, <2>1, <2>2, <2>3
  <2> QED BY <1>8, <2>1, <2>2, <2>4, SeqEqual
<1>10. buf' = buf \o e /\ buf' \in Seq(Byte) /\ Len(buf') = Len(buf) + k
  BY <1>1, <1>3, <1>8, <1>9, JoinIs
<1>11. Placed(conn, e, A, 0)
  <2> SUFFICES ASSUME NEW x \in 1..k
               PROVE  e[x][1] = conn /\ A + x <= e[x][2] /\ e[x][2] <= A + x + 0
    BY <1>8 DEF Placed
  <2>1. e[x] = <<conn, A + x>> /\ A + x \in Nat
    BY <1>2, <1>6, <1>8
  <2> QED BY <2>1
<1>12. k \in 0..(j - A) /\ A < j
  BY <1>2, <1>6
<1>13. Len(buf') <= BufCap /\ (k < j - A => cap = 0 \/ Len(buf') = BufCap)
  BY <1>6, <1>10
<1> QED BY <1>2, <1>8, <1>10, <1>11, <1>12, <1>13 DEF A, e

LEMMA StreamKeeps ==
  ASSUME Inv, StreamStep, UNCHANGED <<conn, raw>>
  PROVE  buf' \in Seq(Byte) /\ Len(buf') <= BufCap /\ PosInv'
<1>1. /\ conn \in Nat /\ buf \in Seq(Byte) /\ Len(buf) \in Nat /\ Len(buf) <= BufCap
      /\ raw \in Seq(Byte) /\ Len(raw) \in Nat
  BY TcpTypes DEF Inv
<1>2. CASE buf' = buf /\ Arrived' = Arrived
  BY <1>1, <1>2, PosFrame
<1>3. ASSUME NEW j \in Nat, Takes(j)
      PROVE  buf' \in Seq(Byte) /\ Len(buf') <= BufCap /\ PosInv'
  <2>1. buf' \in Seq(Byte) /\ Len(buf') <= BufCap /\ Arrived \in Nat /\ Arrived < j
    BY <1>3, TakesEffect
  <2> DEFINE A == Arrived
  <2>2. PICK k \in 0..(j - A) :
          /\ Len(buf') = Len(buf) + k
          /\ buf' = buf \o Data(conn, A + 1, A + k)
          /\ Data(conn, A + 1, A + k) \in Seq(Byte)
          /\ Placed(conn, Data(conn, A + 1, A + k), A, 0)
    BY <1>3, TakesEffect
  <2> DEFINE e == Data(conn, A + 1, A + k)
             l == Lost
             m == l + (j - A) - k
  <2>3. /\ l \in Nat /\ l = A - Len(raw) - Len(buf)
        /\ Placed(conn, raw, 0, l) /\ Placed(conn, buf, Len(raw), l)
    BY <1>1, <2>1 DEF Inv, PosInv, Lost
  <2>4. Arrived' = j
    BY <1>3 DEF Takes
  <2> HIDE DEF A, l
  <2>5. m \in Nat /\ l <= m
    BY <2>1, <2>2, <2>3 DEF A
  <2>6. Lost' = m
    <3>1. Lost' = j - Len(raw) - (Len(buf) + k)
      BY <2>2, <2>4 DEF Lost
    <3> QED BY <1>1, <2>1, <2>2, <2>3, <3>1 DEF A
  <2> HIDE DEF m
  <2>7. Placed(conn, raw, 0, m) /\ Placed(conn, buf, Len(raw), m)
    BY <1>1, <2>3, <2>5, PlacedMore
  <2>8. Placed(conn, e, Len(raw) + Len(buf), l)
    <3> DEFINE b == Len(raw) + Len(buf)
    <3>1. A = b + l /\ b \in Nat
      BY <1>1, <2>1, <2>3 DEF A
    <3>2. e \in Seq(Byte) /\ Placed(conn, e, b + l, 0)
      BY <2>2, <3>1
    <3> HIDE DEF b, e
    <3>3. ASSUME NEW i \in 1..Len(e)
          PROVE  e[i][1] = conn /\ b + i <= e[i][2] /\ e[i][2] <= b + i + l
      <4>1. e[i] \in Byte /\ i \in Nat
        BY <3>2, ElementOfSeq, LenProperties
      <4>2. e[i][2] \in Nat
        BY <4>1 DEF Byte
      <4>3. e[i][1] = conn /\ b + l + i <= e[i][2] /\ e[i][2] <= b + l + i + 0
        BY <3>2 DEF Placed
      <4> QED BY <2>3, <3>1, <4>1, <4>2, <4>3
    <3> QED BY <3>3 DEF Placed, b
  <2>9. Placed(conn, e, Len(raw) + Len(buf), m)
    <3>1. Len(raw) + Len(buf) \in Nat /\ e \in Seq(Byte)
      BY <1>1, <2>2
    <3> HIDE DEF e
    <3> QED BY <2>3, <2>5, <2>8, <3>1, PlacedMore
  <2>10. Placed(conn, buf', Len(raw), m)
    <3>1. e \in Seq(Byte) /\ buf' = buf \o e
      BY <2>2
    <3> HIDE DEF e
    <3> QED BY <1>1, <2>5, <2>7, <2>9, <3>1, PlacedJoin
  <2>11. PosInv'
    BY <2>5, <2>6, <2>7, <2>10 DEF PosInv, Placed
  <2> QED BY <2>1, <2>11
<1> QED BY <1>2, <1>3 DEF StreamStep
-----------------------------------------------------------------------------
(* The invariant holds initially.                                          *)

LEMMA NewPeerType ==
  /\ NewPeer \in Peer /\ NewPeer.state = "none" /\ NewPeer.got = 0 /\ NewPeer.len = 0
<1>1. (CHOOSE i \in PeerIss : TRUE) \in PeerIss
  BY TcpAssumption
<1> QED BY <1>1 DEF NewPeer, Peer

LEMMA NoResponseType ==
  /\ NoResponse \in Response
  /\ NoResult.ok = FALSE /\ NoResult.to = NoResponse /\ NoResult.of = 0
BY DEF NoResponse, Response, Location, Framing, NoResult

LEMMA EmptyPlaced ==
  ASSUME NEW c, NEW b, NEW l
  PROVE  <<>> \in Seq(Byte) /\ Len(<<>>) = 0 /\ Placed(c, <<>>, b, l)
BY DEF Placed

LEMMA InitOK == Init => Inv
<1> SUFFICES ASSUME Init PROVE Inv
  OBVIOUS
<1> USE DEF Init, TcpInit
<1>1. Modulus \in Nat /\ Modulus > 2
  BY ModulusType
<1>2. /\ Ports \in Nat \ {0} /\ Chunks \in Nat \ {0} /\ BufCap \in Nat \ {0} /\ ClientIss \in Nat
      /\ MaxRedirect \in Nat /\ RawCap \in Nat \ {0} /\ MaxConn \in 0..Ports
  BY TcpAssumption, HttpAssumption
<1>3. Arrived = 0
  BY NewPeerType DEF Arrived
<1>4. Typing
  <2>1. TcpTypeOK
    BY <1>1, <1>2, NewPeerType DEF TcpTypeOK
  <2>2. result.ok \in BOOLEAN /\ result.to \in Response /\ result.of \in 0..conn
    <3>1. result.ok \in BOOLEAN
      BY NoResponseType, Zenon
    <3>2. result.to \in Response
      BY NoResponseType, Zenon
    <3>3. result.of = 0 /\ conn = 0
      BY NoResponseType, Zenon
    <3> QED BY <3>1, <3>2, <3>3
  <2>3. /\ pc = "idle" /\ secure \in BOOLEAN /\ redirect \in 0..MaxRedirect /\ Len(raw) <= RawCap
        /\ resp \in Response /\ then = "idle" /\ reqs \in Seq(BOOLEAN) /\ Len(reqs) <= MaxRedirect + 1
    <3>1. secure \in BOOLEAN
      BY Zenon
    <3>2. redirect \in 0..MaxRedirect /\ Len(raw) <= RawCap /\ Len(reqs) <= MaxRedirect + 1
      BY <1>2
    <3>3. reqs \in Seq(BOOLEAN)
      OBVIOUS
    <3> QED BY <3>1, <3>2, <3>3, NoResponseType, Zenon
  <2>4. buf \in Seq(Byte) /\ raw \in Seq(Byte) /\ ports \in Seq(Nat)
    OBVIOUS
  <2> QED BY <2>1, <2>2, <2>3, <2>4 DEF Typing, TypeOK
<1>5. CountInv
  BY <1>2, NewPeerType DEF CountInv
<1>6. ReqInv
  BY DEF ReqInv, NoDowngrade
<1>7. PortInv
  BY <1>2 DEF PortInv, PortOf
<1>8. PeerInv
  BY <1>1, NewPeerType DEF PeerInv, Busy
<1>9. PosInv
  BY <1>3 DEF PosInv, Lost, Placed
<1>10. JudgeInv /\ BodyWhole
  BY NoResponseType DEF JudgeInv, ToJudge, BodyWhole
<1> QED BY <1>4, <1>5, <1>6, <1>7, <1>8, <1>9, <1>10 DEF Inv
-----------------------------------------------------------------------------
(* The steps of the calls that only move the caller, or send something.    *)

Phase == {"idle", "request", "connect", "send", "write", "read", "poll", "closing", "close", "judge"}

LEMMA PhaseTyping ==
  ASSUME Inv,
         UNCHANGED <<conn, lport, event, sndUna, rcvNxt, buf, cap, peer, ports>>,
         UNCHANGED <<secure, redirect, raw, resp, reqs, result>>,
         pc' \in Phase, then' \in {"idle", "judge"},
         written' \in 0..Chunks, sndNxt' \in 0..(Modulus - 1)
  PROVE  Typing'
<1>1. Typing
  BY DEF Inv
<1>2. TcpTypeOK'
  BY <1>1 DEF Typing, TypeOK, TcpTypeOK
<1>3. TypeOK'
  BY <1>1, <1>2 DEF Typing, TypeOK, Phase
<1> QED BY <1>1, <1>3 DEF Typing

(* The numbers of the client, small enough not to wrap. *)
LEMMA ClientNumbers ==
  ASSUME Inv
  PROVE  /\ ClientIss \in Nat /\ Chunks \in Nat /\ Modulus \in Nat /\ ClientIss + Chunks + 2 < Modulus
         /\ sndNxt \in Nat /\ sndUna \in Nat /\ sndNxt < Modulus /\ written \in 0..Chunks
         /\ peer.got \in Nat
<1>1. sndNxt \in 0..(Modulus - 1) /\ sndUna \in 0..(Modulus - 1) /\ peer.got \in Nat
  BY TcpTypes DEF Inv
<1>2. written \in 0..Chunks
  BY DEF Inv, Typing, TypeOK, TcpTypeOK
<1>3. ClientIss \in Nat /\ Chunks \in Nat /\ ClientIss + Chunks + 2 < Modulus /\ Modulus \in Nat
  BY TcpAssumption
<1> QED BY <1>1, <1>2, <1>3

LEMMA MoveKeeps ==
  ASSUME Inv,
         UNCHANGED <<conn, lport, event, sndNxt, sndUna, rcvNxt, buf, cap, written, peer, ports>>,
         UNCHANGED <<secure, redirect, raw, resp, reqs, result>>,
         pc' \in Phase, then' \in {"idle", "judge"}
  PROVE  Typing'
<1>1. written \in 0..Chunks /\ sndNxt \in 0..(Modulus - 1)
  BY ClientNumbers
<1> QED BY <1>1, PhaseTyping

LEMMA ThenType ==
  ASSUME Inv
  PROVE  then \in {"idle", "judge"} /\ pc \in Phase
BY DEF Inv, Typing, TypeOK, Phase

LEMMA GiveUpStep ==
  ASSUME Inv, GiveUp
  PROVE  Inv'
<1>1. /\ pc' = "idle"
      /\ UNCHANGED <<conn, lport, event, sndNxt, sndUna, rcvNxt, buf, cap, written, peer, ports>>
      /\ UNCHANGED <<secure, redirect, raw, resp, then, reqs, result>>
  BY DEF GiveUp, tcpVars, httpVars
<1>2. Typing'
  BY <1>1, MoveKeeps, ThenType DEF Phase
<1>3. CountInv'
  BY <1>1 DEF Inv, CountInv
<1> QED BY <1>1, <1>2, <1>3, PhaseKeeps DEF OpenPhase, Busy, ToJudge

LEMMA StartWriteStep ==
  ASSUME Inv, StartWrite
  PROVE  Inv'
<1>1. /\ pc = "connect" /\ event = 2 /\ pc' = "send"
      /\ UNCHANGED <<conn, lport, event, sndNxt, sndUna, rcvNxt, buf, cap, written, peer, ports>>
      /\ UNCHANGED <<secure, redirect, raw, resp, then, reqs, result>>
  BY DEF StartWrite, Connected, tcpVars, httpVars
<1>2. Typing'
  BY <1>1, MoveKeeps, ThenType DEF Phase
<1>3. CountInv'
  BY <1>1, ClientNumbers DEF Inv, CountInv
<1>4. peer.state = "open"
  BY <1>1 DEF Inv, PeerInv
<1> QED BY <1>1, <1>2, <1>3, <1>4, PhaseKeeps DEF OpenPhase, Busy, ToJudge

LEMMA StartReadStep ==
  ASSUME Inv, StartRead
  PROVE  Inv'
<1>1. /\ pc = "send" /\ written = Chunks /\ pc' = "read"
      /\ UNCHANGED <<conn, lport, event, sndNxt, sndUna, rcvNxt, buf, cap, written, peer, ports>>
      /\ UNCHANGED <<secure, redirect, raw, resp, then, reqs, result>>
  BY DEF StartRead, Written, tcpVars, httpVars
<1>2. Typing'
  BY <1>1, MoveKeeps, ThenType DEF Phase
<1>3. CountInv'
  BY <1>1, ClientNumbers DEF Inv, CountInv
<1>4. peer.state = "open"
  BY <1>1 DEF Inv, PeerInv
<1> QED BY <1>1, <1>2, <1>3, <1>4, PhaseKeeps DEF OpenPhase, Busy, ToJudge

LEMMA WriteFailedStep ==
  ASSUME Inv, WriteFailed
  PROVE  Inv'
<1>1. /\ pc = "write" /\ pc' = "closing" /\ then' = "idle"
      /\ UNCHANGED <<conn, lport, event, sndNxt, sndUna, rcvNxt, buf, cap, written, peer, ports>>
      /\ UNCHANGED <<secure, redirect, raw, resp, reqs, result>>
  BY DEF WriteFailed, WriteFails, CloseThen, tcpVars
<1>2. Typing'
  BY <1>1, MoveKeeps DEF Phase
<1>3. CountInv'
  BY <1>1, ClientNumbers DEF Inv, CountInv
<1>4. peer.state = "open"
  BY <1>1 DEF Inv, PeerInv
<1> QED BY <1>1, <1>2, <1>3, <1>4, PhaseKeeps DEF OpenPhase, Busy, ToJudge

LEMMA SendChunkStep ==
  ASSUME Inv, SendChunk, UNCHANGED httpVars
  PROVE  Inv'
<1>1. /\ pc = "send" /\ written < Chunks /\ pc' = "write" /\ sndNxt' = sndNxt + 1
      /\ UNCHANGED <<conn, lport, event, sndUna, rcvNxt, buf, cap, written, peer, ports>>
      /\ UNCHANGED <<secure, redirect, raw, resp, then, reqs, result>>
  BY DEF SendChunk, httpVars
<1>2. sndNxt = ClientIss + 1 + written
  BY <1>1 DEF Inv, CountInv
<1>3. written' \in 0..Chunks /\ sndNxt' \in 0..(Modulus - 1)
  BY <1>1, <1>2, ClientNumbers
<1>4. Typing'
  BY <1>1, <1>3, PhaseTyping, ThenType DEF Phase
<1>5. CountInv'
  BY <1>1, <1>2, ClientNumbers DEF Inv, CountInv
<1>6. peer.state = "open"
  BY <1>1 DEF Inv, PeerInv
<1> QED BY <1>1, <1>4, <1>5, <1>6, PhaseKeeps DEF OpenPhase, Busy, ToJudge

(* The acknowledgement of the piece has come from the peer that got it. *)
LEMMA ChunkSentStep ==
  ASSUME Inv, ChunkSent, UNCHANGED httpVars
  PROVE  Inv'
<1>1. /\ pc = "write" /\ sndUna >= sndNxt /\ pc' = "send" /\ written' = written + 1
      /\ UNCHANGED <<conn, lport, event, sndNxt, sndUna, rcvNxt, buf, cap, peer, ports>>
      /\ UNCHANGED <<secure, redirect, raw, resp, then, reqs, result>>
  BY DEF ChunkSent, ChunkAcked, httpVars
<1>2. sndNxt = ClientIss + 2 + written /\ written < Chunks /\ sndUna <= ClientIss + 1 + peer.got
  BY <1>1 DEF Inv, CountInv
<1>3. written' \in 0..Chunks /\ sndNxt' \in 0..(Modulus - 1)
  BY <1>1, <1>2, ClientNumbers
<1>4. Typing'
  BY <1>1, <1>3, PhaseTyping, ThenType DEF Phase
<1>5. CountInv'
  BY <1>1, <1>2, ClientNumbers DEF Inv, CountInv
<1>6. peer.state = "open"
  BY <1>1 DEF Inv, PeerInv
<1> QED BY <1>1, <1>4, <1>5, <1>6, PhaseKeeps DEF OpenPhase, Busy, ToJudge

LEMMA PollStep ==
  ASSUME Inv, ReadPolls \/ PollReturns, UNCHANGED httpVars
  PROVE  Inv'
<1>1. /\ pc \in {"read", "poll"} /\ pc' \in {"read", "poll"}
      /\ UNCHANGED <<conn, lport, event, sndNxt, sndUna, rcvNxt, buf, cap, written, peer, ports>>
      /\ UNCHANGED <<secure, redirect, raw, resp, then, reqs, result>>
  BY DEF ReadPolls, PollReturns, tcpVars, httpVars
<1>2. Typing'
  BY <1>1, MoveKeeps, ThenType DEF Phase
<1>3. CountInv'
  BY <1>1, ClientNumbers DEF Inv, CountInv
<1>4. peer.state = "open"
  BY <1>1 DEF Inv, PeerInv
<1> QED BY <1>1, <1>2, <1>3, <1>4, PhaseKeeps DEF OpenPhase, Busy, ToJudge

LEMMA SendFinStep ==
  ASSUME Inv, SendFin, UNCHANGED httpVars
  PROVE  Inv'
<1>1. /\ pc = "closing" /\ pc' = "close" /\ sndNxt' = sndNxt + 1
      /\ UNCHANGED <<conn, lport, event, sndUna, rcvNxt, buf, cap, written, peer, ports>>
      /\ UNCHANGED <<secure, redirect, raw, resp, then, reqs, result>>
  BY DEF SendFin, httpVars
<1>2. sndNxt <= ClientIss + 1 + Chunks
  BY <1>1 DEF Inv, CountInv
<1>3. written' \in 0..Chunks /\ sndNxt' \in 0..(Modulus - 1)
  BY <1>1, <1>2, ClientNumbers
<1>4. Typing'
  BY <1>1, <1>3, PhaseTyping, ThenType DEF Phase
<1>5. CountInv'
  BY <1>1, <1>2, ClientNumbers DEF Inv, CountInv
<1>6. peer.state = "open"
  BY <1>1 DEF Inv, PeerInv
<1> QED BY <1>1, <1>4, <1>5, <1>6, PhaseKeeps DEF OpenPhase, Busy, ToJudge

LEMMA StutterStep ==
  ASSUME Inv, UNCHANGED vars
  PROVE  Inv'
<1>1. /\ UNCHANGED <<pc, conn, lport, event, sndNxt, sndUna, rcvNxt, buf, cap, written, peer, ports>>
      /\ UNCHANGED <<secure, redirect, raw, resp, then, reqs, result>>
  BY DEF vars, tcpVars, httpVars
<1>2. Typing'
  BY <1>1, MoveKeeps, ThenType
<1>3. CountInv'
  BY <1>1 DEF Inv, CountInv
<1>4. pc' \in OpenPhase => peer.state = "open"
  BY <1>1 DEF Inv, PeerInv, OpenPhase
<1> QED BY <1>1, <1>2, <1>3, <1>4, PhaseKeeps DEF Busy, ToJudge
-----------------------------------------------------------------------------
(* The steps of the peer.                                                  *)

(* Of the variables of net_http_get, if none of them changes. *)
LEMMA HttpTyping ==
  ASSUME Inv, UNCHANGED <<conn, secure, redirect, raw, then, reqs, result>>, resp' \in Response,
         pc' \in Phase, TcpTypeOK', buf' \in Seq(Byte), UNCHANGED ports
  PROVE  Typing'
<1>1. Typing
  BY DEF Inv
<1>2. TypeOK'
  BY <1>1 DEF Typing, TypeOK, Phase
<1> QED BY <1>1, <1>2 DEF Typing

LEMMA StreamLenSmall ==
  ASSUME Inv, NEW r \in Responses
  PROVE  StreamLen(r) \in Nat /\ StreamLen(r) + 1 < Modulus /\ r \in Response
<1>1. r \in Response /\ r.body + 4 < Modulus /\ Modulus \in Nat
  BY HttpAssumption, ModulusType
<1>2. r.body \in Nat
  BY <1>1 DEF Response
<1>3. Last(r) \in {0, 1} /\ Notify \in {0, 1}
  BY DEF Last, Notify
<1> QED BY <1>1, <1>2, <1>3 DEF StreamLen

LEMMA ServerAcceptsStep ==
  ASSUME Inv, ServerAccepts
  PROVE  Inv'
<1>1. PICK r \in Responses :
        /\ PeerAccepts(StreamLen(r)) /\ resp' = r
        /\ UNCHANGED <<secure, redirect, raw, then, reqs, result>>
  BY DEF ServerAccepts
<1>2. PICK i \in PeerIss :
        peer' = [peer EXCEPT !.state = "syn", !.iss = i, !.len = StreamLen(r)]
  BY <1>1 DEF PeerAccepts
<1>3. /\ peer.state = "none"
      /\ UNCHANGED <<pc, conn, lport, event, sndNxt, sndUna, rcvNxt, buf, cap, written, ports>>
  BY <1>1 DEF PeerAccepts
<1>4. peer = [state |-> peer.state, iss |-> peer.iss, got |-> peer.got, len |-> peer.len] /\ peer.got \in Nat
  BY TcpTypes DEF Inv
<1>5. peer' = [state |-> "syn", iss |-> i, got |-> peer.got, len |-> StreamLen(r)]
  BY <1>2, <1>4
<1>6. StreamLen(r) \in Nat /\ StreamLen(r) + 1 < Modulus /\ r \in Response
  BY StreamLenSmall
<1>7. peer' \in Peer
  BY <1>4, <1>5, <1>6 DEF Peer
<1>8. TcpTypeOK'
  BY <1>3, <1>7 DEF Inv, Typing, TypeOK, TcpTypeOK
<1>9. Typing'
  <2>1. buf' \in Seq(Byte) /\ pc' \in Phase /\ resp' \in Response
    BY <1>1, <1>3, <1>6, TcpTypes, ThenType DEF Inv
  <2> QED BY <1>1, <1>3, <1>8, <2>1, HttpTyping
<1>10. CountInv'
  <2>1. peer'.got = peer.got
    BY <1>5
  <2> QED BY <1>3, <2>1 DEF Inv, CountInv
<1>11. ReqInv' /\ PortInv' /\ BodyWhole'
  BY <1>1, <1>3, ReqFrame, PortFrame, BodyFrame
<1>12. PeerInv'
  <2>1. peer'.state = "syn" /\ peer'.len = StreamLen(r)
    BY <1>5
  <2>2. StreamLen(resp)' = StreamLen(r)
    BY <1>1 DEF StreamLen, Notify, Last
  <2> QED BY <1>3, <1>6, <2>1, <2>2 DEF Inv, PeerInv
<1>13. Arrived = 0 /\ Arrived' = 0
  <2>1. peer'.state = "syn"
    BY <1>5
  <2> QED BY <1>3, <2>1 DEF Arrived
<1>14. PosInv'
  BY <1>1, <1>3, <1>13, PosFrame
<1>15. JudgeInv'
  BY <1>1, <1>3 DEF Inv, PeerInv, JudgeInv, ToJudge
<1> QED BY <1>9, <1>10, <1>11, <1>12, <1>14, <1>15 DEF Inv

LEMMA PeerReceivesStep ==
  ASSUME Inv, PeerReceives, UNCHANGED httpVars
  PROVE  Inv'
<1>1. /\ peer.state = "open" /\ peer' = [peer EXCEPT !.got = @ + 1]
      /\ UNCHANGED <<pc, conn, lport, event, sndNxt, sndUna, rcvNxt, buf, cap, written, ports>>
      /\ UNCHANGED <<secure, redirect, raw, resp, then, reqs, result>>
  BY DEF PeerReceives, httpVars
<1>2. /\ peer = [state |-> peer.state, iss |-> peer.iss, got |-> peer.got, len |-> peer.len]
      /\ peer.got \in Nat /\ peer.iss \in PeerIss /\ peer.len \in Nat
      /\ peer.state \in {"none", "syn", "open"}
  BY TcpTypes DEF Inv
<1>3. peer' = [state |-> peer.state, iss |-> peer.iss, got |-> peer.got + 1, len |-> peer.len]
  BY <1>1, <1>2
<1>4. peer' \in Peer
  BY <1>2, <1>3 DEF Peer
<1>5. TcpTypeOK'
  BY <1>1, <1>4 DEF Inv, Typing, TypeOK, TcpTypeOK
<1>6. Typing'
  <2>1. buf' \in Seq(Byte) /\ pc' \in Phase /\ resp' \in Response
    BY <1>1, TcpTypes, ThenType DEF Inv, Typing, TypeOK
  <2> QED BY <1>1, <1>5, <2>1, HttpTyping
<1>7. CountInv'
  <2>1. peer'.got = peer.got + 1
    BY <1>3
  <2> QED BY <1>1, <2>1, ClientNumbers DEF Inv, CountInv
<1>8. ReqInv' /\ PortInv' /\ BodyWhole' /\ JudgeInv'
  BY <1>1, ReqFrame, PortFrame, BodyFrame, JudgeFrame DEF ToJudge
<1>9. peer'.state = peer.state /\ peer'.len = peer.len /\ peer'.iss = peer.iss
  BY <1>3
<1>10. PeerInv'
  <2>1. StreamLen(resp)' = StreamLen(resp) /\ Offset(rcvNxt', peer'.iss) = Offset(rcvNxt, peer.iss)
    BY <1>1, <1>9 DEF StreamLen, Notify, Last
  <2> QED BY <1>1, <1>9, <2>1 DEF Inv, PeerInv, Busy
<1>11. PosInv'
  <2>1. Arrived' = Arrived
    BY <1>1, <1>9 DEF Arrived
  <2> QED BY <1>1, <2>1, PosFrame
<1> QED BY <1>6, <1>7, <1>8, <1>10, <1>11 DEF Inv

LEMMA ArriveStep ==
  ASSUME Inv, Arrive, UNCHANGED httpVars
  PROVE  Inv'
<1>1. /\ StreamStep /\ PeerStep
      /\ sndUna' \in 0..(Modulus - 1) /\ sndUna' <= ClientIss + 1 + peer.got
      /\ UNCHANGED <<pc, conn, lport, sndNxt, cap, written, ports>>
  BY HandleStep
<1>2. UNCHANGED <<secure, redirect, raw, resp, then, reqs, result>>
  BY DEF httpVars
<1>3. buf' \in Seq(Byte) /\ Len(buf') <= BufCap /\ PosInv'
  BY <1>1, <1>2, StreamKeeps
<1>4. /\ peer = [state |-> peer.state, iss |-> peer.iss, got |-> peer.got, len |-> peer.len]
      /\ peer.got \in Nat /\ peer.iss \in PeerIss /\ peer.len \in Nat
      /\ peer.state \in {"none", "syn", "open"} /\ sndNxt \in 0..(Modulus - 1)
  BY TcpTypes DEF Inv
<1>5. \/ peer' = peer
      \/ /\ peer.state # "none" /\ event = 1
         /\ peer' = [state |-> "open", iss |-> peer.iss, got |-> peer.got, len |-> peer.len]
  BY <1>1, <1>4 DEF PeerStep
<1>6. /\ peer'.iss = peer.iss /\ peer'.got = peer.got /\ peer'.len = peer.len
      /\ peer'.state = peer.state \/ (peer.state # "none" /\ peer'.state = "open")
      /\ peer.state = "open" => peer'.state = "open"
  BY <1>5
<1>7. peer' \in Peer
  BY <1>4, <1>5 DEF Peer
<1>8. rcvNxt' \in 0..(Modulus - 1) /\ event' \in -1..4
  BY <1>1 DEF PeerStep
<1>9. TcpTypeOK'
  BY <1>1, <1>3, <1>4, <1>7, <1>8 DEF Inv, Typing, TypeOK, TcpTypeOK
<1>10. Typing'
  <2>1. pc' \in Phase /\ resp' \in Response
    BY <1>1, <1>2, ThenType DEF Inv, Typing, TypeOK
  <2> QED BY <1>1, <1>2, <1>3, <1>9, <2>1, HttpTyping
<1>11. CountInv'
  BY <1>1, <1>6 DEF Inv, CountInv
<1>12. ReqInv' /\ PortInv' /\ BodyWhole' /\ JudgeInv'
  BY <1>1, <1>2, ReqFrame, PortFrame, BodyFrame, JudgeFrame DEF ToJudge
<1>13. PeerInv'
  <2>1. StreamLen(resp)' = StreamLen(resp)
    BY <1>2 DEF StreamLen, Notify, Last
  <2>2. /\ event' = 1 => event = 1 /\ peer' = peer
        /\ event' \in {2, 3, 4} => peer'.state = "open"
        /\ peer'.state = "open" => Offset(rcvNxt', peer'.iss) <= peer'.len + 1
    BY <1>1, <1>6 DEF PeerStep
  <2> QED BY <1>1, <1>6, <2>1, <2>2 DEF Inv, PeerInv, Busy
<1> QED BY <1>3, <1>10, <1>11, <1>12, <1>13 DEF Inv
-----------------------------------------------------------------------------
(* The steps of net_http_get.                                              *)

(* Between requests nothing is said about the response. *)
LEMMA PeerIdle ==
  ASSUME Inv, UNCHANGED <<event, peer, rcvNxt>>, ~Busy'
  PROVE  PeerInv'
<1>1. pc' \in {"idle", "request"}
  BY DEF Busy
<1>2. Offset(rcvNxt', peer'.iss) = Offset(rcvNxt, peer.iss)
  OBVIOUS
<1> QED BY <1>1, <1>2 DEF Inv, PeerInv, Busy

(* Of the variables of the TCP client, if none of them changes. *)
LEMMA TcpTyping ==
  ASSUME Inv, UNCHANGED tcpVars, pc' \in Phase, UNCHANGED <<raw, resp, then>>,
         secure' \in BOOLEAN, redirect' \in 0..MaxRedirect,
         reqs' \in Seq(BOOLEAN), Len(reqs') <= MaxRedirect + 1,
         result'.ok \in BOOLEAN, result'.to \in Response, result'.of \in 0..conn
  PROVE  Typing'
<1>1. Typing
  BY DEF Inv
<1>2. UNCHANGED <<conn, lport, event, sndNxt, sndUna, rcvNxt, buf, cap, written, peer, ports>>
  BY DEF tcpVars
<1>3. TcpTypeOK'
  BY <1>1, <1>2 DEF Typing, TypeOK, TcpTypeOK
<1>4. TypeOK'
  BY <1>1, <1>2, <1>3 DEF Typing, TypeOK, Phase
<1> QED BY <1>1, <1>2, <1>4 DEF Typing

LEMMA HttpTypes ==
  ASSUME Inv
  PROVE  /\ secure \in BOOLEAN /\ redirect \in 0..MaxRedirect /\ MaxRedirect \in Nat
         /\ reqs \in Seq(BOOLEAN) /\ Len(reqs) <= MaxRedirect + 1 /\ Len(reqs) \in Nat
         /\ result.ok \in BOOLEAN /\ result.to \in Response /\ result.of \in 0..conn
         /\ resp \in Response /\ conn \in Nat
<1>1. reqs \in Seq(BOOLEAN)
  BY DEF Inv, Typing, TypeOK
<1>2. Len(reqs) \in Nat
  BY <1>1, LenProperties
<1> QED BY <1>1, <1>2, TcpTypes, HttpAssumption DEF Inv, Typing, TypeOK

LEMMA GetStep ==
  ASSUME Inv, Get
  PROVE  Inv'
<1>1. /\ pc = "idle" /\ secure' \in BOOLEAN /\ redirect' = 0 /\ reqs' = <<>> /\ result' = NoResult
      /\ pc' = "request" /\ UNCHANGED <<tcpVars, raw, resp, then>>
  BY DEF Get
<1>2. UNCHANGED <<conn, lport, event, sndNxt, sndUna, rcvNxt, buf, cap, written, peer, ports>>
  BY <1>1 DEF tcpVars
<1>3. reqs' \in Seq(BOOLEAN) /\ Len(reqs') = 0
  BY <1>1
<1>4. Typing'
  <2>1. result'.ok \in BOOLEAN /\ result'.to \in Response
    BY <1>1, NoResponseType, Zenon
  <2>2. result'.of \in 0..conn
    <3>1. result'.of = 0
      BY <1>1, NoResponseType, Zenon
    <3> QED BY <3>1, HttpTypes
  <2>3. pc' \in Phase /\ redirect' \in 0..MaxRedirect /\ Len(reqs') <= MaxRedirect + 1
    BY <1>1, <1>3, HttpTypes DEF Phase
  <2> QED BY <1>1, <1>3, <2>1, <2>2, <2>3, TcpTyping
<1>5. CountInv'
  BY <1>1, <1>2 DEF Inv, CountInv
<1>6. ReqInv'
  BY <1>1, <1>3 DEF ReqInv, NoDowngrade
<1>7. PortInv' /\ PeerInv'
  BY <1>1, <1>2, PortFrame, PeerIdle DEF Busy
<1>8. PosInv'
  <2>1. Arrived' = Arrived
    BY <1>2 DEF Arrived
  <2> QED BY <1>1, <1>2, <2>1, PosFrame
<1>9. JudgeInv'
  BY <1>1 DEF JudgeInv, ToJudge
<1>10. BodyWhole'
  <2>1. ~result'.ok
    BY <1>1, NoResponseType, Zenon
  <2> QED BY <2>1 DEF BodyWhole
<1> QED BY <1>4, <1>5, <1>6, <1>7, <1>8, <1>9, <1>10 DEF Inv

(* A redirect of a secure request is only followed to a secure one. *)
LEMMA ResolveSecure ==
  ASSUME Inv, NEW loc, NEW s \in ResolveRedirect(loc)
  PROVE  s \in BOOLEAN /\ (secure => s)
<1>1. CASE loc = "https"
  BY <1>1 DEF ResolveRedirect
<1>2. CASE loc = "http"
  BY <1>2 DEF ResolveRedirect
<1>3. CASE loc \in {"scheme-relative", "relative"}
  BY <1>3, HttpTypes DEF ResolveRedirect
<1>4. CASE loc \notin {"https", "http", "scheme-relative", "relative"}
  BY <1>4 DEF ResolveRedirect
<1> QED BY <1>1, <1>2, <1>3, <1>4

LEMMA FollowStep ==
  ASSUME Inv, Follow
  PROVE  Inv'
<1>1. PICK s \in ResolveRedirect(resp.location) : secure' = s
  BY DEF Follow
<1>2. /\ pc = "judge" /\ redirect < MaxRedirect /\ redirect' = redirect + 1 /\ pc' = "request"
      /\ UNCHANGED <<tcpVars, raw, resp, then, reqs, result>>
  BY DEF Follow
<1>3. UNCHANGED <<conn, lport, event, sndNxt, sndUna, rcvNxt, buf, cap, written, peer, ports>>
  BY <1>2 DEF tcpVars
<1>4. secure' \in BOOLEAN /\ (secure => secure')
  BY <1>1, ResolveSecure
<1>5. Typing'
  <2>1. pc' \in Phase /\ redirect' \in 0..MaxRedirect
    BY <1>2, HttpTypes DEF Phase
  <2>2. /\ result'.ok \in BOOLEAN /\ result'.to \in Response /\ result'.of \in 0..conn
        /\ reqs' \in Seq(BOOLEAN) /\ Len(reqs') <= MaxRedirect + 1
    BY <1>2, HttpTypes
  <2> QED BY <1>2, <1>4, <2>1, <2>2, TcpTyping
<1>6. CountInv'
  BY <1>2, <1>3 DEF Inv, CountInv
<1>7. ReqInv'
  <2>1. Len(reqs') <= redirect' + 1 /\ (pc' = "request" => Len(reqs') <= redirect')
    BY <1>2, HttpTypes DEF Inv, ReqInv
  <2>2. \A i \in 1..Len(reqs') : reqs'[i] => secure'
    BY <1>2, <1>4 DEF Inv, ReqInv
  <2>3. NoDowngrade'
    BY <1>2 DEF Inv, ReqInv, NoDowngrade
  <2> QED BY <2>1, <2>2, <2>3 DEF ReqInv
<1>8. PortInv' /\ PeerInv' /\ BodyWhole'
  BY <1>2, <1>3, PortFrame, PeerIdle, BodyFrame DEF Busy
<1>9. PosInv'
  <2>1. Arrived' = Arrived
    BY <1>3 DEF Arrived
  <2> QED BY <1>2, <1>3, <2>1, PosFrame
<1>10. JudgeInv'
  BY <1>2 DEF JudgeInv, ToJudge
<1> QED BY <1>5, <1>6, <1>7, <1>8, <1>9, <1>10 DEF Inv

LEMMA NextPortIs ==
  ASSUME Inv, conn < MaxConn
  PROVE  /\ NextPort(lport) = PortOf(conn + 1)
         /\ NextPort(lport) \in 0..(Ports - 1) /\ NextPort(lport) \in Nat
         /\ conn + 1 \in Nat /\ conn + 1 <= Ports
<1>1. Ports \in Nat /\ Ports > 0 /\ MaxConn \in 0..Ports /\ conn \in Nat
  BY TcpAssumption, HttpAssumption, HttpTypes
<1>2. lport = conn /\ conn < Ports
  BY <1>1 DEF Inv, PortInv, PortOf
<1>3. CASE conn + 1 = Ports
  <2>1. (conn + 1) % Ports = 0
    BY <1>1, <1>3
  <2> QED BY <1>1, <1>2, <1>3, <2>1 DEF NextPort, PortOf
<1>4. CASE conn + 1 # Ports
  <2>1. conn + 1 \in 0..(Ports - 1)
    BY <1>1, <1>2, <1>4
  <2>2. (conn + 1) % Ports = conn + 1
    BY <1>1, <2>1
  <2> QED BY <1>1, <1>2, <1>4, <2>1, <2>2 DEF NextPort, PortOf
<1> QED BY <1>3, <1>4

LEMMA RequestStep ==
  ASSUME Inv, Request
  PROVE  Inv'
<1>1. /\ pc = "request" /\ conn < MaxConn /\ pc' = "connect" /\ reqs' = Append(reqs, secure)
      /\ raw' = <<>> /\ resp' = NoResponse /\ UNCHANGED <<secure, redirect, then, result>>
  BY DEF Request
<1>2. /\ conn' = conn + 1 /\ lport' = NextPort(lport) /\ event' = 1 /\ sndNxt' = ClientIss + 1
      /\ sndUna' = ClientIss /\ rcvNxt' = 0 /\ buf' = <<>> /\ cap' = BufCap /\ written' = 0
      /\ peer' = NewPeer /\ ports' = Append(ports, lport')
  BY DEF Request, Connect
<1>3. /\ lport' = PortOf(conn + 1) /\ lport' \in 0..(Ports - 1) /\ lport' \in Nat
      /\ conn + 1 \in Nat /\ conn + 1 <= Ports /\ conn \in Nat
  BY <1>1, <1>2, NextPortIs, HttpTypes
<1>4. ports \in Seq(Nat) /\ Len(ports) = conn
  BY DEF Inv, Typing, TypeOK, TcpTypeOK
<1>5. /\ ports' \in Seq(Nat) /\ Len(ports') = conn + 1
      /\ \A c \in 1..conn : ports'[c] = ports[c]
      /\ ports'[conn + 1] = lport'
  BY <1>2, <1>3, <1>4, AppendProperties
<1>6. /\ reqs' \in Seq(BOOLEAN) /\ Len(reqs') = Len(reqs) + 1
      /\ \A i \in 1..Len(reqs) : reqs'[i] = reqs[i]
      /\ reqs'[Len(reqs) + 1] = secure
  BY <1>1, HttpTypes, AppendProperties
<1>7. Typing'
  <2>1. /\ Modulus \in Nat /\ ClientIss \in Nat /\ Chunks \in Nat \ {0}
        /\ BufCap \in Nat \ {0} /\ RawCap \in Nat \ {0} /\ ClientIss + Chunks + 2 < Modulus
    BY TcpAssumption, HttpAssumption
  <2>2. {sndNxt', sndUna', rcvNxt'} \subseteq 0..(Modulus - 1) /\ written' \in 0..Chunks
    BY <1>2, <2>1
  <2>3. /\ buf' \in Seq(Byte) /\ Len(buf') <= BufCap /\ cap' \in {0, BufCap} /\ event' \in -1..4
        /\ raw' \in Seq(Byte) /\ Len(raw') <= RawCap
    BY <1>1, <1>2, <2>1
  <2>4. TcpTypeOK'
    BY <1>2, <1>3, <1>5, <2>2, <2>3, NewPeerType DEF TcpTypeOK
  <2>5. Len(reqs') <= MaxRedirect + 1
    BY <1>1, <1>6, HttpTypes DEF Inv, ReqInv
  <2>6. result'.ok \in BOOLEAN /\ result'.to \in Response /\ result'.of \in 0..conn'
    <3>1. result.of \in 0..(conn + 1)
      BY <1>3, HttpTypes
    <3> QED BY <1>1, <1>2, <3>1, HttpTypes
  <2>7. resp' \in Response /\ then' \in {"idle", "judge"} /\ secure' \in BOOLEAN /\ redirect' \in 0..MaxRedirect
    BY <1>1, NoResponseType, HttpTypes, ThenType, Zenon
  <2>8. TypeOK'
    BY <1>1, <1>6, <2>3, <2>4, <2>5, <2>6, <2>7 DEF TypeOK
  <2> QED BY <1>5, <2>3, <2>8 DEF Typing
<1>8. CountInv'
  BY <1>1, <1>2, NewPeerType, ClientNumbers DEF CountInv
<1>9. ReqInv'
  <2>1. Len(reqs') <= redirect' + 1
    BY <1>1, <1>6, HttpTypes DEF Inv, ReqInv
  <2>2. \A i \in 1..Len(reqs') : i \in 1..Len(reqs) \/ i = Len(reqs) + 1
    BY <1>6, HttpTypes
  <2>3. \A i \in 1..Len(reqs') : reqs'[i] => secure
    BY <1>6, <2>2 DEF Inv, ReqInv
  <2>4. NoDowngrade'
    <3> SUFFICES ASSUME NEW i \in 1..Len(reqs'), NEW j \in 1..Len(reqs'), i < j, reqs'[i]
                 PROVE  reqs'[j]
      BY DEF NoDowngrade
    <3>1. CASE j = Len(reqs) + 1
      BY <1>6, <2>3, <3>1
    <3>2. CASE j \in 1..Len(reqs)
      <4>1. i \in 1..Len(reqs)
        BY <3>2, HttpTypes
      <4> QED BY <1>6, <3>2, <4>1 DEF Inv, ReqInv, NoDowngrade
    <3> QED BY <2>2, <3>1, <3>2
  <2> QED BY <1>1, <2>1, <2>3, <2>4 DEF ReqInv
<1>10. PortInv'
  <2>1. MaxConn \in Nat
    BY HttpAssumption, TcpAssumption
  <2>2. conn' <= MaxConn /\ lport' = PortOf(conn')
    BY <1>1, <1>2, <1>3, <2>1
  <2>3. \A c \in 1..conn' : ports'[c] = PortOf(c)
    <3>1. \A c \in 1..conn' : c \in 1..conn \/ c = conn + 1
      BY <1>2, <1>3
    <3>2. \A c \in 1..conn : ports'[c] = PortOf(c)
      BY <1>5 DEF Inv, PortInv
    <3> QED BY <1>3, <1>5, <3>1, <3>2
  <2> QED BY <2>2, <2>3 DEF PortInv
<1>11. PeerInv'
  BY <1>1, <1>2, NewPeerType, ModulusType DEF PeerInv, Busy
<1>12. PosInv'
  <2>1. Arrived' = 0
    BY <1>2, NewPeerType DEF Arrived
  <2> QED BY <1>1, <1>2, <2>1 DEF PosInv, Lost, Placed
<1>13. JudgeInv' /\ BodyWhole'
  BY <1>1, BodyFrame DEF JudgeInv, ToJudge
<1> QED BY <1>7, <1>8, <1>9, <1>10, <1>11, <1>12, <1>13 DEF Inv

(* What is read moves from the one buffer to the other. *)
LEMMA ReadMoves ==
  ASSUME Inv, ReadSome
  PROVE  /\ pc = "read" /\ Len(raw') <= RawCap /\ Len(buf') <= BufCap
         /\ raw' \in Seq(Byte) /\ buf' \in Seq(Byte)
         /\ UNCHANGED <<pc, conn, lport, event, sndNxt, sndUna, rcvNxt, cap, written, peer, ports>>
         /\ UNCHANGED <<secure, redirect, resp, then, reqs, result>>
         /\ \E n \in 1..Len(buf) :
              /\ raw' = raw \o SubSeq(buf, 1, n) /\ buf' = SubSeq(buf, n + 1, Len(buf))
              /\ Len(raw') = Len(raw) + n /\ Len(buf') = Len(buf) - n
<1>1. PICK n \in 1..Min({Len(buf), RawCap - Len(raw)}) :
        ReadBytes(n) /\ raw' = raw \o SubSeq(buf, 1, n)
  BY DEF ReadSome
<1>2. /\ pc = "read" /\ UNCHANGED <<pc, secure, redirect, resp, then, reqs, result>>
  BY DEF ReadSome
<1>3. /\ buf' = SubSeq(buf, n + 1, Len(buf))
      /\ UNCHANGED <<conn, lport, event, sndNxt, sndUna, rcvNxt, cap, written, peer, ports>>
  BY <1>1 DEF ReadBytes
<1>4. /\ buf \in Seq(Byte) /\ raw \in Seq(Byte) /\ Len(buf) \in Nat /\ Len(raw) \in Nat
      /\ Len(buf) <= BufCap /\ Len(raw) <= RawCap /\ RawCap \in Nat /\ BufCap \in Nat
  BY TcpTypes DEF Inv
<1>5. n \in 1..Len(buf) /\ Len(raw) + n <= RawCap
  <2>1. RawCap - Len(raw) \in Int
    BY <1>4
  <2>2. Min({Len(buf), RawCap - Len(raw)})
          = IF Len(buf) <= RawCap - Len(raw) THEN Len(buf) ELSE RawCap - Len(raw)
    BY <1>4, <2>1, MinTwo
  <2> QED BY <1>4, <2>2
<1>6. SubSeq(buf, 1, n) \in Seq(Byte) /\ Len(SubSeq(buf, 1, n)) = n
  <2>1. n \in Nat /\ n <= Len(buf) /\ 1 <= n + 1 /\ n - 1 + 1 = n
    BY <1>4, <1>5
  <2> QED BY <1>4, <2>1, PartIs
<1>7. buf' \in Seq(Byte) /\ Len(buf') = Len(buf) - n
  <2> DEFINE m == n + 1
  <2>1. m \in Nat /\ m >= 1 /\ m <= Len(buf) + 1 /\ Len(buf) - m + 1 = Len(buf) - n
    BY <1>4, <1>5
  <2>2. buf' = SubSeq(buf, m, Len(buf))
    BY <1>3
  <2> HIDE DEF m
  <2> QED BY <1>4, <2>1, <2>2, PartIs
<1>8. raw' \in Seq(Byte) /\ Len(raw') = Len(raw) + n
  BY <1>1, <1>4, <1>6, JoinIs
<1>9. Len(raw') <= RawCap /\ Len(buf') <= BufCap
  BY <1>4, <1>5, <1>7, <1>8
<1> QED BY <1>1, <1>2, <1>3, <1>5, <1>7, <1>8, <1>9

LEMMA ReadSomeStep ==
  ASSUME Inv, ReadSome
  PROVE  Inv'
<1>1. /\ pc = "read" /\ Len(raw') <= RawCap /\ Len(buf') <= BufCap
      /\ raw' \in Seq(Byte) /\ buf' \in Seq(Byte)
      /\ UNCHANGED <<pc, conn, lport, event, sndNxt, sndUna, rcvNxt, cap, written, peer, ports>>
      /\ UNCHANGED <<secure, redirect, resp, then, reqs, result>>
  BY ReadMoves
<1>2. Typing'
  <2>1. TcpTypeOK'
    BY <1>1 DEF Inv, Typing, TypeOK, TcpTypeOK
  <2>2. TypeOK'
    BY <1>1, <2>1 DEF Inv, Typing, TypeOK
  <2> QED BY <1>1, <2>2 DEF Inv, Typing
<1>3. CountInv'
  BY <1>1 DEF Inv, CountInv
<1>4. ReqInv' /\ PortInv' /\ BodyWhole'
  BY <1>1, ReqFrame, PortFrame, BodyFrame
<1>5. PeerInv'
  <2>1. pc' \in OpenPhase => peer.state = "open"
    BY <1>1 DEF Inv, PeerInv
  <2> QED BY <1>1, <2>1, PeerFrame DEF Busy
<1>6. PosInv'
  <2>1. PICK n \in 1..Len(buf) :
          /\ raw' = raw \o SubSeq(buf, 1, n) /\ buf' = SubSeq(buf, n + 1, Len(buf))
          /\ Len(raw') = Len(raw) + n /\ Len(buf') = Len(buf) - n
    BY ReadMoves
  <2>2. buf \in Seq(Byte) /\ raw \in Seq(Byte) /\ Len(buf) \in Nat /\ Len(raw) \in Nat
    BY TcpTypes DEF Inv
  <2>3. Arrived' = Arrived /\ Arrived \in Nat
    <3>1. /\ rcvNxt \in 0..(Modulus - 1) /\ peer.iss \in 0..(Modulus - 1) /\ peer.len \in Nat
      BY TcpTypes DEF Inv
    <3>2. Arrived \in Nat
      BY <3>1, ArrivedReached, ReachedIs
    <3> QED BY <1>1, <3>2 DEF Arrived
  <2>4. Lost' = Lost
    <3>1. Lost' = Arrived - (Len(raw) + n) - (Len(buf) - n)
      BY <2>1, <2>3, Zenon DEF Lost
    <3> QED BY <2>2, <2>3, <3>1 DEF Lost
  <2>5. Lost \in Nat /\ Placed(conn, raw, 0, Lost) /\ Placed(conn, buf, Len(raw), Lost)
    BY <2>2, <2>3 DEF Inv, PosInv, Lost
  <2> DEFINE l == Lost
             part == SubSeq(buf, 1, n)
  <2> HIDE DEF l
  <2>6. n \in 0..Len(buf)
    BY <2>1
  <2>7. Placed(conn, part, Len(raw), l) /\ Placed(conn, buf', Len(raw) + n, l)
    BY <2>1, <2>2, <2>5, <2>6, PlacedPart DEF l
  <2>8. part \in Seq(Byte)
    <3>1. n \in Nat /\ n <= Len(buf) /\ 1 <= n + 1
      BY <2>1, <2>2
    <3> QED BY <2>2, <3>1, PartIs
  <2> HIDE DEF part
  <2>9. Placed(conn, raw \o part, 0, l)
    <3>1. Placed(conn, part, 0 + Len(raw), l)
      BY <2>2, <2>7
    <3> QED BY <2>2, <2>5, <2>8, <3>1, PlacedJoin DEF l
  <2>10. Placed(conn, raw', 0, Lost) /\ Placed(conn, buf', Len(raw'), Lost)
    BY <2>1, <2>7, <2>9 DEF l, part
  <2> QED BY <1>1, <2>4, <2>5, <2>10 DEF PosInv, Placed
<1>7. JudgeInv'
  BY <1>1 DEF JudgeInv, ToJudge
<1> QED BY <1>2, <1>3, <1>4, <1>5, <1>6, <1>7 DEF Inv

LEMMA ReadOverStep ==
  ASSUME Inv, ReadOver
  PROVE  Inv'
<1>1. /\ pc = "read" /\ pc' = "closing"
      /\ then' = (IF secure /\ ~TlsComplete THEN "idle" ELSE "judge")
      /\ UNCHANGED <<conn, lport, event, sndNxt, sndUna, rcvNxt, buf, cap, written, peer, ports>>
      /\ UNCHANGED <<secure, redirect, raw, resp, reqs, result>>
  BY DEF ReadOver, CloseThen, tcpVars
<1>2. then' \in {"idle", "judge"} /\ (secure /\ ~TlsComplete => then' = "idle")
  BY <1>1
<1>3. Typing'
  BY <1>1, <1>2, MoveKeeps DEF Phase
<1>4. CountInv'
  BY <1>1 DEF Inv, CountInv
<1>5. ReqInv' /\ PortInv' /\ BodyWhole'
  BY <1>1, ReqFrame, PortFrame, BodyFrame
<1>6. PeerInv'
  <2>1. pc' \in OpenPhase => peer.state = "open"
    BY <1>1 DEF Inv, PeerInv
  <2> QED BY <1>1, <2>1, PeerFrame DEF Busy
<1>7. PosInv'
  <2>1. Arrived' = Arrived
    BY <1>1 DEF Arrived
  <2> QED BY <1>1, <2>1, PosFrame
<1>8. JudgeInv'
  <2>1. TlsComplete' = TlsComplete
    BY <1>1 DEF TlsComplete, Framed, Intact, StreamLen, Notify, Last
  <2> QED BY <1>1, <1>2, <2>1 DEF JudgeInv, ToJudge
<1> QED BY <1>3, <1>4, <1>5, <1>6, <1>7, <1>8 DEF Inv

LEMMA CloseReturnsStep ==
  ASSUME Inv, CloseReturns
  PROVE  Inv'
<1>1. /\ pc \in {"closing", "close"} /\ pc' = then
      /\ UNCHANGED <<secure, redirect, raw, resp, then, reqs, result>>
      /\ event' = 0 /\ buf' = <<>> /\ cap' = 0
      /\ UNCHANGED <<conn, lport, sndNxt, sndUna, rcvNxt, written, peer, ports>>
  BY DEF CloseReturns, Closable, Closed, httpVars
<1>2. then \in {"idle", "judge"} /\ peer.state = "open"
  BY <1>1, ThenType DEF Inv, PeerInv
<1>3. Typing'
  <2>1. buf' \in Seq(Byte) /\ Len(buf') = 0 /\ BufCap \in Nat
    BY <1>1, TcpTypes DEF Inv
  <2>2. TcpTypeOK'
    BY <1>1, <2>1 DEF Inv, Typing, TypeOK, TcpTypeOK
  <2>3. pc' \in Phase /\ resp' \in Response
    BY <1>1, <1>2, HttpTypes DEF Phase
  <2> QED BY <1>1, <2>1, <2>2, <2>3, HttpTyping
<1>4. CountInv'
  BY <1>1, <1>2 DEF Inv, CountInv
<1>5. ReqInv' /\ PortInv' /\ BodyWhole'
  BY <1>1, <1>2, ReqFrame, PortFrame, BodyFrame
<1>6. JudgeInv'
  BY <1>1, <1>2, JudgeFrame DEF ToJudge
<1>7. PeerInv'
  <2>1. StreamLen(resp)' = StreamLen(resp) /\ Offset(rcvNxt', peer'.iss) = Offset(rcvNxt, peer.iss)
    BY <1>1 DEF StreamLen, Notify, Last
  <2> QED BY <1>1, <1>2, <2>1 DEF Inv, PeerInv, Busy
<1>8. PosInv'
  <2>1. Arrived' = Arrived /\ Arrived \in Nat
    <3>1. /\ rcvNxt \in 0..(Modulus - 1) /\ peer.iss \in 0..(Modulus - 1) /\ peer.len \in Nat
      BY TcpTypes DEF Inv
    <3>2. Arrived \in Nat
      BY <3>1, ArrivedReached, ReachedIs
    <3> QED BY <1>1, <3>2 DEF Arrived
  <2>2. buf \in Seq(Byte) /\ raw \in Seq(Byte) /\ Len(buf) \in Nat /\ Len(raw) \in Nat
    BY TcpTypes DEF Inv
  <2> DEFINE l == Lost
             m == Arrived - Len(raw) - 0
  <2>3. l \in Nat /\ m \in Nat /\ l <= m /\ Placed(conn, raw, 0, l)
    BY <2>1, <2>2 DEF Inv, PosInv, Lost
  <2>4. Lost' = m
    BY <1>1, <2>1 DEF Lost
  <2> HIDE DEF l, m
  <2>5. Placed(conn, raw, 0, m)
    BY <2>2, <2>3, PlacedMore
  <2>6. Placed(conn, <<>>, Len(raw), m)
    BY EmptyPlaced
  <2> QED BY <1>1, <2>3, <2>4, <2>5, <2>6 DEF PosInv
<1> QED BY <1>3, <1>4, <1>5, <1>6, <1>7, <1>8 DEF Inv
-----------------------------------------------------------------------------
(* The judgement.                                                          *)

LEMMA ReturnStep ==
  ASSUME Inv, pc = "judge", pc' = "idle",
         UNCHANGED <<tcpVars, secure, redirect, raw, resp, then, reqs>>,
         result'.ok \in BOOLEAN, result'.to = resp, result'.of = conn, BodyWhole'
  PROVE  Inv'
<1>1. UNCHANGED <<conn, lport, event, sndNxt, sndUna, rcvNxt, buf, cap, written, peer, ports>>
  BY DEF tcpVars
<1>2. Typing'
  <2>1. result'.to \in Response /\ result'.of \in 0..conn /\ pc' \in Phase
    BY HttpTypes DEF Phase
  <2>2. /\ secure' \in BOOLEAN /\ redirect' \in 0..MaxRedirect
        /\ reqs' \in Seq(BOOLEAN) /\ Len(reqs') <= MaxRedirect + 1
    BY HttpTypes
  <2> QED BY <2>1, <2>2, TcpTyping
<1>3. CountInv'
  BY <1>1 DEF Inv, CountInv
<1>4. ReqInv' /\ PortInv' /\ PeerInv'
  BY <1>1, ReqFrame, PortFrame, PeerIdle DEF Busy
<1>5. PosInv'
  <2>1. Arrived' = Arrived
    BY <1>1 DEF Arrived
  <2> QED BY <1>1, <2>1, PosFrame
<1>6. JudgeInv'
  BY DEF JudgeInv, ToJudge
<1> QED BY <1>2, <1>3, <1>4, <1>5, <1>6 DEF Inv

LEMMA ReturnFails ==
  ASSUME Inv, pc = "judge", Return(FALSE, <<>>)
  PROVE  Inv'
<1>1. /\ result' = [ok |-> FALSE, secure |-> secure, body |-> <<>>, to |-> resp, of |-> conn]
      /\ pc' = "idle" /\ UNCHANGED <<tcpVars, secure, redirect, raw, resp, then, reqs>>
  BY DEF Return
<1>2. ~result'.ok /\ result'.ok \in BOOLEAN /\ result'.to = resp /\ result'.of = conn
  BY <1>1, Zenon
<1>3. BodyWhole'
  BY <1>2 DEF BodyWhole
<1> QED BY <1>1, <1>2, <1>3, ReturnStep

LEMMA RefuseStep ==
  ASSUME Inv, Refuse
  PROVE  Inv'
BY ReturnFails DEF Refuse

(* The bytes of the stream from a to j. *)
LEMMA DataFrom ==
  ASSUME NEW c \in Nat, NEW s \in Seq(Byte), NEW a \in Nat, NEW j \in Nat, a > 0, a <= j + 1,
         Len(s) = j - a + 1, \A i \in 1..(j - a + 1) : s[i] = <<c, a + i - 1>>
  PROVE  s = Data(c, a, j)
<1>1. /\ Data(c, a, j) \in Seq(Byte) /\ Len(Data(c, a, j)) = j - a + 1
      /\ \A i \in 1..(j - a + 1) : Data(c, a, j)[i] = <<c, a + i - 1>>
  BY DataType
<1>2. \A i \in 1..(j - a + 1) : s[i] = Data(c, a, j)[i]
  BY <1>1
<1> QED BY <1>1, <1>2, SeqEqual

(* The bytes behind the first. *)
LEMMA DataIs ==
  ASSUME NEW c \in Nat, NEW s \in Seq(Byte), NEW j \in Nat, j >= 1, Len(s) = j - 1,
         \A i \in 1..(j - 1) : s[i] = <<c, 1 + i>>
  PROVE  s = Data(c, 2, j)
<1> DEFINE two == 2
<1>1. two \in Nat /\ two > 0 /\ two <= j + 1 /\ j - two + 1 = j - 1
  OBVIOUS
<1>2. \A i \in 1..(j - 1) : two + i - 1 = 1 + i
  OBVIOUS
<1> HIDE DEF two
<1>3. \A i \in 1..(j - two + 1) : s[i] = <<c, two + i - 1>>
  BY <1>1, <1>2
<1>4. s = Data(c, two, j)
  BY <1>1, <1>3, DataFrom
<1> QED BY <1>4 DEF two

(* A response in which nothing is missing. *)
Whole == Intact /\ Len(raw) >= 1 + resp.body + Last(resp)

LEMMA RespTypes ==
  ASSUME Inv
  PROVE  /\ resp.body \in Nat /\ resp.framing \in Framing /\ Last(resp) \in {0, 1}
         /\ conn \in Nat /\ raw \in Seq(Byte) /\ Len(raw) \in Nat
<1>1. resp \in Response /\ conn \in Nat /\ raw \in Seq(Byte) /\ Len(raw) \in Nat
  BY HttpTypes, TcpTypes DEF Inv
<1> QED BY <1>1 DEF Response, Last

LEMMA SecureWhole ==
  ASSUME Inv, pc = "judge", secure
  PROVE  Whole
<1>1. TlsComplete
  BY DEF Inv, JudgeInv, ToJudge
<1>2. CASE Framed
  BY <1>2 DEF Framed, Whole
<1>3. CASE Intact /\ Len(raw) = StreamLen(resp)
  <2>1. Notify = 1
    BY DEF Notify
  <2> QED BY <1>3, <2>1, RespTypes DEF StreamLen, Whole
<1> QED BY <1>1, <1>2, <1>3 DEF TlsComplete

(* In the clear: as many bytes as the length says are all the peer sent,   *)
(* so that none of them can have been lost.                                *)
LEMMA LengthWhole ==
  ASSUME Inv, pc = "judge", ~secure, resp.framing = "length", Len(raw) >= 1 + resp.body
  PROVE  Whole
<1>1. /\ resp.body \in Nat /\ conn \in Nat /\ raw \in Seq(Byte) /\ Len(raw) \in Nat
  BY RespTypes
<1>2. Last(resp) = 0 /\ Notify = 0
  BY DEF Last, Notify
<1>3. peer.state = "open" /\ peer.len = StreamLen(resp)
  BY DEF Inv, PeerInv, Busy
<1>4. peer.len = 1 + resp.body
  BY <1>1, <1>2, <1>3 DEF StreamLen
<1>5. Arrived \in Nat /\ Arrived <= peer.len
  <2>1. /\ rcvNxt \in 0..(Modulus - 1) /\ peer.iss \in 0..(Modulus - 1) /\ peer.len \in Nat
    BY TcpTypes DEF Inv
  <2> QED BY <2>1, ArrivedReached, ReachedIs
<1>6. Lost = 0
  <2>1. Len(buf) \in Nat /\ Lost >= 0
    BY TcpTypes DEF Inv, PosInv
  <2> QED BY <1>1, <1>4, <1>5, <2>1 DEF Lost
<1>7. Intact
  <2> SUFFICES ASSUME NEW i \in 1..Len(raw) PROVE raw[i] = <<conn, i>>
    BY DEF Intact
  <2>1. raw[i] \in Byte /\ i \in Nat
    BY <1>1, ElementOfSeq
  <2>2. raw[i] = <<raw[i][1], raw[i][2]>> /\ raw[i][2] \in Nat
    BY <2>1 DEF Byte
  <2>3. raw[i][1] = conn /\ 0 + i <= raw[i][2] /\ raw[i][2] <= 0 + i + 0
    BY <1>6 DEF Inv, PosInv, Placed
  <2>4. raw[i][2] = i
    BY <2>1, <2>2, <2>3
  <2> QED BY <2>2, <2>3, <2>4
<1> QED BY <1>1, <1>2, <1>7 DEF Whole

BodyFirst == IF HasBom(resp) THEN 3 ELSE 2

BodyEnd == 1 + resp.body + (IF resp.framing = "odd" THEN 1 ELSE 0)

LEMMA ReturnWhole ==
  ASSUME Inv, pc = "judge", NEW body, Return(TRUE, body),
         secure \/ resp.framing = "length" => body = Data(conn, BodyFirst, BodyEnd)
  PROVE  Inv'
<1>1. /\ result' = [ok |-> TRUE, secure |-> secure, body |-> body, to |-> resp, of |-> conn]
      /\ pc' = "idle" /\ UNCHANGED <<tcpVars, secure, redirect, raw, resp, then, reqs>>
  BY DEF Return
<1>2. /\ result'.ok \in BOOLEAN /\ result'.secure = secure /\ result'.body = body
      /\ result'.to = resp /\ result'.of = conn
  BY <1>1, Zenon
<1>3. BodyWhole'
  <2> SUFFICES ASSUME result'.secure \/ result'.to.framing = "length"
               PROVE  result'.body = Data(result'.of, IF HasBom(result'.to) THEN 3 ELSE 2,
                                          1 + result'.to.body
                                            + (IF result'.to.framing = "odd" THEN 1 ELSE 0))
    BY Zenon DEF BodyWhole, Data, HasBom
  <2>1. body = Data(conn, BodyFirst, BodyEnd)
    BY <1>2, Zenon
  <2> QED BY <1>2, <2>1, Zenon DEF BodyFirst, BodyEnd
<1> QED BY <1>1, <1>2, <1>3, ReturnStep

Received == SubSeq(raw, 2, Min({Len(raw), 1 + resp.body + Last(resp)}))

LEMMA ReceivedIs ==
  ASSUME Inv, ~Malformed
  PROVE  /\ Received \in Seq(Byte) /\ Len(raw) >= 1
         /\ Len(Received) = IF Len(raw) <= 1 + resp.body + Last(resp) THEN Len(raw) - 1
                            ELSE resp.body + Last(resp)
<1>1. /\ resp.body \in Nat /\ Last(resp) \in {0, 1} /\ raw \in Seq(Byte) /\ Len(raw) \in Nat
  BY RespTypes
<1>2. Len(raw) >= 1
  <2>1. raw # <<>>
    BY DEF Malformed
  <2> QED BY <1>1, <2>1, EmptySeq
<1> DEFINE m == Min({Len(raw), 1 + resp.body + Last(resp)})
<1>3. m = IF Len(raw) <= 1 + resp.body + Last(resp) THEN Len(raw) ELSE 1 + resp.body + Last(resp)
  <2>1. 1 + resp.body + Last(resp) \in Int
    BY <1>1
  <2> QED BY <1>1, <2>1, MinTwo
<1>4. Received = SubSeq(raw, 2, m)
  BY DEF Received
<1> HIDE DEF m
<1>5. m \in Nat /\ m >= 1 /\ m <= Len(raw) /\ 2 <= m + 1 /\ m - 2 + 1 = m - 1
  BY <1>1, <1>2, <1>3
<1>6. SubSeq(raw, 2, m) \in Seq(Byte) /\ Len(SubSeq(raw, 2, m)) = m - 1
  BY <1>1, <1>5, PartIs
<1> QED BY <1>1, <1>2, <1>3, <1>4, <1>6

LEMMA ReceivedWhole ==
  ASSUME Inv, ~Malformed, Whole
  PROVE  /\ Received = Data(conn, 2, 1 + resp.body + Last(resp))
         /\ Received \in Seq(Byte) /\ Len(Received) = resp.body + Last(resp)
         /\ \A i \in 1..Len(Received) : Received[i] = <<conn, 1 + i>>
<1>1. /\ resp.body \in Nat /\ Last(resp) \in {0, 1} /\ raw \in Seq(Byte) /\ Len(raw) \in Nat
      /\ conn \in Nat
  BY RespTypes
<1> DEFINE m == 1 + resp.body + Last(resp)
<1>2. m \in Nat /\ m >= 1 /\ m <= Len(raw) /\ 2 <= m + 1 /\ m - 2 + 1 = m - 1 /\ m - 1 = resp.body + Last(resp)
  BY <1>1 DEF Whole
<1>3. Received = SubSeq(raw, 2, m)
  <2>1. Min({Len(raw), m}) = m
    <3> HIDE DEF m
    <3>1. m \in Int /\ Len(raw) \in Int
      BY <1>1, <1>2
    <3>2. Min({Len(raw), m}) = IF Len(raw) <= m THEN Len(raw) ELSE m
      BY <3>1, MinTwo
    <3> QED BY <1>1, <1>2, <3>2
  <2> QED BY <2>1 DEF Received
<1> HIDE DEF m
<1>4. /\ Received \in Seq(Byte) /\ Len(Received) = m - 1
      /\ \A i \in 1..(m - 1) : Received[i] = raw[1 + i]
  <2>1. /\ SubSeq(raw, 2, m) \in Seq(Byte) /\ Len(SubSeq(raw, 2, m)) = m - 2 + 1
        /\ \A i \in 1..(m - 2 + 1) : SubSeq(raw, 2, m)[i] = raw[2 + i - 1]
    BY <1>1, <1>2, PartIs
  <2>2. \A i \in 1..(m - 1) : 2 + i - 1 = 1 + i
    BY <1>2
  <2> QED BY <1>2, <1>3, <2>1, <2>2
<1>5. \A i \in 1..(m - 1) : Received[i] = <<conn, 1 + i>>
  <2> TAKE i \in 1..(m - 1)
  <2> DEFINE k == 1 + i
  <2>1. k \in 1..Len(raw) /\ Received[i] = raw[k]
    BY <1>1, <1>2, <1>4
  <2> HIDE DEF k
  <2>2. raw[k] = <<conn, k>>
    BY <2>1 DEF Whole, Intact
  <2> QED BY <2>1, <2>2 DEF k
<1>6. Received = Data(conn, 2, m)
  BY <1>1, <1>2, <1>4, <1>5, DataIs
<1> QED BY <1>2, <1>4, <1>5, <1>6 DEF m

(* What is left when the byte order mark has been taken off. *)
Unmarked == WithoutBom(Received)

LEMMA TailLen ==
  ASSUME NEW s \in Seq(Byte), s # <<>>
  PROVE  /\ Tail(s) \in Seq(Byte) /\ Len(Tail(s)) = Len(s) - 1
         /\ \A i \in 1..(Len(s) - 1) : Tail(s)[i] = s[i + 1]
BY HeadTailProperties

(* Of a whole body that has a mark, the mark is taken off. *)
LEMMA MarkTaken ==
  ASSUME Inv, ~Malformed, Whole, HasBom(resp)
  PROVE  /\ Unmarked = Tail(Received) /\ Received # <<>>
         /\ Tail(Received) = Data(conn, 3, 1 + resp.body)
<1>1. /\ resp.body \in Nat /\ resp.body > 0 /\ Last(resp) = 0 /\ conn \in Nat
  BY RespTypes DEF HasBom, Last
<1>2. /\ Received \in Seq(Byte) /\ Len(Received) = resp.body
      /\ \A i \in 1..Len(Received) : Received[i] = <<conn, 1 + i>>
  BY <1>1, ReceivedWhole
<1>3. Received # <<>> /\ Received[1] = <<conn, 2>>
  <2>1. 1 \in 1..Len(Received) /\ Len(Received) # 0
    BY <1>1, <1>2
  <2> QED BY <1>2, <2>1, EmptySeq
<1>4. Unmarked = Tail(Received)
  <2>1. Head(Received) = Received[1]
    BY <1>2, <1>3, HeadTailProperties
  <2> QED BY <1>3, <2>1 DEF Unmarked, WithoutBom
<1> DEFINE t == Tail(Received)
           j == 1 + resp.body
           three == 3
<1>5. t \in Seq(Byte) /\ Len(t) = resp.body - 1 /\ \A i \in 1..(resp.body - 1) : t[i] = Received[i + 1]
  BY <1>2, <1>3, TailLen
<1>6. three \in Nat /\ three > 0 /\ j \in Nat /\ three <= j + 1 /\ j - three + 1 = resp.body - 1
  BY <1>1
<1>7. \A i \in 1..(resp.body - 1) : t[i] = <<conn, three + i - 1>>
  <2> TAKE i \in 1..(resp.body - 1)
  <2> DEFINE k == i + 1
  <2>1. k \in 1..Len(Received) /\ 1 + k = three + i - 1 /\ t[i] = Received[k]
    BY <1>1, <1>2, <1>5
  <2> HIDE DEF k, three
  <2>2. Received[k] = <<conn, 1 + k>>
    BY <1>2, <2>1
  <2> QED BY <2>1, <2>2
<1> HIDE DEF t, j, three
<1>8. Len(t) = j - three + 1 /\ \A i \in 1..(j - three + 1) : t[i] = <<conn, three + i - 1>>
  BY <1>5, <1>6, <1>7
<1>9. t = Data(conn, three, j)
  BY <1>1, <1>5, <1>6, <1>8, DataFrom
<1> QED BY <1>3, <1>4, <1>9 DEF t, j, three

LEMMA JudgeStep ==
  ASSUME Inv, Judge
  PROVE  Inv'
<1>1. /\ pc = "judge" /\ ~Malformed
      /\ CASE resp.framing = "length" ->
                IF LengthHolds(Unmarked)
                THEN Return(TRUE, SubSeq(Unmarked, 1, Min({Len(Unmarked), resp.body})))
                ELSE Return(FALSE, <<>>)
           [] resp.framing = "chunked" ->
                \/ Return(TRUE, Decoded(Unmarked))
                \/ Return(FALSE, <<>>)
           [] OTHER -> Return(TRUE, Unmarked)
  BY DEF Judge, Unmarked, Received
<1>2. /\ resp.body \in Nat /\ resp.framing \in Framing /\ conn \in Nat /\ Last(resp) \in {0, 1}
      /\ Len(raw) \in Nat
  BY RespTypes
<1>3. CASE Return(FALSE, <<>>)
  BY <1>1, <1>3, ReturnFails
<1>4. CASE resp.framing = "length" /\ LengthHolds(Unmarked)
           /\ Return(TRUE, SubSeq(Unmarked, 1, Min({Len(Unmarked), resp.body})))
  <2>1. Last(resp) = 0 /\ BodyEnd = 1 + resp.body
    BY <1>2, <1>4 DEF Last, BodyEnd
  <2>2. Unmarked = Received
    <3>1. /\ Received \in Seq(Byte) /\ Len(Received) \in Nat /\ Len(Received) <= resp.body
      BY <1>1, <1>2, <2>1, ReceivedIs
    <3>2. ASSUME Unmarked = Tail(Received), Received # <<>> PROVE FALSE
      <4>1. Len(Tail(Received)) = Len(Received) - 1
        BY <3>1, <3>2, TailLen
      <4> QED BY <1>2, <1>4, <3>1, <3>2, <4>1 DEF LengthHolds
    <3> QED BY <3>2 DEF Unmarked, WithoutBom
  <2>3. Len(raw) >= 1 + resp.body
    BY <1>1, <1>2, <1>4, <2>1, <2>2, ReceivedIs DEF LengthHolds
  <2>4. Whole
    BY <1>1, <1>2, <1>4, <2>3, SecureWhole, LengthWhole, HttpTypes
  <2>5. /\ Received = Data(conn, 2, 1 + resp.body + Last(resp))
        /\ Received \in Seq(Byte) /\ Len(Received) = resp.body + Last(resp)
    BY <1>1, <2>4, ReceivedWhole
  <2>6. Len(Received) = resp.body /\ Received = Data(conn, 2, BodyEnd)
    BY <1>2, <2>1, <2>5
  <2>7. BodyFirst = 2
    <3>1. ASSUME HasBom(resp) PROVE FALSE
      <4>1. Unmarked = Tail(Received) /\ Received # <<>>
        BY <1>1, <2>4, <3>1, MarkTaken
      <4>2. Len(Tail(Received)) = Len(Received) - 1
        BY <2>5, <4>1, TailLen
      <4> QED BY <1>2, <2>2, <2>6, <4>1, <4>2
    <3> QED BY <3>1 DEF BodyFirst
  <2>8. Min({Len(Received), resp.body}) = Len(Received)
    BY <1>2, <2>6, MinTwo
  <2>9. SubSeq(Received, 1, Len(Received)) = Received
    BY <2>5, SubSeqFull
  <2> QED BY <1>1, <1>4, <2>2, <2>6, <2>7, <2>8, <2>9, ReturnWhole
<1>5. CASE resp.framing = "chunked" /\ Return(TRUE, Decoded(Unmarked))
  <2>1. ASSUME secure PROVE Decoded(Received) = Data(conn, 2, BodyEnd)
    <3>1. Last(resp) = 1 /\ BodyEnd = 1 + resp.body
      BY <1>2, <1>5 DEF Last, BodyEnd
    <3>2. /\ Received \in Seq(Byte) /\ Len(Received) = resp.body + 1
          /\ \A i \in 1..Len(Received) : Received[i] = <<conn, 1 + i>>
      BY <1>1, <2>1, <3>1, SecureWhole, ReceivedWhole
    <3>3. Received # <<>> /\ Received[Len(Received)] = <<conn, 1 + (resp.body + 1)>>
      <4>1. Len(Received) # 0 /\ Len(Received) \in 1..Len(Received)
        BY <1>2, <3>2
      <4> QED BY <3>2, <4>1, EmptySeq
    <3>4. Decoded(Received) = SubSeq(Received, 1, Len(Received) - 1)
      BY <1>2, <3>3 DEF Decoded
    <3>5. Len(Received) - 1 = resp.body
      BY <1>2, <3>2
    <3>6. SubSeq(Received, 1, resp.body) = Data(conn, 2, BodyEnd)
      <4> DEFINE b == SubSeq(Received, 1, resp.body)
      <4>1. /\ b \in Seq(Byte) /\ Len(b) = resp.body - 1 + 1
            /\ \A i \in 1..(resp.body - 1 + 1) : b[i] = Received[1 + i - 1]
        <5>1. 1 \in Nat /\ resp.body <= Len(Received) /\ 1 <= resp.body + 1
          BY <1>2, <3>2
        <5> QED BY <1>2, <3>2, <5>1, PartIs
      <4>2. \A i \in 1..resp.body : 1 + i - 1 = i /\ i \in 1..Len(Received)
        BY <1>2, <3>2
      <4>3. BodyEnd \in Nat /\ BodyEnd >= 1 /\ BodyEnd - 1 = resp.body /\ resp.body - 1 + 1 = resp.body
        BY <1>2, <3>1
      <4> HIDE DEF b
      <4>4. \A i \in 1..(BodyEnd - 1) : b[i] = <<conn, 1 + i>>
        BY <3>2, <4>1, <4>2, <4>3
      <4>5. b = Data(conn, 2, BodyEnd)
        BY <1>2, <4>1, <4>3, <4>4, DataIs
      <4> QED BY <4>5 DEF b
    <3> QED BY <3>4, <3>5, <3>6
  <2>2. BodyFirst = 2 /\ Unmarked = Received
    BY <1>5 DEF BodyFirst, HasBom, Unmarked, WithoutBom
  <2> QED BY <1>1, <1>5, <2>1, <2>2, ReturnWhole
<1>6. CASE resp.framing \in {"odd", "close"} /\ Return(TRUE, Unmarked)
  <2>1. ASSUME secure PROVE Unmarked = Data(conn, BodyFirst, BodyEnd)
    <3>1. 1 + resp.body + Last(resp) = BodyEnd
      BY <1>2, <1>6 DEF Last, BodyEnd
    <3>2. Whole
      BY <1>1, <2>1, SecureWhole
    <3>3. CASE HasBom(resp)
      <4>1. BodyFirst = 3 /\ BodyEnd = 1 + resp.body
        BY <1>2, <3>3 DEF BodyFirst, BodyEnd, HasBom
      <4> QED BY <1>1, <3>2, <3>3, <4>1, MarkTaken
    <3>4. CASE ~HasBom(resp)
      <4>1. BodyFirst = 2 /\ Unmarked = Received
        BY <3>4 DEF BodyFirst, Unmarked, WithoutBom
      <4> QED BY <1>1, <3>1, <3>2, <4>1, ReceivedWhole
    <3> QED BY <3>3, <3>4
  <2> QED BY <1>1, <1>6, <2>1, ReturnWhole
<1> QED BY <1>1, <1>2, <1>3, <1>4, <1>5, <1>6 DEF Framing
-----------------------------------------------------------------------------
(* Every step preserves the invariant.                                     *)

LEMMA NextOK == Inv /\ [Next]_vars => Inv'
<1> SUFFICES ASSUME Inv, [Next]_vars PROVE Inv'
  OBVIOUS
<1>1. CASE Get \/ GiveUp \/ Request
  BY <1>1, GetStep, GiveUpStep, RequestStep
<1>2. CASE ServerAccepts \/ StartWrite \/ StartRead \/ WriteFailed
  BY <1>2, ServerAcceptsStep, StartWriteStep, StartReadStep, WriteFailedStep
<1>3. CASE ReadSome \/ ReadOver \/ CloseReturns
  BY <1>3, ReadSomeStep, ReadOverStep, CloseReturnsStep
<1>4. CASE Follow \/ Refuse \/ Judge
  BY <1>4, FollowStep, RefuseStep, JudgeStep
<1>5. CASE Tcp
  BY <1>5, ArriveStep, PeerReceivesStep, SendChunkStep, ChunkSentStep, PollStep, SendFinStep DEF Tcp
<1>6. CASE Finished \/ UNCHANGED vars
  BY <1>6, StutterStep DEF Finished
<1> QED BY <1>1, <1>2, <1>3, <1>4, <1>5, <1>6 DEF Next

(* The invariant is inductive. *)
LEMMA Invariance == Spec => []Inv
BY InitOK, NextOK, PTL DEF Spec

(* The variables of the TCP client and of net_http_get stay in their       *)
(* ranges: neither buffer is overrun, no sequence number of the client     *)
(* wraps, and no more requests are sent than redirects are allowed.        *)
THEOREM TypeCorrect == Spec => []TypeOK
<1>1. Inv => TypeOK
  BY DEF Inv, Typing
<1> QED BY <1>1, Invariance, PTL

(* net_tcp_write returns success only when the peer has got every piece.   *)
THEOREM WriteReaches == Spec => []WriteReached
<1>1. Inv => WriteReached
  BY DEF Inv, CountInv, Written, WriteReached
<1> QED BY <1>1, Invariance, PTL

(* No redirect leads net_http_get from TLS back to the clear.              *)
THEOREM Downgrade == Spec => []NoDowngrade
<1>1. Inv => NoDowngrade
  BY DEF Inv, ReqInv
<1> QED BY <1>1, Invariance, PTL

(* A body that net_http_get returns as a success, over TLS or with a       *)
(* Content-Length, is the whole body of the response, less a byte order    *)
(* mark; a coding only tls.c recognises is returned with its last chunk.   *)
THEOREM WholeBody == Spec => []BodyWhole
<1>1. Inv => BodyWhole
  BY DEF Inv
<1> QED BY <1>1, Invariance, PTL
-----------------------------------------------------------------------------
(* The client implements ByteStream.                                       *)

LEMMA Quiet ==
  ASSUME UNCHANGED <<conn, cap, buf, raw>>, Arrived' = Arrived
  PROVE  UNCHANGED Stream!vars
BY DEF Stream!vars

LEMMA OpenStep ==
  ASSUME Inv, Request
  PROVE  Stream!Open
<1>1. conn' = conn + 1 /\ cap' = BufCap /\ buf' = <<>> /\ raw' = <<>> /\ peer' = NewPeer
  BY DEF Request, Connect
<1>2. Arrived' = 0
  BY <1>1, NewPeerType DEF Arrived
<1>3. cap' # 0
  BY <1>1, TcpAssumption
<1> QED BY <1>1, <1>2, <1>3 DEF Stream!Open

LEMMA ReceiveStep ==
  ASSUME Inv, NEW j \in Nat, Takes(j), UNCHANGED <<conn, cap, raw>>
  PROVE  \E kept \in 0..BufCap : Stream!Receive(kept)
<1>1. PICK k \in 0..(j - Arrived) :
        /\ Len(buf') = Len(buf) + k
        /\ k < j - Arrived => cap = 0 \/ Len(buf') = BufCap
        /\ buf' = buf \o Data(conn, Arrived + 1, Arrived + k)
  BY TakesEffect
<1>2. Arrived \in Nat /\ Arrived < j /\ Len(buf') <= BufCap
  BY TakesEffect
<1>3. Arrived' = j
  BY DEF Takes
<1>4. k \in 0..BufCap
  <2>1. Len(buf) \in Nat /\ BufCap \in Nat
    BY TcpTypes DEF Inv
  <2> QED BY <1>1, <1>2, <2>1
<1>5. buf' = buf \o Stream!Bytes(conn, Arrived + 1, Arrived + k)
  BY <1>1 DEF Data, Stream!Bytes
<1>6. Stream!Receive(k)
  <2>1. Arrived' \in Nat /\ Arrived' > Arrived /\ k <= Arrived' - Arrived
    BY <1>1, <1>2, <1>3
  <2>2. k < Arrived' - Arrived => ~(cap # 0) \/ Len(buf') = BufCap
    BY <1>1, <1>3
  <2> QED BY <1>5, <2>1, <2>2 DEF Stream!Receive
<1> QED BY <1>4, <1>6

LEMMA DeliverStep ==
  ASSUME Inv, ReadSome
  PROVE  \E n \in 1..Len(buf) : Stream!Deliver(n)
<1>1. PICK n \in 1..Len(buf) :
        raw' = raw \o SubSeq(buf, 1, n) /\ buf' = SubSeq(buf, n + 1, Len(buf))
  BY ReadMoves
<1>2. UNCHANGED <<conn, cap, rcvNxt, peer>>
  BY ReadMoves
<1>3. Arrived' = Arrived
  BY <1>2 DEF Arrived
<1> QED BY <1>1, <1>2, <1>3 DEF Stream!Deliver

LEMMA HangUpStep ==
  ASSUME Inv, CloseReturns
  PROVE  Stream!HangUp
<1>1. cap' = 0 /\ buf' = <<>> /\ UNCHANGED <<conn, rcvNxt, peer, raw>>
  BY DEF CloseReturns, Closed, httpVars
<1>2. Arrived' = Arrived
  BY <1>1 DEF Arrived
<1> QED BY <1>1, <1>2 DEF Stream!HangUp

LEMMA ArriveSimulates ==
  ASSUME Inv, Arrive, UNCHANGED httpVars
  PROVE  [Stream!Next]_(Stream!vars)
<1>1. StreamStep /\ UNCHANGED <<conn, cap>> /\ UNCHANGED raw
  BY HandleStep DEF httpVars
<1>2. CASE buf' = buf /\ Arrived' = Arrived
  BY <1>1, <1>2, Quiet
<1>3. ASSUME NEW j \in Nat, Takes(j)
      PROVE  Stream!Next
  BY <1>1, <1>3, ReceiveStep DEF Stream!Next
<1> QED BY <1>1, <1>2, <1>3 DEF StreamStep

LEMMA AcceptSimulates ==
  ASSUME Inv, ServerAccepts
  PROVE  UNCHANGED Stream!vars
<1>1. PICK r \in Responses : PeerAccepts(StreamLen(r)) /\ UNCHANGED raw
  BY DEF ServerAccepts
<1>2. PICK i \in PeerIss :
        peer' = [peer EXCEPT !.state = "syn", !.iss = i, !.len = StreamLen(r)]
  BY <1>1 DEF PeerAccepts
<1>3. peer.state = "none" /\ UNCHANGED <<conn, cap, buf>>
  BY <1>1 DEF PeerAccepts
<1>4. peer = [state |-> peer.state, iss |-> peer.iss, got |-> peer.got, len |-> peer.len]
  BY TcpTypes DEF Inv
<1>5. peer' = [state |-> "syn", iss |-> i, got |-> peer.got, len |-> StreamLen(r)]
  BY <1>2, <1>4
<1>6. peer'.state = "syn"
  BY <1>5
<1>7. Arrived' = Arrived
  BY <1>3, <1>6 DEF Arrived
<1> QED BY <1>1, <1>3, <1>7, Quiet

LEMMA GotSimulates ==
  ASSUME Inv, PeerReceives, UNCHANGED httpVars
  PROVE  UNCHANGED Stream!vars
<1>1. peer' = [peer EXCEPT !.got = @ + 1] /\ UNCHANGED <<conn, cap, buf, rcvNxt, raw>>
  BY DEF PeerReceives, httpVars
<1>2. peer = [state |-> peer.state, iss |-> peer.iss, got |-> peer.got, len |-> peer.len]
  BY TcpTypes DEF Inv
<1>3. peer' = [state |-> peer.state, iss |-> peer.iss, got |-> peer.got + 1, len |-> peer.len]
  BY <1>1, <1>2
<1>4. peer'.state = peer.state /\ peer'.iss = peer.iss /\ peer'.len = peer.len
  BY <1>3
<1>5. Arrived' = Arrived
  BY <1>1, <1>4 DEF Arrived
<1> QED BY <1>1, <1>5, Quiet

(* Every other step leaves the stream alone. *)
LEMMA OtherSimulates ==
  ASSUME UNCHANGED <<conn, cap, buf, raw, rcvNxt, peer>>
  PROVE  UNCHANGED Stream!vars
<1>1. Arrived' = Arrived
  BY DEF Arrived
<1> QED BY <1>1, Quiet

LEMMA StepSimulates ==
  ASSUME Inv, [Next]_vars
  PROVE  [Stream!Next]_(Stream!vars)
<1>1. CASE Request
  BY <1>1, OpenStep DEF Stream!Next
<1>2. CASE ReadSome
  BY <1>2, DeliverStep DEF Stream!Next
<1>3. CASE CloseReturns
  BY <1>3, HangUpStep DEF Stream!Next
<1>4. CASE ServerAccepts
  BY <1>4, AcceptSimulates
<1>5. CASE Tcp
  <2>1. CASE Arrive
    BY <1>5, <2>1, ArriveSimulates DEF Tcp
  <2>2. CASE PeerReceives
    BY <1>5, <2>2, GotSimulates DEF Tcp
  <2>3. CASE SendChunk \/ ChunkSent \/ ReadPolls \/ PollReturns \/ SendFin
    <3>1. UNCHANGED <<conn, cap, buf, raw, rcvNxt, peer>>
      BY <1>5, <2>3 DEF Tcp, SendChunk, ChunkSent, ReadPolls, PollReturns, SendFin, tcpVars, httpVars
    <3> QED BY <3>1, OtherSimulates
  <2> QED BY <1>5, <2>1, <2>2, <2>3 DEF Tcp
<1>6. CASE \/ Get \/ GiveUp \/ StartWrite \/ StartRead \/ WriteFailed \/ ReadOver
           \/ Follow \/ Refuse \/ Finished \/ UNCHANGED vars
  <2>1. UNCHANGED <<conn, cap, buf, raw, rcvNxt, peer>>
    BY <1>6 DEF Get, GiveUp, StartWrite, StartRead, WriteFailed, ReadOver, CloseThen, Follow,
                Refuse, Return, Finished, vars, tcpVars, httpVars
  <2> QED BY <2>1, OtherSimulates
<1>7. CASE Judge
  <2>1. UNCHANGED <<tcpVars, secure, redirect, raw, resp, then, reqs>>
    BY <1>7 DEF Judge, Return
  <2> QED BY <2>1, OtherSimulates DEF tcpVars
<1> QED BY <1>1, <1>2, <1>3, <1>4, <1>5, <1>6, <1>7 DEF Next

LEMMA InitSimulates == Init => Stream!Init
<1> SUFFICES ASSUME Init PROVE Stream!Init
  OBVIOUS
<1>1. conn = 0 /\ cap = 0 /\ buf = <<>> /\ raw = <<>> /\ peer = NewPeer
  BY DEF Init, TcpInit
<1>2. Arrived = 0
  BY <1>1, NewPeerType DEF Arrived
<1> QED BY <1>1, <1>2 DEF Stream!Init

(* What net_tcp_connect, net_tcp_read and net_tcp_close do with segments   *)
(* that are late, doubled, overlapping or lost is what ByteStream allows.  *)
THEOREM Refinement == Spec => ImplementsStream
<1>1. Spec => []Inv
  BY Invariance
<1>2. Init => Stream!Init
  BY InitSimulates
<1>3. Inv /\ [Next]_vars => [Stream!Next]_(Stream!vars)
  BY StepSimulates
<1> QED BY <1>1, <1>2, <1>3, PTL DEF Spec, ImplementsStream, Stream!Spec
=============================================================================
