--------------------------- MODULE InputLoopProofs --------------------------
(* Theorems about InputLoop, for rings of any size. *)
EXTENDS InputLoop, SequenceTheorems, TLAPS

(* Indices one turn apart are the same slot. *)
LEMMA ModTurn ==
  ASSUME NEW x \in Int, NEW n \in Nat, n > 0
  PROVE  /\ 0 <= x /\ x < n => x % n = x
         /\ n <= x /\ x < 2 * n => x % n = x - n
         /\ -n <= x /\ x < 0 => x % n = x + n
  OBVIOUS

(* The numbers of the bytes that the mouse sends. *)
LEMMA MouseByteBound ==
  ASSUME NEW k \in Nat, k < MaxPackets * PacketSize
  PROVE  /\ (k % PacketSize) + 1 \in 1..PacketSize
         /\ (k \div PacketSize) + 1 \in 0..(MaxKeys + MaxPackets)
<1>1. CASE PacketSize = 3
  BY <1>1, InputAssumption
<1>2. CASE PacketSize = 4
  BY <1>2, InputAssumption
<1>3. QED
  BY <1>1, <1>2, InputAssumption
-----------------------------------------------------------------------------
(* The packet and the place in it of the k-th byte that the mouse sends. *)
PacketOf(k) == ((k - 1) \div PacketSize) + 1
PosOf(k) == ((k - 1) % PacketSize) + 1

(* b is that byte. *)
Nth(b, k) == b.n = PacketOf(k) /\ b.pos = PosOf(k) /\ (PosOf(k) = 1 => b.sync)

(* Bytes of m packets. *)
Base(m) == m * PacketSize

LEMMA BaseNext ==
  ASSUME NEW m \in Nat
  PROVE  Base(m) \in Nat /\ Base(m + 1) = Base(m) + PacketSize
<1>1. CASE PacketSize = 3
  BY <1>1 DEF Base
<1>2. CASE PacketSize = 4
  BY <1>2 DEF Base
<1>3. QED
  BY <1>1, <1>2, InputAssumption

LEMMA PacketPosition ==
  ASSUME NEW m \in Nat, NEW j \in 1..PacketSize
  PROVE  PacketOf(Base(m) + j) = m + 1 /\ PosOf(Base(m) + j) = j
<1>1. CASE PacketSize = 3
  BY <1>1 DEF Base, PacketOf, PosOf
<1>2. CASE PacketSize = 4
  BY <1>2 DEF Base, PacketOf, PosOf
<1>3. QED
  BY <1>1, <1>2, InputAssumption

(***************************************************************************)
(* The inductive invariant behind RingsAreQueues: between its test and its *)
(* update of the tail the loop owns the slot at the tail, although the     *)
(* handlers run in between.                                                *)
(***************************************************************************)
SlotInv ==
  /\ at \in {"read", "advance"} => head[dev] # tail[dev]
  /\ at = "advance" => byte = buf[dev][tail[dev]]

Pending == at = "handle" /\ dev = "mouse"

(***************************************************************************)
(* The inductive invariant behind PacketsFramed: without a refused byte,   *)
(* what is in the ring, in the loop's hand, in the packet begun and in the *)
(* packets handled are the bytes of the mouse, counted through.            *)
(***************************************************************************)
Counted(p, q, pending, b, pk, hd) ==
  /\ p \in Nat
  /\ \A i \in 1..Len(q) : Nth(q[i], p + i)
  /\ pending => Nth(b, p)
  /\ p = Base(Len(hd)) + Len(pk) + (IF pending THEN 1 ELSE 0)
  /\ Len(pk) < PacketSize
  /\ \A i \in 1..Len(pk) : Nth(pk[i], Base(Len(hd)) + i)
  /\ \A k \in 1..Len(hd) : \A i \in 1..PacketSize : Nth(hd[k][i], Base(k - 1) + i)

Popped == sent["mouse"] - Len(Contents("mouse"))

PacketInv ==
  dropped["mouse"] = 0 =>
    Counted(Popped, Contents("mouse"), Pending, byte, packet, handled)

(* Every interrupt of a device brings one byte of it. *)
LEMMA IrqBytes ==
  ASSUME TypeOK
  PROVE  /\ KeyboardIrq => \E b \in Byte : Isr("key", b)
         /\ MouseIrq => \E b \in Byte : Isr("mouse", b) /\ Nth(b, sent["mouse"] + 1)
<1>1. ASSUME KeyboardIrq
      PROVE  \E b \in Byte : Isr("key", b)
  <2>1. sent["key"] \in Nat /\ sent["key"] < MaxKeys
    BY <1>1 DEF KeyboardIrq, TypeOK, Device
  <2>2. sent["key"] + 1 \in 0..(MaxKeys + MaxPackets) /\ 0 \in 0..PacketSize
    BY <2>1, InputAssumption
  <2>3. [n |-> sent["key"] + 1, pos |-> 0, sync |-> FALSE] \in Byte
    BY <2>2 DEF Byte
  <2>4. QED
    BY <1>1, <2>3 DEF KeyboardIrq
<1>2. ASSUME MouseIrq
      PROVE  \E b \in Byte : Isr("mouse", b) /\ Nth(b, sent["mouse"] + 1)
  <2> DEFINE k == sent["mouse"]
             B(sync) == [n |-> (k \div PacketSize) + 1, pos |-> (k % PacketSize) + 1, sync |-> sync]
  <2>1. k \in Nat /\ k < MaxPackets * PacketSize
    BY <1>2 DEF MouseIrq, TypeOK, Device
  <2>2. /\ (k % PacketSize) + 1 \in 1..PacketSize
        /\ (k \div PacketSize) + 1 \in 0..(MaxKeys + MaxPackets)
    BY <2>1, MouseByteBound
  <2>3. \A sync \in BOOLEAN : B(sync) \in Byte
    BY <2>2 DEF Byte
  <2>4. PICK sync \in BOOLEAN : ((k % PacketSize) + 1 = 1 => sync) /\ Isr("mouse", B(sync))
    BY <1>2 DEF MouseIrq
  <2>5. (k + 1) - 1 = k
    BY <2>1
  <2>6. PacketOf(k + 1) = (k \div PacketSize) + 1 /\ PosOf(k + 1) = (k % PacketSize) + 1
    BY <2>5 DEF PacketOf, PosOf
  <2>7. Nth(B(sync), k + 1)
    BY <2>4, <2>6 DEF Nth
  <2>8. QED
    BY <2>3, <2>4, <2>7
<1>3. QED
  BY <1>1, <1>2

(* The indices stay in the ring and every variable keeps its type. *)
THEOREM TypeCorrect == Spec => []TypeOK
<1> USE InputAssumption DEF TypeOK
<1>1. Init => TypeOK
  BY DEF Init, Device, Byte, Zero
<1>2. TypeOK /\ [Next]_vars => TypeOK'
  <2> SUFFICES ASSUME TypeOK, [Next]_vars
               PROVE  TypeOK'
    OBVIOUS
  <2>1. \A i \in 0..(Size - 1) : Succ(i) \in 0..(Size - 1)
    BY DEF Succ
  <2>2. ASSUME NEW d \in Device, NEW b \in Byte, Isr(d, b)
        PROVE  TypeOK'
    <3>1. buf' \in [Device -> [0..(Size - 1) -> Byte]] /\ head' \in [Device -> 0..(Size - 1)]
      <4>1. [buf EXCEPT ![d][head[d]] = b] \in [Device -> [0..(Size - 1) -> Byte]]
        BY <2>2
      <4>2. [head EXCEPT ![d] = Succ(@)] \in [Device -> 0..(Size - 1)]
        BY <2>1
      <4>3. QED
        BY <2>2, <4>1, <4>2 DEF Isr
    <3>3. sent' \in [Device -> Nat] /\ dropped' \in [Device -> Nat]
      <4>1. [sent EXCEPT ![d] = @ + 1] \in [Device -> Nat]
        OBVIOUS
      <4>2. [dropped EXCEPT ![d] = @ + 1] \in [Device -> Nat]
        OBVIOUS
      <4>3. QED
        BY <2>2, <4>1, <4>2 DEF Isr
    <3>4. at' \in {"check", "read", "advance", "handle", "rest", "hlt"} /\ dev' \in Device
      BY <2>2 DEF Isr, Wake, Device
    <3>5. QED
      BY <2>2, <3>1, <3>3, <3>4 DEF Isr
  <2>3. CASE KeyboardIrq
    BY <2>2, <2>3, IrqBytes DEF Device
  <2>4. CASE MouseIrq
    BY <2>2, <2>4, IrqBytes DEF Device
  <2>5. CASE PitIrq
    BY <2>5 DEF PitIrq, Wake, ring, Device
  <2>6. CASE CheckRing
    BY <2>6 DEF CheckRing, ring, Device
  <2>7. CASE ReadSlot
    BY <2>7 DEF ReadSlot, ring
  <2>8. CASE AdvanceTail
    <3>1. tail' \in [Device -> 0..(Size - 1)]
      BY <2>1, <2>8 DEF AdvanceTail
    <3>2. out' \in [Device -> Seq(Byte)]
      BY <2>8 DEF AdvanceTail
    <3>3. QED
      BY <2>8, <3>1, <3>2 DEF AdvanceTail
  <2>9. CASE HandleKey
    BY <2>9 DEF HandleKey, ring
  <2>10. CASE HandleMouse
    <3>1. Append(packet, byte) \in Seq(Byte) /\ << >> \in Seq(Byte)
      OBVIOUS
    <3>2. Append(handled, Append(packet, byte)) \in Seq(Seq(Byte))
      BY <3>1
    <3>3. QED
      BY <2>10, <3>1, <3>2 DEF HandleMouse, ring
  <2>11. CASE Halt
    BY <2>11 DEF Halt, ring
  <2>12. CASE UNCHANGED vars
    BY <2>12 DEF vars, ring
  <2>13. QED
    BY <2>3, <2>4, <2>5, <2>6, <2>7, <2>8, <2>9, <2>10, <2>11, <2>12 DEF Next, MainLoop
<1>3. QED
  BY <1>1, <1>2, PTL DEF Spec
-----------------------------------------------------------------------------
(* Contents of a ring f whose indices are h and t. *)
Ring(f, h, t) == [i \in 1..((h - t) % Size) |-> f[(t + i - 1) % Size]]

Slot == 0..(Size - 1)

(* The number of used slots, and the slot that follows another. *)
LEMMA RingArithmetic ==
  ASSUME NEW h \in Slot, NEW t \in Slot
  PROVE  /\ (h - t) % Size = IF h >= t THEN h - t ELSE h - t + Size
         /\ (h - t) % Size \in Slot
         /\ Succ(h) = IF h = Size - 1 THEN 0 ELSE h + 1
         /\ Succ(h) \in Slot
         /\ \A i \in Slot : (t + i) % Size = IF t + i < Size THEN t + i ELSE t + i - Size
<1> USE InputAssumption DEF Slot
<1>1. (h - t) % Size = IF h >= t THEN h - t ELSE h - t + Size
  BY ModTurn
<1>2. Succ(h) = IF h = Size - 1 THEN 0 ELSE h + 1
  BY ModTurn DEF Succ
<1>3. ASSUME NEW i \in Slot
      PROVE  (t + i) % Size = IF t + i < Size THEN t + i ELSE t + i - Size
  BY ModTurn
<1>4. QED
  BY <1>1, <1>2, <1>3

LEMMA RingType ==
  ASSUME NEW f \in [Slot -> Byte], NEW h \in Slot, NEW t \in Slot
  PROVE  /\ Ring(f, h, t) \in Seq(Byte)
         /\ Len(Ring(f, h, t)) = (h - t) % Size
         /\ \A i \in 1..((h - t) % Size) : Ring(f, h, t)[i] = f[(t + i - 1) % Size]
<1> DEFINE n == (h - t) % Size
<1>1. n \in Nat
  BY RingArithmetic DEF Slot
<1>2. \A i \in 1..n : f[(t + i - 1) % Size] \in Byte
  BY InputAssumption DEF Slot
<1>3. Ring(f, h, t) = [i \in 1..n |-> f[(t + i - 1) % Size]]
  BY DEF Ring
<1> HIDE DEF n
<1>4. Ring(f, h, t) \in Seq(Byte) /\ Len(Ring(f, h, t)) = n
  BY <1>1, <1>2, <1>3, IsASeq
<1>5. QED
  BY <1>3, <1>4 DEF n

(* A ring is full when all slots but one are used, empty when none is. *)
LEMMA RingLimits ==
  ASSUME NEW h \in Slot, NEW t \in Slot
  PROVE  /\ Succ(h) = t <=> (h - t) % Size = Size - 1
         /\ h = t <=> (h - t) % Size = 0
<1> DEFINE n == (h - t) % Size
<1>1. n = IF h >= t THEN h - t ELSE h - t + Size
  BY RingArithmetic
<1>2. Succ(h) = IF h = Size - 1 THEN 0 ELSE h + 1
  BY RingArithmetic
<1> HIDE DEF n
<1>3. /\ Succ(h) = t <=> n = Size - 1
      /\ h = t <=> n = 0
  BY <1>1, <1>2, InputAssumption DEF Slot
<1>4. QED
  BY <1>3 DEF n

(* What a handler stores is the last byte of the ring, and the slot at the *)
(* tail is left alone (keyboard_isr, mouse_isr).                           *)
LEMMA RingPush ==
  ASSUME NEW f \in [Slot -> Byte], NEW h \in Slot, NEW t \in Slot, NEW b \in Byte,
         NEW g \in [Slot -> Byte], g[h] = b, \A i \in Slot \ {h} : g[i] = f[i],
         Succ(h) # t
  PROVE  /\ Ring(g, Succ(h), t) = Append(Ring(f, h, t), b)
         /\ h # t => g[t] = f[t]
<1> DEFINE n == (h - t) % Size
<1>1. Succ(h) \in Slot
  BY RingArithmetic
<1>2. n \in Nat /\ n < Size - 1 /\ (Succ(h) - t) % Size = n + 1
  <2>1. n \in Slot /\ n # Size - 1
    BY RingArithmetic, RingLimits
  <2> DEFINE m == (Succ(h) - t) % Size
  <2>2. m = IF Succ(h) >= t THEN Succ(h) - t ELSE Succ(h) - t + Size
    BY <1>1, RingArithmetic
  <2>3. Succ(h) = IF h = Size - 1 THEN 0 ELSE h + 1
    BY RingArithmetic
  <2>4. n = IF h >= t THEN h - t ELSE h - t + Size
    BY RingArithmetic
  <2> HIDE DEF n, m
  <2>5. n \in Nat /\ n < Size - 1 /\ m = n + 1
    BY <2>1, <2>2, <2>3, <2>4, InputAssumption DEF Slot
  <2>6. QED
    BY <2>5 DEF m
<1>3. (t + (n + 1) - 1) % Size = h
  <2>1. n \in Slot
    BY RingArithmetic
  <2> DEFINE m == (t + n) % Size
  <2>2. m = IF t + n < Size THEN t + n ELSE t + n - Size
    BY <2>1, RingArithmetic
  <2>3. n = IF h >= t THEN h - t ELSE h - t + Size
    BY RingArithmetic
  <2> HIDE DEF n, m
  <2>4. m = h
    BY <2>1, <2>2, <2>3, InputAssumption DEF Slot
  <2>5. t + (n + 1) - 1 = t + n
    BY <2>1, InputAssumption DEF Slot
  <2>6. QED
    BY <2>4, <2>5 DEF m
<1>4. ASSUME NEW i \in 1..n
      PROVE  (t + i - 1) % Size \in Slot \ {h}
  <2> DEFINE m == (t + (i - 1)) % Size
  <2>1. n = IF h >= t THEN h - t ELSE h - t + Size
    BY RingArithmetic
  <2> HIDE DEF n
  <2>2. i - 1 \in Slot /\ t + (i - 1) = t + i - 1
    BY <1>2, InputAssumption DEF Slot
  <2>3. m = IF t + (i - 1) < Size THEN t + (i - 1) ELSE t + (i - 1) - Size
    BY <2>2, RingArithmetic
  <2> HIDE DEF m
  <2>4. m \in Slot \ {h}
    BY <1>2, <2>1, <2>2, <2>3, InputAssumption DEF Slot
  <2>5. QED
    BY <2>2, <2>4 DEF m
<1> DEFINE r == Ring(f, h, t)
           s == Ring(g, Succ(h), t)
<1>5. r \in Seq(Byte) /\ Len(r) = n /\ \A i \in 1..n : r[i] = f[(t + i - 1) % Size]
  BY RingType
<1>6. s \in Seq(Byte) /\ Len(s) = n + 1 /\ \A i \in 1..(n + 1) : s[i] = g[(t + i - 1) % Size]
  <2>1. /\ s \in Seq(Byte) /\ Len(s) = (Succ(h) - t) % Size
        /\ \A i \in 1..((Succ(h) - t) % Size) : s[i] = g[(t + i - 1) % Size]
    BY <1>1, RingType
  <2>2. QED
    BY <1>2, <2>1
<1> HIDE DEF n, r, s
<1>7. /\ Append(r, b) \in Seq(Byte) /\ Len(Append(r, b)) = n + 1
      /\ \A i \in 1..(n + 1) : Append(r, b)[i] = IF i = n + 1 THEN b ELSE r[i]
  BY <1>2, <1>5, AppendProperties
<1>8. \A i \in 1..(n + 1) : s[i] = Append(r, b)[i]
  <2> TAKE i \in 1..(n + 1)
  <2>1. CASE i = n + 1
    BY <2>1, <1>2, <1>3, <1>6, <1>7
  <2>2. CASE i \in 1..n
    <3>1. g[(t + i - 1) % Size] = f[(t + i - 1) % Size]
      BY <2>2, <1>4
    <3>2. i # n + 1
      BY <2>2, <1>2
    <3>3. QED
      BY <2>2, <3>1, <3>2, <1>5, <1>6, <1>7
  <2>3. i = n + 1 \/ i \in 1..n
    BY <1>2
  <2>4. QED
    BY <2>1, <2>2, <2>3
<1>9. s = Append(r, b)
  BY <1>6, <1>7, <1>8, SeqEqual
<1>10. QED
  BY <1>9 DEF r, s

(* The loop removes the first byte of the ring, which is the one at the    *)
(* tail (keyboard_pop_scancode, mouse_pop_byte).                           *)
LEMMA RingPop ==
  ASSUME NEW f \in [Slot -> Byte], NEW h \in Slot, NEW t \in Slot, h # t
  PROVE  /\ Ring(f, h, t) # << >>
         /\ Ring(f, h, Succ(t)) = Tail(Ring(f, h, t))
         /\ Head(Ring(f, h, t)) = f[t]
<1> DEFINE n == (h - t) % Size
           r == Ring(f, h, t)
           s == Ring(f, h, Succ(t))
<1>1. Succ(t) \in Slot
  BY RingArithmetic
<1>2. n \in 1..(Size - 1) /\ (h - Succ(t)) % Size = n - 1
  <2>1. n \in Slot /\ n # 0
    BY RingArithmetic, RingLimits
  <2> DEFINE m == (h - Succ(t)) % Size
  <2>2. m = IF h >= Succ(t) THEN h - Succ(t) ELSE h - Succ(t) + Size
    BY <1>1, RingArithmetic
  <2>3. Succ(t) = IF t = Size - 1 THEN 0 ELSE t + 1
    BY RingArithmetic
  <2>4. n = IF h >= t THEN h - t ELSE h - t + Size
    BY RingArithmetic
  <2> HIDE DEF n, m
  <2>5. n \in 1..(Size - 1) /\ m = n - 1
    BY <2>1, <2>2, <2>3, <2>4, InputAssumption DEF Slot
  <2>6. QED
    BY <2>5 DEF m
<1>3. ASSUME NEW i \in 1..(n - 1)
      PROVE  (Succ(t) + i - 1) % Size = (t + (i + 1) - 1) % Size
  <2>1. /\ i - 1 \in Slot /\ Succ(t) + (i - 1) = Succ(t) + i - 1
        /\ i \in Slot /\ t + (i + 1) - 1 = t + i
    <3> HIDE DEF n
    <3>1. QED
      BY <1>1, <1>2, InputAssumption DEF Slot
  <2>2. (t + i) % Size = IF t + i < Size THEN t + i ELSE t + i - Size
    BY <2>1, RingArithmetic
  <2>3. (Succ(t) + (i - 1)) % Size
          = IF Succ(t) + (i - 1) < Size THEN Succ(t) + (i - 1) ELSE Succ(t) + (i - 1) - Size
    BY <1>1, <2>1, RingArithmetic
  <2>4. Succ(t) = IF t = Size - 1 THEN 0 ELSE t + 1
    BY RingArithmetic
  <2> HIDE DEF n
  <2>5. (t + i) % Size = (Succ(t) + (i - 1)) % Size
    BY <2>1, <2>2, <2>3, <2>4, InputAssumption DEF Slot
  <2>6. QED
    BY <2>1, <2>5
<1>4. r \in Seq(Byte) /\ Len(r) = n /\ \A i \in 1..n : r[i] = f[(t + i - 1) % Size]
  BY RingType
<1>5. s \in Seq(Byte) /\ Len(s) = n - 1 /\ \A i \in 1..(n - 1) : s[i] = f[(Succ(t) + i - 1) % Size]
  <2>1. /\ s \in Seq(Byte) /\ Len(s) = (h - Succ(t)) % Size
        /\ \A i \in 1..((h - Succ(t)) % Size) : s[i] = f[(Succ(t) + i - 1) % Size]
    BY <1>1, RingType
  <2>2. QED
    BY <1>2, <2>1
<1>6. r[1] = f[t]
  <2>1. (t + 1 - 1) % Size = t
    BY ModTurn, InputAssumption DEF Slot
  <2>2. QED
    BY <1>2, <1>4, <2>1
<1> HIDE DEF n, r, s
<1>7. /\ r # << >> /\ Head(r) = r[1] /\ Tail(r) \in Seq(Byte) /\ Len(Tail(r)) = n - 1
      /\ \A i \in 1..(n - 1) : Tail(r)[i] = r[i + 1]
  BY <1>2, <1>4, HeadTailProperties
<1>8. \A i \in 1..(n - 1) : s[i] = Tail(r)[i]
  <2> TAKE i \in 1..(n - 1)
  <2>1. i + 1 \in 1..n
    BY <1>2
  <2>2. QED
    BY <2>1, <1>3, <1>4, <1>5, <1>7
<1>9. s = Tail(r)
  BY <1>5, <1>7, <1>8, SeqEqual
<1>10. QED
  BY <1>6, <1>7, <1>9 DEF r, s
-----------------------------------------------------------------------------
(* Contents, in terms of the lemmas above. *)
LEMMA ContentsRing ==
  ASSUME TypeOK
  PROVE  \A d \in Device : /\ Contents(d) = Ring(buf[d], head[d], tail[d])
                           /\ buf[d] \in [Slot -> Byte] /\ head[d] \in Slot /\ tail[d] \in Slot
                           /\ Contents(d) \in Seq(Byte)
                           /\ Len(Contents(d)) = (head[d] - tail[d]) % Size
                           /\ Len(Contents(d)) \in Slot
<1> TAKE d \in Device
<1>1. Contents(d) = Ring(buf[d], head[d], tail[d])
  BY DEF Contents, Ring
<1>2. buf[d] \in [Slot -> Byte] /\ head[d] \in Slot /\ tail[d] \in Slot
  BY DEF TypeOK, Slot
<1>3. /\ Ring(buf[d], head[d], tail[d]) \in Seq(Byte)
      /\ Len(Ring(buf[d], head[d], tail[d])) = (head[d] - tail[d]) % Size
  BY <1>2, RingType
<1>4. (head[d] - tail[d]) % Size \in Slot
  BY <1>2, RingArithmetic
<1>5. QED
  BY <1>1, <1>2, <1>3, <1>4

(* A handler adds its byte to the queue of its device or refuses it, and   *)
(* leaves the slot of a byte that waits alone.                             *)
LEMMA IsrStep ==
  ASSUME TypeOK, NEW d \in Device, NEW b \in Byte, Isr(d, b)
  PROVE  /\ \A e \in Device : head[e] # tail[e] =>
               head'[e] # tail'[e] /\ buf'[e][tail'[e]] = buf[e][tail[e]]
         /\ \/ /\ Len(Contents(d)) < Size - 1
               /\ Contents(d)' = Append(Contents(d), b)
               /\ \A e \in Device \ {d} : Contents(e)' = Contents(e)
               /\ dropped' = dropped
            \/ /\ Len(Contents(d)) = Size - 1
               /\ \A e \in Device : Contents(e)' = Contents(e)
               /\ dropped' = [dropped EXCEPT ![d] = @ + 1]
<1>1. CASE Full(d)
  <2>1. buf' = buf /\ head' = head /\ tail' = tail /\ dropped' = [dropped EXCEPT ![d] = @ + 1]
    BY <1>1 DEF Isr
  <2>2. \A e \in Device : Contents(e)' = Contents(e)
    BY <2>1 DEF Contents
  <2>3. Len(Contents(d)) = Size - 1
    BY <1>1, ContentsRing, RingLimits DEF Full
  <2>4. QED
    BY <2>1, <2>2, <2>3
<1>2. CASE ~Full(d)
  <2>1. /\ buf' = [buf EXCEPT ![d][head[d]] = b] /\ head' = [head EXCEPT ![d] = Succ(@)]
        /\ tail' = tail /\ dropped' = dropped
    BY <1>2 DEF Isr
  <2>2. /\ buf'[d] = [buf[d] EXCEPT ![head[d]] = b] /\ head'[d] = Succ(head[d])
        /\ \A e \in Device \ {d} : buf'[e] = buf[e] /\ head'[e] = head[e]
    BY <2>1 DEF TypeOK
  <2>3. \A e \in Device \ {d} : Contents(e)' = Contents(e)
    BY <2>1, <2>2 DEF Contents
  <2>4. Contents(d)' = Ring(buf'[d], head'[d], tail'[d])
    BY DEF Contents, Ring
  <2>5. Succ(head[d]) # tail[d]
    BY <1>2 DEF Full
  <2>6. /\ buf'[d] \in [Slot -> Byte] /\ buf'[d][head[d]] = b
         /\ \A i \in Slot \ {head[d]} : buf'[d][i] = buf[d][i]
    BY <2>2, ContentsRing
  <2>7. Contents(d)' = Append(Contents(d), b)
    <3>1. Ring(buf'[d], Succ(head[d]), tail[d]) = Append(Ring(buf[d], head[d], tail[d]), b)
      <4>1. buf[d] \in [Slot -> Byte] /\ head[d] \in Slot /\ tail[d] \in Slot
        BY ContentsRing
      <4>2. QED
        BY <2>5, <2>6, <4>1, RingPush, SMTT(60)
    <3>2. QED
      BY <2>1, <2>2, <2>4, <3>1, ContentsRing
  <2>8. Len(Contents(d)) < Size - 1
    <3>1. Len(Contents(d)) # Size - 1 /\ Len(Contents(d)) \in Slot
      BY <2>5, ContentsRing, RingLimits
    <3>2. QED
      BY <3>1, InputAssumption DEF Slot
  <2>9. head[d] # tail[d] => head'[d] # tail'[d] /\ buf'[d][tail'[d]] = buf[d][tail[d]]
    BY <2>1, <2>2, <2>5, <2>6, ContentsRing
  <2>10. QED
    BY <2>1, <2>2, <2>3, <2>7, <2>8, <2>9
<1>3. QED
  BY <1>1, <1>2

(* The slot that the loop has found filled stays filled and unchanged      *)
(* until it has moved the tail.                                            *)
LEMMA SlotOwned == Spec => []SlotInv
<1>1. Init => SlotInv
  BY DEF Init, SlotInv
<1>2. TypeOK /\ SlotInv /\ [Next]_vars => SlotInv'
  <2> SUFFICES ASSUME TypeOK, SlotInv, [Next]_vars
               PROVE  SlotInv'
    OBVIOUS
  <2>1. ASSUME NEW d \in Device, NEW b \in Byte, Isr(d, b)
        PROVE  SlotInv'
    <3>1. \A e \in Device : head[e] # tail[e] =>
            head'[e] # tail'[e] /\ buf'[e][tail'[e]] = buf[e][tail[e]]
      BY <2>1, IsrStep
    <3>2. \/ at = "hlt" /\ at' = "check" /\ dev' = "key"
          \/ at # "hlt" /\ at' = at /\ dev' = dev
      BY <2>1 DEF Isr, Wake
    <3>3. byte' = byte
      BY <2>1 DEF Isr
    <3>4. dev \in Device
      BY DEF TypeOK
    <3>5. QED
      BY <3>1, <3>2, <3>3, <3>4 DEF SlotInv
  <2>2. CASE KeyboardIrq \/ MouseIrq
    BY <2>1, <2>2, IrqBytes DEF Device
  <2>3. CASE PitIrq
    BY <2>3 DEF PitIrq, Wake, ring, SlotInv
  <2>4. CASE CheckRing
    BY <2>4 DEF CheckRing, ring, SlotInv
  <2>5. CASE ReadSlot
    BY <2>5 DEF ReadSlot, ring, SlotInv
  <2>6. CASE AdvanceTail \/ HandleKey \/ HandleMouse \/ Halt
    BY <2>6 DEF AdvanceTail, HandleKey, HandleMouse, Halt, SlotInv
  <2>7. CASE UNCHANGED vars
    BY <2>7 DEF vars, ring, SlotInv
  <2>8. QED
    BY <2>2, <2>3, <2>4, <2>5, <2>6, <2>7 DEF Next, MainLoop
<1>3. QED
  BY <1>1, <1>2, TypeCorrect, PTL DEF Spec

(* Wherever the handlers interrupt the loop, each ring is a bounded FIFO   *)
(* queue, for every ring size: the interrupt handlers and the three        *)
(* accesses of the loop implement InputQueues.                             *)
THEOREM Refinement == Spec => RingsAreQueues
<1> USE DEF Queues!vars
<1>1. Init => Queues!Init
  <2> SUFFICES ASSUME Init
               PROVE  Queues!Init
    OBVIOUS
  <2>1. ASSUME NEW d \in Device
        PROVE  Contents(d) = << >>
    <3>1. head[d] = 0 /\ tail[d] = 0
      BY DEF Init
    <3>2. (0 - 0) % Size = 0
      BY InputAssumption
    <3>3. QED
      BY <3>1, <3>2 DEF Contents
  <2>2. QED
    BY <2>1 DEF Init, Queues!Init
<1>2. TypeOK /\ SlotInv /\ [Next]_vars => [Queues!Next]_(Queues!vars)
  <2> SUFFICES ASSUME TypeOK, SlotInv, [Next]_vars
               PROVE  [Queues!Next]_(Queues!vars)
    OBVIOUS
  <2> DEFINE q == [d \in Device |-> Contents(d)]
  <2>1. ASSUME NEW d \in Device, NEW b \in Byte, Isr(d, b)
        PROVE  Queues!Next
    <3>1. CASE /\ Len(Contents(d)) < Size - 1
               /\ Contents(d)' = Append(Contents(d), b)
               /\ \A e \in Device \ {d} : Contents(e)' = Contents(e)
               /\ dropped' = dropped
      <4>1. q' = [q EXCEPT ![d] = Append(@, b)]
        BY <3>1
      <4>2. out' = out
        BY <2>1 DEF Isr
      <4>3. Queues!Accept(d, b)
        BY <3>1, <4>1, <4>2 DEF Queues!Accept
      <4>4. QED
        BY <4>3 DEF Queues!Next
    <3>2. CASE /\ Len(Contents(d)) = Size - 1
               /\ \A e \in Device : Contents(e)' = Contents(e)
               /\ dropped' = [dropped EXCEPT ![d] = @ + 1]
      <4>1. q' = q
        BY <3>2
      <4>2. out' = out
        BY <2>1 DEF Isr
      <4>3. Queues!Refuse(d)
        BY <3>2, <4>1, <4>2 DEF Queues!Refuse
      <4>4. QED
        BY <4>3 DEF Queues!Next
    <3>3. QED
      BY <2>1, <3>1, <3>2, IsrStep
  <2>2. CASE KeyboardIrq \/ MouseIrq
    BY <2>1, <2>2, IrqBytes DEF Device
  <2>3. CASE AdvanceTail
    <3>1. /\ dev \in Device /\ head[dev] # tail[dev] /\ byte = buf[dev][tail[dev]]
          /\ tail' = [tail EXCEPT ![dev] = Succ(@)] /\ buf' = buf /\ head' = head
          /\ out' = [out EXCEPT ![dev] = Append(@, byte)] /\ dropped' = dropped /\ dev' = dev
      BY <2>3 DEF AdvanceTail, SlotInv, TypeOK
    <3>2. tail'[dev] = Succ(tail[dev]) /\ \A e \in Device \ {dev} : tail'[e] = tail[e]
      BY <3>1 DEF TypeOK
    <3>3. /\ Contents(dev) # << >> /\ Head(Contents(dev)) = byte
          /\ Contents(dev)' = Tail(Contents(dev))
      <4>1. Contents(dev)' = Ring(buf[dev], head[dev], Succ(tail[dev]))
        BY <3>1, <3>2 DEF Contents, Ring
      <4>2. QED
        BY <3>1, <4>1, ContentsRing, RingPop
    <3>4. \A e \in Device \ {dev} : Contents(e)' = Contents(e)
      BY <3>1, <3>2 DEF Contents
    <3>5. q' = [q EXCEPT ![dev] = Tail(@)]
      BY <3>1, <3>3, <3>4
    <3>6. Queues!Take(dev)
      BY <3>1, <3>3, <3>5 DEF Queues!Take
    <3>7. QED
      BY <3>1, <3>6 DEF Queues!Next
  <2>4. CASE PitIrq \/ CheckRing \/ ReadSlot \/ HandleKey \/ HandleMouse \/ Halt \/ UNCHANGED vars
    <3>1. UNCHANGED <<buf, head, tail, out, dropped>>
      BY <2>4 DEF PitIrq, CheckRing, ReadSlot, HandleKey, HandleMouse, Halt, ring, vars
    <3>2. q' = q
      BY <3>1 DEF Contents
    <3>3. QED
      BY <3>1, <3>2
  <2>5. QED
    BY <2>2, <2>3, <2>4 DEF Next, MainLoop
<1>3. QED
  BY <1>1, <1>2, TypeCorrect, SlotOwned, PTL DEF Spec, RingsAreQueues, Queues!Spec
-----------------------------------------------------------------------------
(* The mouse's next byte joins the ring. *)
LEMMA CountedPush ==
  ASSUME NEW p \in Nat, NEW q \in Seq(Byte), NEW pending \in BOOLEAN, NEW b,
         NEW pk \in Seq(Byte), NEW hd \in Seq(Seq(Byte)), Counted(p, q, pending, b, pk, hd),
         NEW c \in Byte, Nth(c, p + Len(q) + 1)
  PROVE  Counted(p, Append(q, c), pending, b, pk, hd)
<1> DEFINE r == Append(q, c)
<1>1. /\ Len(q) \in Nat /\ Len(r) = Len(q) + 1
      /\ \A i \in 1..Len(q) : r[i] = q[i]
      /\ r[Len(q) + 1] = c
  BY AppendProperties
<1> HIDE DEF r
<1>2. \A i \in 1..Len(r) : Nth(r[i], p + i)
  <2> TAKE i \in 1..Len(r)
  <2>1. CASE i \in 1..Len(q)
    BY <1>1, <2>1 DEF Counted
  <2>2. CASE i = Len(q) + 1
    <3>1. p + i = p + Len(q) + 1
      BY <1>1, <2>2
    <3>2. QED
      BY <1>1, <2>2, <3>1
  <2>3. QED
    BY <1>1, <2>1, <2>2
<1>3. Counted(p, r, pending, b, pk, hd)
  BY <1>2 DEF Counted
<1>4. QED
  BY <1>3 DEF r

(* The loop takes the first byte of the ring into its hand. *)
LEMMA CountedPop ==
  ASSUME NEW p \in Nat, NEW q \in Seq(Byte), q # << >>, NEW b,
         NEW pk \in Seq(Byte), NEW hd \in Seq(Seq(Byte)), Counted(p, q, FALSE, b, pk, hd)
  PROVE  Counted(p + 1, Tail(q), TRUE, Head(q), pk, hd)
<1> DEFINE r == Tail(q)
<1>1. /\ Len(q) \in Nat /\ Len(q) >= 1 /\ Len(r) = Len(q) - 1 /\ Head(q) = q[1]
      /\ \A i \in 1..Len(r) : r[i] = q[i + 1]
  BY HeadTailProperties
<1> HIDE DEF r
<1>2. \A i \in 1..Len(r) : Nth(r[i], (p + 1) + i)
  <2> TAKE i \in 1..Len(r)
  <2>1. i + 1 \in 1..Len(q) /\ (p + 1) + i = p + (i + 1)
    BY <1>1
  <2>2. QED
    BY <1>1, <2>1 DEF Counted
<1>3. Nth(Head(q), p + 1)
  <2>1. 1 \in 1..Len(q)
    BY <1>1
  <2>2. QED
    BY <1>1, <2>1 DEF Counted
<1>4. p + 1 = Base(Len(hd)) + Len(pk) + 1
  <2>1. Base(Len(hd)) \in Nat /\ Len(pk) \in Nat
    BY BaseNext
  <2>2. p = Base(Len(hd)) + Len(pk) + 0
    BY DEF Counted
  <2>3. QED
    BY <2>1, <2>2
<1>5. Counted(p + 1, r, TRUE, Head(q), pk, hd)
  BY <1>2, <1>3, <1>4 DEF Counted
<1>6. QED
  BY <1>5 DEF r

(* desktop_mouse_byte: the byte in hand is the next one of the packet      *)
(* begun, or the first of a packet and as such carries the mark.           *)
LEMMA CountedHandle ==
  ASSUME NEW p \in Nat, NEW q, NEW b \in Byte, NEW pk \in Seq(Byte), NEW hd \in Seq(Seq(Byte)),
         Counted(p, q, TRUE, b, pk, hd)
  PROVE  /\ pk = << >> => b.sync
         /\ Len(pk) + 1 < PacketSize => Counted(p, q, FALSE, b, Append(pk, b), hd)
         /\ Len(pk) + 1 >= PacketSize => Counted(p, q, FALSE, b, << >>, Append(hd, Append(pk, b)))
<1> DEFINE m == Len(hd)
           l == Len(pk)
           r == Append(pk, b)
           h == Append(hd, r)
<1>1. m \in Nat /\ l \in Nat /\ l < PacketSize /\ l + 1 \in 1..PacketSize
  BY InputAssumption DEF Counted
<1>2. Base(m) \in Nat /\ Base(m + 1) = Base(m) + PacketSize
  BY <1>1, BaseNext
<1>3. p = Base(m) + (l + 1) /\ Nth(b, p)
  <2>1. p = Base(m) + l + 1 /\ Nth(b, p)
    BY DEF Counted
  <2>2. QED
    BY <1>1, <1>2, <2>1
<1>4. pk = << >> => b.sync
  <2>1. PosOf(Base(m) + (l + 1)) = l + 1
    BY <1>1, PacketPosition
  <2>2. pk = << >> => l + 1 = 1
    OBVIOUS
  <2>3. QED
    BY <1>3, <2>1, <2>2 DEF Nth
<1>5. /\ r \in Seq(Byte) /\ Len(r) = l + 1
      /\ \A i \in 1..l : r[i] = pk[i]
      /\ r[l + 1] = b
  BY AppendProperties
<1>6. /\ h \in Seq(Seq(Byte)) /\ Len(h) = m + 1
      /\ \A k \in 1..m : h[k] = hd[k]
      /\ h[m + 1] = r
  BY <1>5, AppendProperties
<1> HIDE DEF m, l, r, h
<1>7. \A i \in 1..(l + 1) : Nth(r[i], Base(m) + i)
  <2> TAKE i \in 1..(l + 1)
  <2>1. CASE i \in 1..l
    BY <1>5, <2>1 DEF Counted, m, l
  <2>2. CASE i = l + 1
    BY <1>3, <1>5, <2>2
  <2>3. QED
    BY <1>1, <2>1, <2>2
<1>8. ASSUME l + 1 < PacketSize
      PROVE  Counted(p, q, FALSE, b, r, hd)
  <2>1. p = Base(m) + Len(r) + 0
    BY <1>1, <1>2, <1>3, <1>5
  <2>2. \A i \in 1..Len(r) : Nth(r[i], Base(Len(hd)) + i)
    BY <1>5, <1>7 DEF m
  <2>3. QED
    BY <1>5, <1>8, <2>1, <2>2 DEF Counted, m
<1>9. ASSUME l + 1 >= PacketSize
      PROVE  Counted(p, q, FALSE, b, << >>, h)
  <2>1. l + 1 = PacketSize
    BY <1>1, <1>9, InputAssumption
  <2>2. p = Base(Len(h)) + Len(<< >>) + 0
    BY <1>1, <1>2, <1>3, <1>6, <2>1, InputAssumption
  <2>3. \A k \in 1..Len(h) : \A i \in 1..PacketSize : Nth(h[k][i], Base(k - 1) + i)
    <3> TAKE k \in 1..Len(h)
    <3>1. CASE k \in 1..m
      BY <1>6, <3>1 DEF Counted, m
    <3>2. CASE k = m + 1
      <4>1. k - 1 = m /\ h[k] = r
        BY <1>1, <1>6, <3>2
      <4>2. QED
        BY <1>7, <2>1, <4>1
    <3>3. k \in 1..m \/ k = m + 1
      BY <1>1, <1>6
    <3>4. QED
      BY <3>1, <3>2, <3>3
  <2>4. Len(<< >>) < PacketSize
    BY InputAssumption
  <2>5. QED
    BY <2>2, <2>3, <2>4 DEF Counted
<1>10. QED
  BY <1>4, <1>8, <1>9 DEF l, r, h

LEMMA PacketsCounted == Spec => []PacketInv
<1>1. Init => PacketInv
  <2> SUFFICES ASSUME Init
               PROVE  PacketInv
    OBVIOUS
  <2>1. Contents("mouse") = << >> /\ sent["mouse"] = 0
    <3>1. head["mouse"] = 0 /\ tail["mouse"] = 0 /\ sent["mouse"] = 0
      BY DEF Init, Device
    <3>2. (0 - 0) % Size = 0
      BY InputAssumption
    <3>3. QED
      BY <3>1, <3>2 DEF Contents
  <2>2. Base(0) = 0
    BY InputAssumption DEF Base
  <2>3. ~Pending /\ handled = << >> /\ packet = << >>
    BY DEF Init, Pending
  <2>4. Popped = 0
    BY <2>1 DEF Popped
  <2>5. QED
    BY <2>1, <2>2, <2>3, <2>4, InputAssumption DEF PacketInv, Counted
<1>2. TypeOK /\ TypeOK' /\ SlotInv /\ PacketInv /\ [Next]_vars => PacketInv'
  <2> SUFFICES ASSUME TypeOK, TypeOK', SlotInv, PacketInv, [Next]_vars, dropped'["mouse"] = 0
               PROVE  Counted(Popped, Contents("mouse"), Pending, byte, packet, handled)'
    BY DEF PacketInv
  <2> DEFINE q == Contents("mouse")
             Same == Popped' = Popped /\ q' = q /\ Pending' = Pending
                     /\ (Pending => byte' = byte) /\ packet' = packet /\ handled' = handled
  <2>1. q \in Seq(Byte) /\ "mouse" \in Device /\ sent["mouse"] \in Nat
        /\ packet \in Seq(Byte) /\ handled \in Seq(Seq(Byte)) /\ byte \in Byte
    BY ContentsRing DEF TypeOK, Device
  <2>2. ASSUME dropped["mouse"] = 0, Same
        PROVE  Counted(Popped, q, Pending, byte, packet, handled)'
    BY <2>2 DEF PacketInv, Counted
  <2>3. ASSUME NEW b \in Byte, Isr("key", b)
        PROVE  Counted(Popped, q, Pending, byte, packet, handled)'
    <3>1. dropped["mouse"] = 0 /\ q' = q
      BY <2>1, <2>3, IsrStep DEF TypeOK, Device
    <3>2. sent'["mouse"] = sent["mouse"]
      BY <2>3 DEF Isr, TypeOK, Device
    <3>3. Pending' = Pending /\ packet' = packet /\ handled' = handled /\ byte' = byte
      BY <2>3 DEF Isr, Wake, Pending
    <3>4. QED
      BY <2>2, <3>1, <3>2, <3>3 DEF Popped
  <2>4. ASSUME NEW b \in Byte, Isr("mouse", b), Nth(b, sent["mouse"] + 1)
        PROVE  Counted(Popped, q, Pending, byte, packet, handled)'
    <3>1. dropped["mouse"] = 0 /\ q' = Append(q, b)
      <4>1. dropped' # [dropped EXCEPT !["mouse"] = @ + 1]
        <5>1. dropped \in [Device -> Nat] /\ dropped["mouse"] \in Nat
          BY <2>1 DEF TypeOK
        <5>2. [dropped EXCEPT !["mouse"] = @ + 1]["mouse"] = dropped["mouse"] + 1
          BY <2>1, <5>1
        <5>3. dropped["mouse"] + 1 # 0
          BY <5>1
        <5>4. QED
          BY <5>2, <5>3
      <4>2. dropped' = dropped /\ q' = Append(q, b)
        BY <2>1, <2>4, <4>1, IsrStep
      <4>3. QED
        BY <4>2
    <3>2. sent'["mouse"] = sent["mouse"] + 1
      BY <2>4 DEF Isr, TypeOK, Device
    <3>3. Pending' = Pending /\ packet' = packet /\ handled' = handled /\ byte' = byte
      BY <2>4 DEF Isr, Wake, Pending
    <3>4. Len(q) \in Nat /\ Len(q') = Len(q) + 1
      BY <2>1, <3>1
    <3>5. Popped' = Popped /\ Popped + Len(q) + 1 = sent["mouse"] + 1
      BY <2>1, <3>2, <3>4 DEF Popped
    <3>6. Counted(Popped, q, Pending, byte, packet, handled) /\ Popped \in Nat /\ Pending \in BOOLEAN
      BY <3>1 DEF PacketInv, Counted, Pending
    <3>7. Counted(Popped, Append(q, b), Pending, byte, packet, handled)
      BY <2>1, <2>4, <3>5, <3>6, CountedPush
    <3>8. QED
      BY <3>1, <3>3, <3>5, <3>7 DEF Counted
  <2>5. CASE AdvanceTail
    <3>1. /\ dev \in Device /\ head[dev] # tail[dev] /\ byte = buf[dev][tail[dev]]
          /\ tail' = [tail EXCEPT ![dev] = Succ(@)] /\ buf' = buf /\ head' = head
          /\ at' = "handle" /\ at = "advance" /\ dev' = dev /\ byte' = byte
          /\ UNCHANGED <<dropped, sent, packet, handled>>
      BY <2>5 DEF AdvanceTail, SlotInv, TypeOK
    <3>2. dropped["mouse"] = 0 /\ Counted(Popped, q, FALSE, byte, packet, handled) /\ Popped \in Nat
      BY <3>1 DEF PacketInv, Pending, Counted
    <3>3. CASE dev = "mouse"
      <4>1. tail'["mouse"] = Succ(tail["mouse"])
        BY <3>1, <3>3 DEF TypeOK
      <4>2. q' = Ring(buf["mouse"], head["mouse"], Succ(tail["mouse"]))
        BY <3>1, <4>1 DEF Contents, Ring
      <4>3. q # << >> /\ q' = Tail(q) /\ Head(q) = byte
        <5>1. /\ q = Ring(buf["mouse"], head["mouse"], tail["mouse"])
              /\ buf["mouse"] \in [Slot -> Byte] /\ head["mouse"] \in Slot /\ tail["mouse"] \in Slot
          BY <2>1, ContentsRing
        <5>2. head["mouse"] # tail["mouse"] /\ byte = buf["mouse"][tail["mouse"]]
          BY <3>1, <3>3
        <5>3. QED
          BY <4>2, <5>1, <5>2, RingPop
      <4>4. Len(q) \in Nat /\ Len(q') = Len(q) - 1
        BY <2>1, <4>3
      <4>5. Popped' = Popped + 1
        BY <2>1, <3>1, <4>4 DEF Popped
      <4>6. Counted(Popped + 1, Tail(q), TRUE, Head(q), packet, handled)
        BY <2>1, <3>2, <4>3, CountedPop
      <4>7. Pending'
        BY <3>1, <3>3 DEF Pending
      <4>8. QED
        BY <3>1, <4>3, <4>5, <4>6, <4>7 DEF Counted
    <3>4. CASE dev # "mouse"
      <4>1. tail'["mouse"] = tail["mouse"]
        BY <2>1, <3>1, <3>4 DEF TypeOK
      <4>2. q' = q /\ Pending' = Pending
        BY <3>1, <3>4, <4>1 DEF Contents, Pending
      <4>3. QED
        BY <2>2, <3>1, <3>2, <4>2 DEF Popped
    <3>5. QED
      BY <3>3, <3>4
  <2>6. CASE HandleMouse
    <3>1. /\ at = "handle" /\ dev = "mouse" /\ at' = "check" /\ byte' = byte
          /\ UNCHANGED <<buf, head, tail, dropped, sent>>
      BY <2>6 DEF HandleMouse, ring
    <3>2. Pending /\ ~Pending' /\ q' = q /\ Popped' = Popped
      BY <3>1 DEF Pending, Contents, Popped
    <3>3. Counted(Popped, q, TRUE, byte, packet, handled) /\ Popped \in Nat
      BY <3>1, <3>2 DEF PacketInv, Counted
    <3>4. /\ packet = << >> => byte.sync
          /\ ~Completes => Counted(Popped, q, FALSE, byte, Append(packet, byte), handled)
          /\ Completes => Counted(Popped, q, FALSE, byte, << >>, Append(handled, Append(packet, byte)))
      <4>1. Len(packet) \in Nat /\ (~Completes <=> Len(packet) + 1 < PacketSize)
        BY <2>1, InputAssumption DEF Completes
      <4>2. QED
        BY <2>1, <3>3, <4>1, CountedHandle DEF Completes
    <3>5. \/ ~Completes /\ packet' = Append(packet, byte) /\ handled' = handled
          \/ Completes /\ packet' = << >> /\ handled' = Append(handled, Append(packet, byte))
      BY <2>6, <3>4 DEF HandleMouse, StartsPacket
    <3>6. Counted(Popped, q, FALSE, byte, packet', handled')
      BY <3>4, <3>5
    <3>7. QED
      BY <3>1, <3>2, <3>6 DEF Counted
  <2>7. CASE PitIrq \/ CheckRing \/ ReadSlot \/ HandleKey \/ Halt \/ UNCHANGED vars
    <3>1. UNCHANGED <<buf, head, tail, dropped, sent, packet, handled>>
      BY <2>7 DEF PitIrq, CheckRing, ReadSlot, HandleKey, Halt, ring, vars
    <3>2. Pending' = Pending /\ (Pending => byte' = byte)
      BY <2>7 DEF PitIrq, Wake, CheckRing, ReadSlot, HandleKey, Halt, vars, Pending
    <3>3. q' = q /\ Popped' = Popped
      BY <3>1 DEF Contents, Popped
    <3>4. QED
      BY <2>2, <3>1, <3>2, <3>3
  <2>8. QED
    BY <2>3, <2>4, <2>5, <2>6, <2>7, IrqBytes DEF Next, MainLoop
<1>3. QED
  BY <1>1, <1>2, TypeCorrect, SlotOwned, PTL DEF Spec

(* As long as the mouse ring has refused no byte, desktop_mouse_byte never *)
(* makes a packet of the tail of one and the head of another, for packets  *)
(* of three bytes and of four, whatever bit 3 of the movement bytes is.    *)
THEOREM Framing == Spec => []PacketsFramed
<1>1. TypeOK /\ PacketInv => PacketsFramed
  <2> SUFFICES ASSUME TypeOK, Counted(Popped, Contents("mouse"), Pending, byte, packet, handled)
               PROVE  /\ \A i \in 1..Len(packet) : packet[i].n = packet[1].n /\ packet[i].pos = i
                      /\ \A k \in 1..Len(handled) : \A i \in 1..PacketSize :
                           handled[k][i].n = k /\ handled[k][i].pos = i
    BY DEF PacketInv, PacketsFramed
  <2>1. Len(packet) \in Nat /\ Len(handled) \in Nat /\ Len(packet) < PacketSize
    BY DEF TypeOK, Counted
  <2>2. \A i \in 1..Len(packet) : packet[i].n = Len(handled) + 1 /\ packet[i].pos = i
    <3> TAKE i \in 1..Len(packet)
    <3>1. i \in 1..PacketSize
      BY <2>1, InputAssumption
    <3>2. Nth(packet[i], Base(Len(handled)) + i)
      BY DEF Counted
    <3>3. QED
      BY <2>1, <3>1, <3>2, PacketPosition DEF Nth
  <2>3. ASSUME NEW k \in 1..Len(handled), NEW i \in 1..PacketSize
        PROVE  handled[k][i].n = k /\ handled[k][i].pos = i
    <3>1. k - 1 \in Nat /\ (k - 1) + 1 = k
      BY <2>1
    <3>2. Nth(handled[k][i], Base(k - 1) + i)
      BY DEF Counted
    <3>3. QED
      BY <3>1, <3>2, PacketPosition DEF Nth
  <2>4. \A i \in 1..Len(packet) : packet[i].n = packet[1].n /\ packet[i].pos = i
    <3> TAKE i \in 1..Len(packet)
    <3>1. 1 \in 1..Len(packet)
      BY <2>1
    <3>2. QED
      BY <2>2, <3>1
  <2>5. QED
    BY <2>3, <2>4
<1>2. QED
  BY <1>1, TypeCorrect, PacketsCounted, PTL
=============================================================================
