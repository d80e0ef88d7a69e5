------------------------------ MODULE InputLoop -----------------------------
(***************************************************************************)
(* PS/2 input: the keyboard and mouse interrupt handlers and the rings     *)
(* they fill (kernel/interrupts.c, kernel/i686/interrupts.c), the main     *)
(* loop that drains them between two halts (kernel/main.c), and the        *)
(* assembly of mouse packets (desktop_mouse_byte, kernel/desktop.c).       *)
(*                                                                         *)
(* The gates are interrupt gates, so a handler runs to completion; it may  *)
(* run between any two accesses of the loop to the shared indices and      *)
(* slots, which are separate actions here.                                 *)
(***************************************************************************)
EXTENDS Integers, Sequences

CONSTANTS
  Size,        \* slots of a ring (64 and 128; one always stays empty)
  PacketSize,  \* bytes of a mouse packet, mouse_packet_size(): 3 or 4
  MaxKeys,     \* bound on the scancodes the keyboard sends
  MaxPackets   \* bound on the packets the mouse sends

ASSUME InputAssumption ==
  /\ Size \in Nat /\ Size > 1
  /\ PacketSize \in {3, 4}
  /\ MaxKeys \in Nat
  /\ MaxPackets \in Nat

Device == {"key", "mouse"}

(* A byte is known by the number of its key or packet, its position in the *)
(* packet (0 in a scancode), and the bit 3 that the driver takes for the   *)
(* mark of a first byte.                                                   *)
Byte == [n : 0..(MaxKeys + MaxPackets), pos : 0..PacketSize, sync : BOOLEAN]
Zero == [n |-> 0, pos |-> 0, sync |-> FALSE]

VARIABLES
  buf, head, tail,   \* keyq/mouseq with their indices, per device
  at, dev, byte,     \* where the main loop stands, and the byte it popped
  packet,            \* mpkt[0..mpkt_i-1]
  sent,              \* bytes each device has sent (history)
  out,               \* bytes the loop has popped, per device (history)
  dropped,           \* bytes refused by a full ring, per device (history)
  handled            \* the mouse packets given to the desktop (history)

ring == <<buf, head, tail>>
vars == <<ring, at, dev, byte, packet, sent, out, dropped, handled>>

Init ==
  /\ buf = [d \in Device |-> [i \in 0..(Size - 1) |-> Zero]]
  /\ head = [d \in Device |-> 0]
  /\ tail = [d \in Device |-> 0]
  /\ at = "check"
  /\ dev = "key"
  /\ byte = Zero
  /\ packet = << >>
  /\ sent = [d \in Device |-> 0]
  /\ out = [d \in Device |-> << >>]
  /\ dropped = [d \in Device |-> 0]
  /\ handled = << >>

Succ(i) == (i + 1) % Size

(* Mutant of Full: a full ring is overwritten. *)
NeverFull(d) == FALSE

Full(d) == Succ(head[d]) = tail[d]
-----------------------------------------------------------------------------
(* Interrupts.                                                              *)

(* Mutant of Wake: the halt with interrupts masked. *)
WakeMasked == UNCHANGED <<at, dev>>

(* Returning from any handler ends a halt; the loop starts again. *)
Wake ==
  IF at = "hlt" THEN at' = "check" /\ dev' = "key" ELSE UNCHANGED <<at, dev>>

(* keyboard_isr, mouse_isr *)
Isr(d, b) ==
  /\ \/ /\ ~Full(d)
        /\ buf' = [buf EXCEPT ![d][head[d]] = b]
        /\ head' = [head EXCEPT ![d] = Succ(@)]
        /\ UNCHANGED dropped
     \/ /\ Full(d)
        /\ dropped' = [dropped EXCEPT ![d] = @ + 1]
        /\ UNCHANGED <<buf, head>>
  /\ sent' = [sent EXCEPT ![d] = @ + 1]
  /\ Wake
  /\ UNCHANGED <<tail, byte, packet, out, handled>>

KeyboardIrq ==
  /\ sent["key"] < MaxKeys
  /\ Isr("key", [n |-> sent["key"] + 1, pos |-> 0, sync |-> FALSE])

(* The mouse sends its packets byte by byte, in order; the first byte has  *)
(* bit 3 set, the movement bytes have whatever value they have.            *)
MouseIrq ==
  LET k == sent["mouse"]
      pos == (k % PacketSize) + 1
  IN /\ k < MaxPackets * PacketSize
     /\ \E sync \in BOOLEAN :
          /\ pos = 1 => sync
          /\ Isr("mouse", [n |-> (k \div PacketSize) + 1, pos |-> pos, sync |-> sync])

(* pit_isr: the 100 Hz tick. *)
PitIrq ==
  /\ Wake
  /\ UNCHANGED <<ring, byte, packet, sent, out, dropped, handled>>
-----------------------------------------------------------------------------
(* The main loop.                                                           *)

(* The test of keyboard_pop_scancode and mouse_pop_byte. *)
CheckRing ==
  /\ at = "check"
  /\ \/ /\ head[dev] # tail[dev]
        /\ at' = "read"
        /\ UNCHANGED dev
     \/ /\ head[dev] = tail[dev] /\ dev = "key"
        /\ dev' = "mouse"
        /\ UNCHANGED at
     \/ /\ head[dev] = tail[dev] /\ dev = "mouse"
        /\ at' = "rest"
        /\ UNCHANGED dev
  /\ UNCHANGED <<ring, byte, packet, sent, out, dropped, handled>>

ReadSlot ==
  /\ at = "read"
  /\ byte' = buf[dev][tail[dev]]
  /\ at' = "advance"
  /\ UNCHANGED <<ring, dev, packet, sent, out, dropped, handled>>

AdvanceTail ==
  /\ at = "advance"
  /\ tail' = [tail EXCEPT ![dev] = Succ(@)]
  /\ out' = [out EXCEPT ![dev] = Append(@, byte)]
  /\ at' = "handle"
  /\ UNCHANGED <<buf, head, dev, byte, packet, sent, dropped, handled>>

(* desktop_key_scancode takes one scancode at a time. *)
HandleKey ==
  /\ at = "handle"
  /\ dev = "key"
  /\ at' = "check"
  /\ UNCHANGED <<ring, dev, byte, packet, sent, out, dropped, handled>>

(* desktop_mouse_byte: a byte without bit 3 cannot start a packet. *)
StartsPacket(b) == b.sync

(* Mutant of Completes: one byte more than a packet has. *)
CompletesLate == Len(packet) + 1 > PacketSize

Completes == Len(packet) + 1 >= PacketSize

HandleMouse ==
  /\ at = "handle"
  /\ dev = "mouse"
  /\ at' = "check"
  /\ \/ /\ packet = << >> /\ ~StartsPacket(byte)
        /\ UNCHANGED <<packet, handled>>
     \/ /\ packet # << >> \/ StartsPacket(byte)
        /\ ~Completes
        /\ packet' = Append(packet, byte)
        /\ UNCHANGED handled
     \/ /\ packet # << >> \/ StartsPacket(byte)
        /\ Completes
        /\ packet' = << >>
        /\ handled' = Append(handled, Append(packet, byte))
  /\ UNCHANGED <<ring, dev, byte, sent, out, dropped>>

(* net_poll and desktop_tick, then sti; hlt.  Interrupts stay enabled      *)
(* throughout, so a byte may arrive after the last test and before the     *)
(* halt, which then lasts until the next interrupt.                        *)
Halt ==
  /\ at = "rest"
  /\ at' = "hlt"
  /\ UNCHANGED <<ring, dev, byte, packet, sent, out, dropped, handled>>

MainLoop == CheckRing \/ ReadSlot \/ AdvanceTail \/ HandleKey \/ HandleMouse \/ Halt

Next == MainLoop \/ KeyboardIrq \/ MouseIrq \/ PitIrq

Spec == Init /\ [][Next]_vars

(* The CPU runs whenever it is not halted, and the PIT never stops. *)
FairSpec == Spec /\ WF_vars(MainLoop) /\ WF_vars(PitIrq)
-----------------------------------------------------------------------------
TypeOK ==
  /\ buf \in [Device -> [0..(Size - 1) -> Byte]]
  /\ head \in [Device -> 0..(Size - 1)]
  /\ tail \in [Device -> 0..(Size - 1)]
  /\ at \in {"check", "read", "advance", "handle", "rest", "hlt"}
  /\ dev \in Device
  /\ byte \in Byte
  /\ packet \in Seq(Byte)
  /\ sent \in [Device -> Nat]
  /\ out \in [Device -> Seq(Byte)]
  /\ dropped \in [Device -> Nat]
  /\ handled \in Seq(Seq(Byte))

Contents(d) ==
  [i \in 1..((head[d] - tail[d]) % Size) |-> buf[d][(tail[d] + i - 1) % Size]]

Queues == INSTANCE InputQueues
            WITH queue <- [d \in Device |-> Contents(d)], Cap <- Size - 1

(* Wherever the handlers interrupt the loop, each ring is a bounded FIFO:  *)
(* accepted bytes come out once and in order, and a byte is refused only   *)
(* when Size - 1 of them are waiting.                                      *)
RingsAreQueues == Queues!Spec

(* As long as no mouse byte was refused, the packets given to the desktop, *)
(* and the one being assembled, are packets of the mouse, whatever bit 3   *)
(* of the movement bytes is: never the tail of one and the head of another.*)
PacketsFramed ==
  dropped["mouse"] = 0 =>
    /\ \A i \in 1..Len(packet) : packet[i].n = packet[1].n /\ packet[i].pos = i
    /\ \A k \in 1..Len(handled) : \A i \in 1..PacketSize :
         handled[k][i].n = k /\ handled[k][i].pos = i

Drained(d) == head[d] = tail[d] /\ ~(dev = d /\ at \in {"read", "advance", "handle"})

(* A byte that arrives just before the halt is not forgotten: every        *)
(* accepted byte reaches the desktop, even if no further input follows.    *)
InputIsServed == \A d \in Device : (head[d] # tail[d]) ~> Drained(d)
=============================================================================
