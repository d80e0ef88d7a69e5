-------------------------------- MODULE Dhcp --------------------------------
(***************************************************************************)
(* The boot-time DHCPv4 client (kernel/dhcp.c) as kernel_main runs it: one *)
(* synchronous Discover/Offer/Request/Ack exchange, polled from the NIC's  *)
(* receive ring while the PIT advances the clock, over a network that      *)
(* loses, duplicates, delays and reorders the replies of several servers   *)
(* and also carries the replies those servers broadcast to other clients.  *)
(*                                                                         *)
(* A lease is abstracted to who supplied each of its fields: an address is *)
(* zero, or an option absent, exactly when the field is None.              *)
(***************************************************************************)
EXTENDS Naturals

CONSTANTS
  Servers,        \* the DHCP servers on the link
  None,           \* an absent option, a zero address, no time yet
  Static,         \* the source of the compiled-in profile (net.c)
  OptionSets,     \* the field sets a server may put in a reply
  PhaseTimeout,   \* timeout_ms / 2, in clock units
  Resend,         \* the 400 ms retransmission interval, in clock units
  MaxPhase,       \* bound on the clock units between two dhcp_wait entries
  MaxFrames       \* bound on the frames received during the attempt

Profile == {"ip", "netmask", "gateway", "dns"}
Field == Profile \cup {"server"}

ASSUME ConstantsAssumption ==
  /\ None \notin Servers \cup Nat
  /\ Static \notin Servers
  /\ OptionSets \subseteq SUBSET Field
  /\ PhaseTimeout \in Nat \ {0}
  /\ Resend \in Nat \ {0}
  /\ MaxPhase \in Nat /\ MaxPhase > PhaseTimeout
  /\ MaxFrames \in Nat

VARIABLES
  pc,        \* where kernel_main / dhcp_acquire / dhcp_wait stands
  phase,     \* dhcp_phase
  event,     \* dhcp_event
  start,     \* dhcp_wait: start
  lastTx,    \* dhcp_wait: last_tx, None for the 0xffffffff sentinel
  rxLease,   \* dhcp_rx_lease
  offer,     \* dhcp_acquire: offer
  config,    \* ip_addr, netmask, gateway, dns_ip of net.c
  verdict,   \* what kernel_main reports
  now,       \* dhcp_now_ms()
  wire,      \* every reply ever sent: the link and the receive ring may
             \* delay, reorder, duplicate or lose each of them
  bcast,     \* the client's broadcasts that the servers can have seen
  sends,     \* transmissions of the current phase (history)
  frames     \* frames received (history, for the bound)

wait == <<phase, event, start, lastTx, sends>>
link == <<wire, frames>>
vars == <<pc, wait, rxLease, offer, config, verdict, now, link, bcast>>

Lease == [Field -> Servers \cup {None}]
EmptyLease == [f \in Field |-> None]
LeaseOf(s, opts) == [f \in Field |-> IF f \in opts THEN s ELSE None]

Reply == [type : {"offer", "ack", "nak"}, from : Servers, mine : BOOLEAN, lease : Lease]
Broadcast == [type : {"discover", "request"}, server : Servers \cup {None}]

Init ==
  /\ pc = "boot"
  /\ phase = 0
  /\ event = "none"
  /\ start = 0
  /\ lastTx = None
  /\ rxLease = EmptyLease
  /\ offer = EmptyLease
  /\ config = [f \in Profile |-> Static]
  /\ verdict = "none"
  /\ now = 0
  /\ wire = {}
  /\ bcast = {}
  /\ sends = 0
  /\ frames = 0
-----------------------------------------------------------------------------
(* The client.                                                              *)

(* Entry of dhcp_wait: the sentinel makes the first pass transmit at once. *)
EnterWait(p) ==
  /\ pc' = "loop"
  /\ phase' = p
  /\ event' = "none"
  /\ start' = now
  /\ lastTx' = None
  /\ sends' = 0

(* Every failing return of dhcp_acquire: the globals are cleared, the      *)
(* caller's lease is not written and kernel_main keeps the static profile. *)
Fail ==
  /\ pc' = "done"
  /\ verdict' = "static"
  /\ phase' = 0
  /\ event' = "none"
  /\ UNCHANGED <<start, lastTx, sends, config>>

(* kernel_main finds no adapter: dhcp_acquire is not called. *)
NoAdapter ==
  /\ pc = "boot"
  /\ pc' = "done"
  /\ verdict' = "static"
  /\ UNCHANGED <<wait, rxLease, offer, config, now, link, bcast>>

Acquire ==
  /\ pc = "boot"
  /\ EnterWait(1)
  /\ UNCHANGED <<rxLease, offer, config, verdict, now, link, bcast>>

(* Mutants of Elapsed: the wrong interval; measured from the last sending. *)
ElapsedEarly == now - start >= Resend
ElapsedSinceSend == lastTx # None /\ now - lastTx >= PhaseTimeout

Elapsed == now - start >= PhaseTimeout

LoopTimeout ==
  /\ pc = "loop"
  /\ Elapsed
  /\ Fail
  /\ UNCHANGED <<rxLease, offer, now, link, bcast>>

LoopEnter ==
  /\ pc = "loop"
  /\ ~Elapsed
  /\ pc' = "tx"
  /\ UNCHANGED <<wait, rxLease, offer, config, verdict, now, link, bcast>>

(* Mutant of ResendDue: every pass transmits. *)
ResendAlways == TRUE

(* The clock is read again after the loop test. *)
ResendDue == lastTx # None => now - lastTx >= Resend

Packet ==
  IF phase = 1 THEN [type |-> "discover", server |-> None]
               ELSE [type |-> "request", server |-> offer["server"]]

Transmit ==
  /\ pc = "tx"
  /\ pc' = "poll"
  /\ \/ /\ ResendDue
        /\ bcast' = bcast \cup {Packet}
        /\ lastTx' = now
        /\ sends' = sends + 1
     \/ /\ ~ResendDue
        /\ UNCHANGED <<bcast, lastTx, sends>>
  /\ UNCHANGED <<phase, event, start, rxLease, offer, config, verdict, now, link>>

(* Mutant of Parses: neither xid nor hardware address is compared. *)
ParsesAny(m) == TRUE

(* dhcp_parse_reply drops what carries another xid or hardware address. *)
Parses(m) == m.mine

Wanted == IF phase = 1 THEN "offer" ELSE "ack"

(* dhcp_rx: a NAK counts in either phase; the last accepted reply wins. *)
Receive(m) ==
  /\ event' = IF Parses(m) /\ m.type \in {"nak", Wanted} THEN m.type ELSE event
  /\ rxLease' = IF Parses(m) /\ m.type = Wanted THEN m.lease ELSE rxLease

(* netdev_poll hands the frames it finds to dhcp_rx, one after the other,  *)
(* and returns when the ring is empty: after any number of them.           *)
PollFrame ==
  /\ pc = "poll"
  /\ frames < MaxFrames
  /\ frames' = frames + 1
  /\ \E m \in wire : Receive(m)
  /\ UNCHANGED <<pc, phase, start, lastTx, sends, offer, config, verdict, now, wire, bcast>>

PollAgain ==
  /\ pc = "poll"
  /\ event = "none"
  /\ pc' = "loop"
  /\ UNCHANGED <<wait, rxLease, offer, config, verdict, now, link, bcast>>

PollNak ==
  /\ pc = "poll"
  /\ event = "nak"
  /\ Fail
  /\ UNCHANGED <<rxLease, offer, now, link, bcast>>

Usable(l) == l["ip"] # None /\ l["server"] # None

(* dhcp_acquire between its two waits. *)
TakeOffer ==
  /\ pc = "poll"
  /\ event = "offer"
  /\ offer' = rxLease
  /\ \/ /\ Usable(rxLease)
        /\ EnterWait(2)
        /\ UNCHANGED <<config, verdict>>
     \/ /\ ~Usable(rxLease)
        /\ Fail
  /\ UNCHANGED <<rxLease, now, link, bcast>>

Overlay(dst, src) == [f \in Field |-> IF src[f] # None THEN src[f] ELSE dst[f]]

(* Mutant of Complete: an address is enough. *)
CompleteAddress(l) == l["ip"] # None

Complete(l) == \A f \in Profile : l[f] # None

(* The end of dhcp_acquire, and net_configure in kernel_main: only a       *)
(* complete overlay reaches the caller and then the configuration.         *)
TakeAck ==
  /\ pc = "poll"
  /\ event = "ack"
  /\ LET final == Overlay(offer, rxLease) IN
     \/ /\ Complete(final)
        /\ config' = [f \in Profile |-> final[f]]
        /\ verdict' = "leased"
        /\ pc' = "done"
        /\ phase' = 0
        /\ event' = "none"
        /\ UNCHANGED <<start, lastTx, sends>>
     \/ /\ ~Complete(final)
        /\ Fail
  /\ UNCHANGED <<rxLease, offer, now, link, bcast>>

Client ==
  \/ Acquire
  \/ LoopTimeout
  \/ LoopEnter
  \/ Transmit
  \/ PollFrame
  \/ PollAgain
  \/ PollNak
  \/ TakeOffer
  \/ TakeAck
-----------------------------------------------------------------------------
(* The environment: the PIT, the servers and the link.                      *)

Tick ==
  /\ pc # "done"
  /\ now - start < MaxPhase
  /\ now' = now + 1
  /\ UNCHANGED <<pc, wait, rxLease, offer, config, verdict, link, bcast>>

Answered(s, t) == \E m \in wire : m.from = s /\ m.type = t /\ m.mine

ServerSends(m) ==
  /\ wire' = wire \cup {m}
  /\ UNCHANGED <<pc, wait, rxLease, offer, config, verdict, now, frames, bcast>>

ServerOffer(s, opts) ==
  /\ \E b \in bcast : b.type = "discover"
  /\ ~Answered(s, "offer")
  /\ ServerSends([type |-> "offer", from |-> s, mine |-> TRUE, lease |-> LeaseOf(s, opts)])

(* Only the server the REQUEST names commits the address. *)
ServerAck(s, opts) ==
  /\ \E b \in bcast : b.type = "request" /\ b.server = s
  /\ ~Answered(s, "ack") /\ ~Answered(s, "nak")
  /\ ServerSends([type |-> "ack", from |-> s, mine |-> TRUE, lease |-> LeaseOf(s, opts)])

(* Any server that sees the REQUEST may refuse it. *)
ServerNak(s) ==
  /\ \E b \in bcast : b.type = "request"
  /\ ~Answered(s, "ack") /\ ~Answered(s, "nak")
  /\ ServerSends([type |-> "nak", from |-> s, mine |-> TRUE, lease |-> EmptyLease])

(* A reply the server broadcasts to another client of the link. *)
ServerForeign(s, t) ==
  /\ ~\E m \in wire : ~m.mine
  /\ ServerSends([type |-> t, from |-> s, mine |-> FALSE, lease |-> LeaseOf(s, Field)])

Environment ==
  \/ NoAdapter
  \/ Tick
  \/ \E s \in Servers, opts \in OptionSets : ServerOffer(s, opts) \/ ServerAck(s, opts)
  \/ \E s \in Servers : ServerNak(s)
  \/ \E s \in Servers, t \in {"offer", "ack", "nak"} : ServerForeign(s, t)

(* The attempt is over; the kernel goes on without it. *)
Finished == pc = "done" /\ UNCHANGED vars

Next == Client \/ Environment \/ Finished

Spec == Init /\ [][Next]_vars

(* The boot CPU executes nothing else during the attempt, and the PIT runs *)
(* with interrupts enabled (kernel_main: sti before net_init).             *)
FairSpec == Spec /\ WF_vars(Client) /\ WF_vars(Tick)
-----------------------------------------------------------------------------
TypeOK ==
  /\ pc \in {"boot", "loop", "tx", "poll", "done"}
  /\ phase \in 0..2
  /\ event \in {"none", "offer", "ack", "nak"}
  /\ start \in Nat
  /\ lastTx \in Nat \cup {None}
  /\ rxLease \in Lease
  /\ offer \in Lease
  /\ config \in [Profile -> Servers \cup {None, Static}]
  /\ verdict \in {"none", "leased", "static"}
  /\ now \in Nat
  /\ wire \subseteq Reply
  /\ bcast \subseteq Broadcast
  /\ sends \in Nat
  /\ frames \in Nat

(* The configuration the kernel ends up with is the static profile or one  *)
(* server's complete lease, and that server has acknowledged it to this    *)
(* client: never a field from another server's offer, from a reply to      *)
(* another client, or an option the server did not supply.                 *)
LeaseAgreed ==
  IF verdict = "leased"
  THEN \E s \in Servers : Answered(s, "ack") /\ config = [f \in Profile |-> s]
  ELSE config = [f \in Profile |-> Static]

(* A fallback to the static profile has a reason: no adapter, the whole    *)
(* time of the phase has passed, a server refused, or a server sent a      *)
(* reply without the fields a usable lease needs.                          *)
FallbackJustified ==
  verdict = "static" =>
    \/ start = 0 /\ bcast = {}
    \/ now - start >= PhaseTimeout
    \/ \E m \in wire : m.mine /\ (m.type = "nak" \/ \E f \in Field : m.lease[f] = None)

(* One phase puts at most one transmission per retransmission interval on  *)
(* the wire, plus the one that a clock tick between the loop test and the  *)
(* reading of now lets through: k + 1 of them take (k - 1) intervals.      *)
BoundedRetransmission ==
  sends >= 2 => (sends - 2) * Resend < PhaseTimeout

granted == {s \in Servers : Answered(s, "ack")}

Abstract == INSTANCE LeaseAcquire

(* The attempt is atomic for the rest of the kernel (LeaseAcquire). *)
ImplementsLeaseAcquire == Abstract!Spec

(* The attempt ends whatever the network does, so the boot goes on. *)
AcquireTerminates == <>(pc = "done")
=============================================================================
