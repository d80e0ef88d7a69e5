------------------------------ MODULE NetStack ------------------------------
(***************************************************************************)
(* ARP, ICMP and DNS of kernel/net.c over the receive ring of a driver     *)
(* (kernel/netdev_e1000.c; the others poll in the same order).  The kernel *)
(* is single threaded: net_poll runs in the main loop and in every loop    *)
(* that waits, and hands each frame of the ring to handle_frame BEFORE it  *)
(* releases the slot.  A handler that waits for its next hop polls from    *)
(* within the poll.                                                        *)
(*                                                                         *)
(* A profile is an address, a gateway and a name server; gateways and      *)
(* addresses are identified with the profile.  Hosts on the link and the   *)
(* name server are external; what they send may arrive late, doubled or    *)
(* never.  The DHCP client uses the driver directly and is modelled by     *)
(* Dhcp; TCP segments are modelled by TcpClient.                           *)
(***************************************************************************)
EXTENDS Integers

CONSTANTS
  Profiles,       \* configurations net_configure is called with
  LocalDns,       \* those whose name server is on the link, not the gateway
  Names,          \* names looked up
  Slots,          \* N, descriptors of the receive ring (32)
  IdMod, PortMod, \* a lookup's number and port are taken from the clock
  StackFrames,    \* activations of net_poll the kernel's stack has room for
  MaxTick, MaxFrames, MaxCalls,  \* bounds
  None

ASSUME NetAssumption ==
  /\ LocalDns \subseteq Profiles
  /\ Slots \in Nat \ {0, 1} /\ StackFrames \in Nat
  /\ IdMod \in Nat \ {0} /\ PortMod \in Nat \ {0}
  /\ Names \cap {0, -1} = {}

VARIABLES
  prof,    \* ip_addr, netmask, gateway, dns_ip
  gwMac,   \* gateway_mac, None unless gateway_mac_valid
  ring,    \* rx[]: the frame of a slot whose status is done, or None
  rxi,     \* the driver's position
  head,    \* RDH, the device's position
  tail,    \* RDT, the slot the device may not use
  guard,   \* slots the poll has taken
  nest,    \* polls begun within the current poll
  at,      \* where the kernel stands
  after,   \* where the poll returns to
  job,     \* the call that waits, and whether its next hop was heard of
  dns,     \* dns_id, dns_port, and dns_done: 0, -1 or the name answered
  reply,   \* icmp_reply
  tick,    \* timer_ticks
  wire     \* what has been on the wire, the frames handled and the calls of
           \* handle_frame (history)

ringVars == <<ring, rxi, head, tail, guard>>
vars == <<prof, gwMac, ringVars, nest, at, after, job, dns, reply, tick, wire>>

NoJob == [kind |-> "none", name |-> None, target |-> None, heard |-> FALSE]
Gateway == "gateway"
Onlink == "onlink"      \* another host of the subnet; it may be the name server

Init ==
  /\ prof \in Profiles
  /\ gwMac = None
  /\ ring = [i \in 0..(Slots - 1) |-> None]
  /\ rxi = 0
  /\ head = 0
  /\ tail = Slots - 1
  /\ guard = 0
  /\ nest = 0
  /\ at = "idle"
  /\ after = "idle"
  /\ job = NoJob
  /\ dns = [id |-> 0, port |-> 0, done |-> 0]
  /\ reply = FALSE
  /\ tick = 0
  /\ wire = [frames |-> 0, handled |-> 0, entered |-> 0, calls |-> 0, lookups |-> {},
             queries |-> {}, pings |-> {}, sent |-> {}]
-----------------------------------------------------------------------------
(* Other hosts and the device.                                             *)

Frames ==
  [kind : {"arp"}, from : Profiles \cup {Onlink}]
  \cup [kind : {"echo"}, from : {Gateway, Onlink}, to : Profiles]
  \cup [kind : {"reply"}, to : wire.pings]
  \cup [kind : {"answer"}, query : wire.queries, ok : BOOLEAN]

(* A frame is dropped by the device when the ring is full. *)
DeviceWrites ==
  /\ wire.frames < MaxFrames
  /\ head # tail
  /\ \E f \in Frames :
       ring' = [ring EXCEPT ![head] = [n |-> wire.frames + 1, f |-> f]]
  /\ head' = (head + 1) % Slots
  /\ wire' = [wire EXCEPT !.frames = @ + 1]
  /\ UNCHANGED <<prof, gwMac, rxi, tail, guard, nest, at, after, job, dns, reply, tick>>

Tick ==
  /\ tick < MaxTick
  /\ tick' = tick + 1
  /\ UNCHANGED <<prof, gwMac, ringVars, nest, at, after, job, dns, reply, wire>>
-----------------------------------------------------------------------------
(* The calls of the main loop.                                             *)

(* Mutant of Forget: the address of the old gateway is kept. *)
ForgetNothing == gwMac

Forget == None

(* net_configure, by the command `openwrt`. *)
Configure ==
  /\ at = "idle"
  /\ prof' \in Profiles
  /\ gwMac' = Forget
  /\ UNCHANGED <<ringVars, nest, at, after, job, dns, reply, tick, wire>>

Begin(kind, n, target) ==
  /\ at = "idle"
  /\ wire.calls < MaxCalls
  /\ job' = [kind |-> kind, name |-> n, target |-> target, heard |-> FALSE]
  /\ at' = "send"
  /\ UNCHANGED <<prof, gwMac, ringVars, nest, after, tick>>

(* net_ping_gateway. *)
StartPing ==
  /\ Begin("ping", None, Gateway)
  /\ reply' = FALSE
  /\ wire' = [wire EXCEPT !.calls = @ + 1]
  /\ UNCHANGED dns

QueryId == 1 + (tick % IdMod)

(* dns_lookup; the clock is read once for the number and once for the port. *)
StartLookup ==
  \E n \in Names, late \in {0, 1} :
    /\ Begin("dns", n, IF prof \in LocalDns THEN Onlink ELSE Gateway)
    /\ dns' = [dns EXCEPT !.id = QueryId, !.port = 1 + ((tick + late) % PortMod), !.done = 0]
    /\ wire' = [wire EXCEPT !.calls = @ + 1,
                            !.lookups = @ \cup {[name |-> n, id |-> dns'.id, port |-> dns'.port]}]
    /\ UNCHANGED reply

(* A name that is too long leaves the number set, other bad names clear it. *)
LookupBadName ==
  /\ at = "idle"
  /\ \E i \in {0, QueryId} : dns' = [dns EXCEPT !.id = i]
  /\ UNCHANGED <<prof, gwMac, ringVars, nest, at, after, job, reply, tick, wire>>
-----------------------------------------------------------------------------
(* send_ip_packet and resolve_next_hop.                                    *)

(* Only the gateway's address is ever kept. *)
Reaches(target) == target = Gateway /\ gwMac # None

PollFor(ret) ==
  /\ at' = "poll"
  /\ after' = ret
  /\ guard' = 0
  /\ UNCHANGED <<prof, gwMac, ring, rxi, head, tail, nest, job, dns, reply, tick>>

OnWire == [wire EXCEPT !.sent = {[mac |-> gwMac, prof |-> prof]}]

SendNow ==
  /\ at = "send"
  /\ Reaches(job.target)
  /\ PollFor("loop")
  /\ wire' = IF job.kind = "ping" THEN [OnWire EXCEPT !.pings = @ \cup {prof}]
             ELSE [OnWire EXCEPT !.queries = @ \cup
                     {[name |-> job.name, id |-> dns.id, port |-> dns.port, to |-> prof]}]

ResolvePolls ==
  /\ at = "send"
  /\ ~Reaches(job.target)
  /\ PollFor("send")
  /\ UNCHANGED wire

(* After 2.5 s the packet is dropped, and the caller waits all the same. *)
ResolveFails ==
  /\ at = "send"
  /\ ~Reaches(job.target)
  /\ PollFor("loop")
  /\ UNCHANGED wire
-----------------------------------------------------------------------------
(* The waiting loops.                                                      *)

Answered == IF job.kind = "ping" THEN reply ELSE dns.done # 0

IdlePolls == at = "idle" /\ PollFor("idle") /\ UNCHANGED wire

LoopPolls == at = "loop" /\ ~Answered /\ PollFor("loop") /\ UNCHANGED wire

(* dns_lookup repeats its query every 800 ms. *)
Resend ==
  /\ at = "loop"
  /\ job.kind = "dns" /\ ~Answered
  /\ at' = "send"
  /\ UNCHANGED <<prof, gwMac, ringVars, nest, after, job, dns, reply, tick, wire>>

(* The answer is there, or time is up. *)
Return ==
  /\ at = "loop"
  /\ at' = "idle"
  /\ job' = NoJob
  /\ dns' = IF job.kind = "dns" THEN [dns EXCEPT !.id = 0, !.port = 0] ELSE dns
  /\ UNCHANGED <<prof, gwMac, ringVars, nest, after, reply, tick, wire>>
-----------------------------------------------------------------------------
(* net_poll and the handlers.                                              *)

(* Mutant of OwnAnswer: the port is not compared. *)
OwnAnswerAnyPort(q) == dns.id # 0 /\ q.id = dns.id

OwnAnswer(q) == dns.id # 0 /\ q.port = dns.port /\ q.id = dns.id

(* handle_frame has been called for the frame of this slot and returns. *)
Done(w) == [w EXCEPT !.entered = @ + 1, !.handled = ring[rxi].n]

(* handle_arp: whoever has the gateway's address is the gateway. *)
HandleArp(f) ==
  /\ f.kind = "arp"
  /\ gwMac' = IF f.from = prof THEN prof ELSE gwMac
  /\ wire' = Done(wire)
  /\ job' = [job EXCEPT !.heard = @ \/ job.target = (IF f.from = prof THEN Gateway ELSE f.from)]
  /\ UNCHANGED <<dns, reply>>

(* handle_icmp: an echo request is answered through the next hop. *)
HandleEcho(f) ==
  /\ f.kind = "echo"
  /\ f.to = prof => Reaches(f.from)
  /\ wire' = Done(IF f.to = prof THEN OnWire ELSE wire)
  /\ UNCHANGED <<gwMac, job, dns, reply>>

(* The number of the request is not compared. *)
HandleReply(f) ==
  /\ f.kind = "reply"
  /\ reply' = (reply \/ f.to = prof)
  /\ wire' = Done(wire)
  /\ UNCHANGED <<gwMac, job, dns>>

HandleUdp(f) ==
  /\ f.kind = "answer"
  /\ dns' = IF f.query.to # prof \/ ~OwnAnswer(f.query) THEN dns
            ELSE [dns EXCEPT !.done = IF f.ok THEN f.query.name ELSE -1]
  /\ wire' = Done(wire)
  /\ UNCHANGED <<gwMac, job, reply>>

(* Mutant of SlotAfter: the position does not wrap. *)
SlotAfterOver(i) == i + 1

SlotAfter(i) == (i + 1) % Slots

(* Mutant of Released: the status of the slot is not cleared. *)
ReleasedNot == ring

Released == [ring EXCEPT ![rxi] = None]

TakeFrame ==
  /\ at = "poll"
  /\ guard < Slots
  /\ ring[rxi] # None
  /\ LET f == ring[rxi].f
     IN  HandleArp(f) \/ HandleEcho(f) \/ HandleReply(f) \/ HandleUdp(f)
  /\ ring' = Released
  /\ tail' = rxi
  /\ rxi' = SlotAfter(rxi)
  /\ guard' = guard + 1
  /\ UNCHANGED <<prof, head, nest, at, after, tick>>

(* An echo request whose next hop is unknown: handle_frame is called, and  *)
(* resolve_next_hop polls; that poll finds the same frame in the slot that *)
(* was not yet released and calls handle_frame with it once more.  No      *)
(* later frame is looked at, so that nothing can end the recursion.        *)
NestedPoll ==
  /\ at = "poll"
  /\ guard < Slots
  /\ ring[rxi] # None
  /\ LET f == ring[rxi].f
     IN  f.kind = "echo" /\ f.to = prof /\ ~Reaches(f.from)
  /\ IF nest < StackFrames
     THEN nest' = nest + 1 /\ at' = at
     ELSE nest' = nest /\ at' = "down"      \* the stack is exhausted
  /\ guard' = 0
  /\ wire' = [wire EXCEPT !.entered = @ + 1]
  /\ UNCHANGED <<prof, gwMac, ring, rxi, head, tail, after, job, dns, reply, tick>>

PollReturns ==
  /\ at = "poll"
  /\ guard = Slots \/ ring[rxi] = None
  /\ at' = after
  /\ UNCHANGED <<prof, gwMac, ringVars, nest, after, job, dns, reply, tick, wire>>

Down == at = "down" /\ UNCHANGED vars

Next ==
  \/ DeviceWrites \/ Tick
  \/ Configure \/ StartPing \/ StartLookup \/ LookupBadName
  \/ SendNow \/ ResolvePolls \/ ResolveFails
  \/ IdlePolls \/ LoopPolls \/ Resend \/ Return
  \/ TakeFrame \/ NestedPoll \/ PollReturns
  \/ Down

Spec == Init /\ [][Next]_vars
-----------------------------------------------------------------------------
TypeOK ==
  /\ prof \in Profiles
  /\ gwMac \in Profiles \cup {None}
  /\ {rxi, head, tail} \subseteq 0..(Slots - 1)
  /\ \A i \in 0..(Slots - 1) : ring[i] = None \/ (ring[i].n \in 1..wire.frames /\ ring[i].f \in Frames)
  /\ guard \in 0..Slots
  /\ nest \in 0..StackFrames
  /\ at \in {"idle", "send", "loop", "poll", "down"}
  /\ after \in {"idle", "send", "loop"}
  /\ dns.id \in 0..IdMod /\ dns.port \in 0..PortMod /\ dns.done \in Names \cup {0, -1}
  /\ reply \in BOOLEAN

(* dns_lookup returns the address of another name only if a lookup of that *)
(* name had the same number and port: answers that come late, twice or     *)
(* after a failed lookup are told apart by handle_udp.                     *)
AnswerIsForQuery ==
  job.kind = "dns" /\ dns.done \in Names =>
    [name |-> dns.done, id |-> dns.id, port |-> dns.port] \in wire.lookups

(* Every IP packet goes to the hardware address of the gateway of the      *)
(* profile it is sent under, also after net_configure and although ARP     *)
(* frames of the other network may still be in the ring.                   *)
FramesToGateway == \A s \in wire.sent : s.mac = s.prof

(* A frame whose handling returns was given to handle_frame once, as was   *)
(* every frame before it, and they were handled in the order in which the  *)
(* device has received them.  Nothing is claimed of an echo request with   *)
(* an unknown next hop: handle_frame is called with it again and again,    *)
(* each time from within the call before, until the stack is exhausted.    *)
(* Whoever polls, no such call returns, so none is followed by a release.  *)
RxInOrder ==
  [][wire'.handled # wire.handled =>
       /\ wire'.handled = wire.handled + 1
       /\ wire'.entered = wire'.handled]_vars

(* README.md: "DNS `10.0.2.3`" (and 10.0.2.2 the gateway): resolve_next_hop *)
(* gives up only on a host that has not answered its ARP requests.          *)
GivesUpOnSilence == [][ResolveFails => ~job.heard]_vars
=============================================================================
