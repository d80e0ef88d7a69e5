--------------------------- MODULE NetStackProofs ---------------------------
(* Theorems about NetStack, for any profiles, names and ring size. *)
EXTENDS NetStack, TLAPS

Slot == 0..(Slots - 1)

Query == [name : Names, id : 0..IdMod, port : 0..PortMod, to : Profiles]
Lookup == [name : Names, id : 0..IdMod, port : 0..PortMod]

AnyFrame ==
  [kind : {"arp"}, from : Profiles \cup {Onlink}]
  \cup [kind : {"echo"}, from : {Gateway, Onlink}, to : Profiles]
  \cup [kind : {"reply"}, to : Profiles]
  \cup [kind : {"answer"}, query : Query, ok : BOOLEAN]

(* The fields that TypeOK leaves open. *)
Shape ==
  /\ ring \in [Slot -> {None} \cup [n : Nat, f : AnyFrame]]
  /\ dns \in [id : 0..IdMod, port : 0..PortMod, done : Names \cup {0, -1}]
  /\ job \in [kind : {"none", "ping", "dns"}, name : Names \cup {None},
              target : {None, Gateway, Onlink}, heard : BOOLEAN]
  /\ job.kind = "dns" => job.name \in Names
  /\ tick \in Nat
  /\ wire \in [frames : Nat, handled : Nat, entered : Nat, calls : Nat, lookups : SUBSET Lookup,
               queries : SUBSET Query, pings : SUBSET Profiles,
               sent : SUBSET [mac : Profiles \cup {None}, prof : Profiles]]

(* A call is under way except in the main loop and the polls it makes. *)
CallInv ==
  /\ at = "idle" \/ (at = "poll" /\ after = "idle") => job.kind = "none"
  /\ at \in {"send", "loop"} \/ (at = "poll" /\ after # "idle") => job.kind # "none"

(* Whatever can be answered has been asked. *)
AskedInv ==
  /\ \A q \in wire.queries : [name |-> q.name, id |-> q.id, port |-> q.port] \in wire.lookups
  /\ job.kind = "dns" => [name |-> job.name, id |-> dns.id, port |-> dns.port] \in wire.lookups

(* The gateway's hardware address is forgotten with the profile. *)
GatewayInv == gwMac \in {None, prof}

(* How far slot j is from the driver's position. *)
Ahead(j) == IF j >= rxi THEN j - rxi ELSE j - rxi + Slots

Waiting == wire.frames - wire.handled

(***************************************************************************)
(* The slots from the driver's position to the device's hold the frames    *)
(* that wait, in the order of their arrival, and all others are free: the  *)
(* device stops one slot behind the driver.                                *)
(***************************************************************************)
RingInv ==
  /\ Waiting \in 0..(Slots - 1)
  /\ head = (IF rxi + Waiting < Slots THEN rxi + Waiting ELSE rxi + Waiting - Slots)
  /\ tail = (IF rxi = 0 THEN Slots - 1 ELSE rxi - 1)
  /\ \A j \in Slot : IF Ahead(j) < Waiting THEN ring[j].n = wire.handled + 1 + Ahead(j)
                     ELSE ring[j] = None

(* The poll is about to find an echo request it cannot answer. *)
Recalled ==
  /\ at = "poll" /\ guard = 0
  /\ ring[rxi] # None
  /\ ring[rxi].f.kind = "echo" /\ ring[rxi].f.to = prof /\ ~Reaches(ring[rxi].f.from)

(***************************************************************************)
(* handle_frame has been called once for each frame handled, as long as no *)
(* poll has begun within a poll; from then on the kernel is at the frame   *)
(* of the outer poll, until its stack is exhausted.                        *)
(***************************************************************************)
NestInv ==
  /\ nest = 0 /\ at # "down" => wire.entered = wire.handled
  /\ nest > 0 => at = "down" \/ Recalled
-----------------------------------------------------------------------------
(* What may arrive is a frame, and what might have arrived still may. *)
LEMMA FramesGrow ==
  ASSUME Shape, wire.pings \subseteq wire'.pings, wire.queries \subseteq wire'.queries
  PROVE  Frames \subseteq AnyFrame /\ Frames \subseteq Frames'
<1>1. wire.pings \subseteq Profiles /\ wire.queries \subseteq Query
  BY DEF Shape
<1>2. QED
  BY <1>1 DEF Frames, AnyFrame

TypeInv == TypeOK /\ Shape /\ CallInv

(* A step that leaves the ring alone keeps the frames in it well-formed. *)
RingTyped ==
  \A i \in Slot : ring[i] = None \/ (ring[i].n \in 1..wire.frames /\ ring[i].f \in Frames)

LEMMA RingTypedGrows ==
  ASSUME TypeInv, wire.pings \subseteq wire'.pings, wire.queries \subseteq wire'.queries,
         wire'.frames = wire.frames, \A i \in Slot : ring'[i] \in {ring[i], None}
  PROVE  RingTyped'
<1>1. Frames \subseteq Frames'
  BY FramesGrow DEF TypeInv
<1>2. RingTyped
  BY DEF TypeInv, TypeOK, RingTyped, Slot
<1>3. QED
  BY <1>1, <1>2 DEF RingTyped

(* The call that waits ends before the main loop goes on. *)
LEMMA CallStep ==
  ASSUME TypeInv, [Next]_vars
  PROVE  CallInv'
<1> USE DEF TypeInv, CallInv
<1>1. CASE StartPing \/ StartLookup
  <2>1. at' = "send" /\ job'.kind \in {"ping", "dns"}
    <3>1. ASSUME NEW k, NEW n, NEW t, Begin(k, n, t)
          PROVE  at' = "send" /\ job'.kind = k
      BY <3>1 DEF Begin
    <3>2. QED
      BY <1>1, <3>1 DEF StartPing, StartLookup
  <2>2. QED
    BY <2>1
<1>2. CASE Return
  BY <1>2 DEF Return, NoJob
<1>3. CASE SendNow \/ ResolvePolls \/ ResolveFails \/ IdlePolls \/ LoopPolls
  BY <1>3 DEF SendNow, ResolvePolls, ResolveFails, IdlePolls, LoopPolls, PollFor
<1>4. CASE TakeFrame
  <2>1. at = "poll" /\ at' = at /\ after' = after
    BY <1>4 DEF TakeFrame
  <2>2. job'.kind = job.kind
    BY <1>4 DEF TakeFrame, HandleArp, HandleEcho, HandleReply, HandleUdp, Shape
  <2>3. QED
    BY <2>1, <2>2
<1>5. CASE NestedPoll
  BY <1>5 DEF NestedPoll
<1>6. CASE PollReturns
  BY <1>6 DEF PollReturns, TypeOK
<1>7. CASE Resend
  BY <1>7 DEF Resend
<1>8. CASE DeviceWrites \/ Tick \/ Configure \/ LookupBadName \/ Down \/ UNCHANGED vars
  BY <1>8 DEF DeviceWrites, Tick, Configure, LookupBadName, Down, vars
<1>9. QED
  BY <1>1, <1>2, <1>3, <1>4, <1>5, <1>6, <1>7, <1>8 DEF Next

(* Every variable keeps its type, the frames in the ring included. *)
LEMMA TypeInvariant == Spec => []TypeInv
<1>1. Init => TypeInv
  <2> SUFFICES ASSUME Init
               PROVE  TypeInv
    OBVIOUS
  <2>1. ring = [i \in Slot |-> None]
    BY DEF Init, Slot
  <2>2. wire \in [frames : Nat, handled : Nat, entered : Nat, calls : Nat, lookups : SUBSET Lookup,
                  queries : SUBSET Query, pings : SUBSET Profiles,
                  sent : SUBSET [mac : Profiles \cup {None}, prof : Profiles]]
    BY DEF Init
  <2>3. job \in [kind : {"none", "ping", "dns"}, name : Names \cup {None},
                 target : {None, Gateway, Onlink}, heard : BOOLEAN] /\ job.kind = "none"
    BY DEF Init, NoJob
  <2>4. dns \in [id : 0..IdMod, port : 0..PortMod, done : Names \cup {0, -1}]
    BY NetAssumption DEF Init
  <2>5. Shape
    BY <2>1, <2>2, <2>3, <2>4 DEF Init, Shape
  <2>6. {rxi, head, tail} \subseteq 0..(Slots - 1) /\ guard \in 0..Slots /\ nest \in 0..StackFrames
    BY NetAssumption DEF Init
  <2>7. TypeOK
    BY <2>1, <2>4, <2>6 DEF Init, TypeOK, Slot
  <2>8. CallInv
    BY <2>3 DEF Init, CallInv
  <2>9. QED
    BY <2>5, <2>7, <2>8 DEF TypeInv
<1>2. TypeInv /\ [Next]_vars => TypeInv'
  <2> SUFFICES ASSUME TypeInv, [Next]_vars
               PROVE  TypeInv'
    OBVIOUS
  <2> USE NetAssumption
  <2> DEFINE Rest == /\ prof \in Profiles /\ gwMac \in Profiles \cup {None}
                     /\ {rxi, head, tail} \subseteq Slot
                     /\ guard \in 0..Slots /\ nest \in 0..StackFrames
                     /\ at \in {"idle", "send", "loop", "poll", "down"}
                     /\ after \in {"idle", "send", "loop"} /\ reply \in BOOLEAN
  <2>1. ASSUME Shape', RingTyped', Rest'
        PROVE  TypeInv'
    BY <2>1, CallStep DEF TypeInv, TypeOK, Shape, RingTyped, Slot
  <2>2. Shape /\ RingTyped /\ Rest
    BY DEF TypeInv, TypeOK, RingTyped, Slot
  <2>3. UNCHANGED <<ring, wire>> => RingTyped'
    BY RingTypedGrows
  <2> HIDE DEF Rest
  <2>4. CASE DeviceWrites
    <3>1. PICK f \in Frames : ring' = [ring EXCEPT ![head] = [n |-> wire.frames + 1, f |-> f]]
      BY <2>4 DEF DeviceWrites
    <3>2. wire' = [wire EXCEPT !.frames = @ + 1] /\ head' = (head + 1) % Slots
          /\ UNCHANGED <<prof, gwMac, rxi, tail, guard, nest, at, after, job, dns, reply, tick>>
      BY <2>4 DEF DeviceWrites
    <3>3. /\ wire'.frames = wire.frames + 1 /\ wire.frames \in Nat
          /\ wire'.pings = wire.pings /\ wire'.queries = wire.queries
      BY <2>2, <3>2 DEF Shape
    <3>4. Frames \subseteq AnyFrame /\ Frames \subseteq Frames'
      BY <2>2, <3>3, FramesGrow
    <3>5. f \in AnyFrame /\ f \in Frames'
      BY <3>4
    <3>6. ring' \in [Slot -> {None} \cup [n : Nat, f : AnyFrame]]
      <4>1. [n |-> wire.frames + 1, f |-> f] \in [n : Nat, f : AnyFrame]
        BY <3>3, <3>5
      <4>2. QED
        BY <2>2, <3>1, <4>1 DEF Shape
    <3>7. wire' \in [frames : Nat, handled : Nat, entered : Nat, calls : Nat, lookups : SUBSET Lookup,
                     queries : SUBSET Query, pings : SUBSET Profiles,
                     sent : SUBSET [mac : Profiles \cup {None}, prof : Profiles]]
      BY <2>2, <3>2 DEF Shape
    <3>8. Shape'
      BY <2>2, <3>2, <3>6, <3>7 DEF Shape
    <3>9. RingTyped'
      <4>1. \A i \in Slot : ring'[i] = IF i = head THEN [n |-> wire.frames + 1, f |-> f] ELSE ring[i]
        BY <2>2, <3>1 DEF Shape
      <4>2. \A i \in Slot : ring[i] = None \/ (ring[i].n \in 1..wire'.frames /\ ring[i].f \in Frames')
        BY <2>2, <3>3, <3>4 DEF RingTyped
      <4>3. wire.frames + 1 \in 1..wire'.frames
        BY <3>3
      <4>4. QED
        BY <3>5, <4>1, <4>2, <4>3 DEF RingTyped
    <3>10. Rest'
      <4>1. head' \in Slot
        BY <2>2, <3>2 DEF Rest, Slot
      <4>2. QED
        BY <2>2, <3>2, <4>1 DEF Rest
    <3>11. QED
      BY <2>1, <3>8, <3>9, <3>10
  <2>5. CASE Tick \/ Configure \/ Resend \/ PollReturns \/ Down \/ UNCHANGED vars
    <3>1. UNCHANGED <<ring, wire, dns, job>> /\ tick' \in {tick, tick + 1}
      BY <2>5 DEF Tick, Configure, Resend, PollReturns, Down, vars, ringVars
    <3>2. Rest'
      BY <2>2, <2>5 DEF Tick, Configure, Forget, Resend, PollReturns, Down, vars, ringVars, Rest
    <3>3. Shape'
      BY <2>2, <3>1 DEF Shape
    <3>4. QED
      BY <2>1, <2>3, <3>1, <3>2, <3>3
  <2>6. CASE NestedPoll
    <3>1. UNCHANGED <<ring, dns, job, tick>> /\ wire' = [wire EXCEPT !.entered = @ + 1]
      BY <2>6 DEF NestedPoll
    <3>2. Rest'
      BY <2>2, <2>6 DEF NestedPoll, Rest
    <3>3. Shape'
      BY <2>2, <3>1 DEF Shape
    <3>4. RingTyped'
      <4>1. wire'.pings = wire.pings /\ wire'.queries = wire.queries /\ wire'.frames = wire.frames
        BY <2>2, <3>1 DEF Shape
      <4>2. QED
        BY <2>2, <3>1, <4>1, RingTypedGrows
    <3>5. QED
      BY <2>1, <3>2, <3>3, <3>4
  <2>7. CASE StartPing
    <3>1. /\ wire' = [wire EXCEPT !.calls = @ + 1] /\ dns' = dns
          /\ job' = [kind |-> "ping", name |-> None, target |-> Gateway, heard |-> FALSE]
          /\ ring' = ring /\ tick' = tick
      BY <2>7 DEF StartPing, Begin, ringVars
    <3>2. Rest'
      BY <2>2, <2>7 DEF StartPing, Begin, ringVars, Rest
    <3>3. Shape'
      BY <2>2, <3>1 DEF Shape
    <3>4. RingTyped'
      <4>1. wire'.pings = wire.pings /\ wire'.queries = wire.queries /\ wire'.frames = wire.frames
        BY <2>2, <3>1 DEF Shape
      <4>2. QED
        BY <3>1, <4>1, RingTypedGrows
    <3>5. QED
      BY <2>1, <3>2, <3>3, <3>4
  <2>8. CASE StartLookup
    <3>1. PICK n \in Names, late \in {0, 1} :
            /\ Begin("dns", n, IF prof \in LocalDns THEN Onlink ELSE Gateway)
            /\ dns' = [dns EXCEPT !.id = QueryId, !.port = 1 + ((tick + late) % PortMod), !.done = 0]
            /\ wire' = [wire EXCEPT !.calls = @ + 1,
                          !.lookups = @ \cup {[name |-> n, id |-> dns'.id, port |-> dns'.port]}]
            /\ UNCHANGED reply
      BY <2>8 DEF StartLookup
    <3>2. /\ job' = [kind |-> "dns", name |-> n, heard |-> FALSE,
                     target |-> IF prof \in LocalDns THEN Onlink ELSE Gateway]
          /\ ring' = ring /\ tick' = tick
      BY <3>1 DEF Begin, ringVars
    <3>3. Rest'
      BY <2>2, <3>1 DEF Begin, ringVars, Rest
    <3>4. QueryId \in 0..IdMod /\ 1 + ((tick + late) % PortMod) \in 0..PortMod
      BY <2>2 DEF QueryId, Shape
    <3>5. dns' \in [id : 0..IdMod, port : 0..PortMod, done : Names \cup {0, -1}]
      BY <2>2, <3>1, <3>4 DEF Shape
    <3>6. [name |-> n, id |-> dns'.id, port |-> dns'.port] \in Lookup
      BY <3>5 DEF Lookup
    <3>7. wire' \in [frames : Nat, handled : Nat, entered : Nat, calls : Nat, lookups : SUBSET Lookup,
                     queries : SUBSET Query, pings : SUBSET Profiles,
                     sent : SUBSET [mac : Profiles \cup {None}, prof : Profiles]]
      <4>1. wire.calls + 1 \in Nat
        BY <2>2 DEF Shape
      <4>2. wire.lookups \cup {[name |-> n, id |-> dns'.id, port |-> dns'.port]} \in SUBSET Lookup
        BY <2>2, <3>6 DEF Shape
      <4>3. QED
        BY <2>2, <3>1, <4>1, <4>2 DEF Shape
    <3>8. Shape'
      BY <2>2, <3>2, <3>5, <3>7 DEF Shape
    <3>9. RingTyped'
      <4>1. wire'.pings = wire.pings /\ wire'.queries = wire.queries /\ wire'.frames = wire.frames
        BY <2>2, <3>1 DEF Shape
      <4>2. QED
        BY <3>2, <4>1, RingTypedGrows
    <3>10. QED
      BY <2>1, <3>3, <3>8, <3>9
  <2>9. CASE LookupBadName
    <3>1. PICK i \in {0, QueryId} : dns' = [dns EXCEPT !.id = i]
      BY <2>9 DEF LookupBadName
    <3>2. UNCHANGED <<ring, wire, job, tick>>
      BY <2>9 DEF LookupBadName, ringVars
    <3>3. QueryId \in 0..IdMod
      BY <2>2 DEF QueryId, Shape
    <3>4. Shape'
      BY <2>2, <3>1, <3>2, <3>3 DEF Shape
    <3>5. Rest'
      BY <2>2, <2>9 DEF LookupBadName, ringVars, Rest
    <3>6. QED
      BY <2>1, <2>3, <3>2, <3>4, <3>5
  <2>10. CASE SendNow
    <3>1. UNCHANGED <<ring, job, dns, tick>>
      BY <2>10 DEF SendNow, PollFor
    <3>2. Rest'
      BY <2>2, <2>10 DEF SendNow, PollFor, Rest
    <3> DEFINE w == [wire EXCEPT !.sent = {[mac |-> gwMac, prof |-> prof]}]
    <3>3. w \in [frames : Nat, handled : Nat, entered : Nat, calls : Nat, lookups : SUBSET Lookup,
                 queries : SUBSET Query, pings : SUBSET Profiles,
                 sent : SUBSET [mac : Profiles \cup {None}, prof : Profiles]]
      BY <2>2 DEF Shape, Rest
    <3>4. w.pings = wire.pings /\ w.queries = wire.queries /\ w.frames = wire.frames
      BY <2>2 DEF Shape
    <3>5. OnWire = w
      BY DEF OnWire
    <3> HIDE DEF w
    <3>6. CASE job.kind = "ping"
      <4>1. wire' = [w EXCEPT !.pings = @ \cup {prof}]
        BY <2>10, <3>5, <3>6 DEF SendNow
      <4>2. Shape'
        BY <2>2, <3>1, <3>3, <4>1 DEF Shape, Rest
      <4>3. wire.pings \subseteq wire'.pings /\ wire'.queries = wire.queries /\ wire'.frames = wire.frames
        BY <3>3, <3>4, <4>1
      <4>4. RingTyped'
        BY <3>1, <4>3, RingTypedGrows
      <4>5. QED
        BY <2>1, <3>2, <4>2, <4>4
    <3>7. CASE job.kind # "ping"
      <4> DEFINE q == [name |-> job.name, id |-> dns.id, port |-> dns.port, to |-> prof]
      <4>1. wire' = [w EXCEPT !.queries = @ \cup {q}]
        BY <2>10, <3>5, <3>7 DEF SendNow
      <4>2. job.kind = "dns"
        BY <2>2, <2>10, <3>7 DEF SendNow, TypeInv, CallInv, Shape
      <4>3. q \in Query
        BY <2>2, <4>2 DEF Shape, Rest, Query
      <4> HIDE DEF q
      <4>4. Shape'
        BY <2>2, <3>1, <3>3, <4>1, <4>3 DEF Shape
      <4>5. wire'.pings = wire.pings /\ wire.queries \subseteq wire'.queries /\ wire'.frames = wire.frames
        BY <3>3, <3>4, <4>1
      <4>6. RingTyped'
        BY <3>1, <4>5, RingTypedGrows
      <4>7. QED
        BY <2>1, <3>2, <4>4, <4>6
    <3>8. QED
      BY <3>6, <3>7
  <2>11. CASE ResolvePolls \/ ResolveFails \/ IdlePolls \/ LoopPolls
    <3>1. UNCHANGED <<ring, wire, job, dns, tick>>
      BY <2>11 DEF ResolvePolls, ResolveFails, IdlePolls, LoopPolls, PollFor
    <3>2. Rest'
      BY <2>2, <2>11 DEF ResolvePolls, ResolveFails, IdlePolls, LoopPolls, PollFor, Rest
    <3>3. Shape'
      BY <2>2, <3>1 DEF Shape
    <3>4. QED
      BY <2>1, <2>3, <3>1, <3>2, <3>3
  <2>12. CASE Return
    <3>1. UNCHANGED <<ring, wire, tick>> /\ job' = NoJob
          /\ dns' = IF job.kind = "dns" THEN [dns EXCEPT !.id = 0, !.port = 0] ELSE dns
      BY <2>12 DEF Return, ringVars
    <3>2. Rest'
      BY <2>2, <2>12 DEF Return, ringVars, Rest
    <3>3. dns' \in [id : 0..IdMod, port : 0..PortMod, done : Names \cup {0, -1}]
      <4>1. 0 \in 0..IdMod /\ 0 \in 0..PortMod
        OBVIOUS
      <4>2. dns \in [id : 0..IdMod, port : 0..PortMod, done : Names \cup {0, -1}]
        BY <2>2 DEF Shape
      <4>3. [dns EXCEPT !.id = 0, !.port = 0]
              \in [id : 0..IdMod, port : 0..PortMod, done : Names \cup {0, -1}]
        BY <4>1, <4>2
      <4>4. QED
        BY <3>1, <4>2, <4>3
    <3>4. NoJob \in [kind : {"none", "ping", "dns"}, name : Names \cup {None},
                     target : {None, Gateway, Onlink}, heard : BOOLEAN] /\ NoJob.kind = "none"
      BY DEF NoJob
    <3>5. Shape'
      BY <2>2, <3>1, <3>3, <3>4 DEF Shape
    <3>6. QED
      BY <2>1, <2>3, <3>1, <3>2, <3>5
  <2>13. CASE TakeFrame
    <3> DEFINE f == ring[rxi].f
    <3>1. /\ ring' = [ring EXCEPT ![rxi] = None] /\ tail' = rxi /\ rxi' = (rxi + 1) % Slots
          /\ guard < Slots /\ guard' = guard + 1 /\ ring[rxi] # None
          /\ UNCHANGED <<prof, head, nest, at, after, tick>>
          /\ HandleArp(f) \/ HandleEcho(f) \/ HandleReply(f) \/ HandleUdp(f)
      BY <2>13 DEF TakeFrame, Released, SlotAfter
    <3>2. rxi \in Slot /\ ring[rxi] \in [n : Nat, f : AnyFrame]
      BY <2>2, <3>1 DEF Shape, Rest
    <3>3. ring' \in [Slot -> {None} \cup [n : Nat, f : AnyFrame]]
          /\ \A i \in Slot : ring'[i] \in {ring[i], None}
      <4>1. ring \in [Slot -> {None} \cup [n : Nat, f : AnyFrame]]
        BY <2>2 DEF Shape
      <4>2. ring' = [ring EXCEPT ![rxi] = None]
        BY <3>1
      <4>3. QED
        BY <3>2, <4>1, <4>2
    <3>4. ring[rxi].n \in Nat /\ f \in AnyFrame
      BY <3>2
    <3>5. Rest'
      <4>1. rxi' \in Slot /\ guard' \in 0..Slots
        BY <2>2, <3>1, <3>2 DEF Rest, Slot
      <4>2. gwMac' \in Profiles \cup {None} /\ reply' \in BOOLEAN
        BY <2>2, <3>1 DEF HandleArp, HandleEcho, HandleReply, HandleUdp, Rest
      <4>3. QED
        BY <2>2, <3>1, <3>2, <4>1, <4>2 DEF Rest
    <3>6. /\ wire' \in [frames : Nat, handled : Nat, entered : Nat, calls : Nat, lookups : SUBSET Lookup,
                        queries : SUBSET Query, pings : SUBSET Profiles,
                        sent : SUBSET [mac : Profiles \cup {None}, prof : Profiles]]
          /\ wire'.pings = wire.pings /\ wire'.queries = wire.queries /\ wire'.frames = wire.frames
      <4> DEFINE W == [frames : Nat, handled : Nat, entered : Nat, calls : Nat, lookups : SUBSET Lookup,
                       queries : SUBSET Query, pings : SUBSET Profiles,
                       sent : SUBSET [mac : Profiles \cup {None}, prof : Profiles]]
      <4>1. OnWire \in W /\ OnWire.pings = wire.pings /\ OnWire.queries = wire.queries
            /\ OnWire.frames = wire.frames /\ wire \in W
        BY <2>2 DEF OnWire, Shape, Rest
      <4>2. wire' = Done(wire) \/ wire' = Done(OnWire)
        BY <3>1 DEF HandleArp, HandleEcho, HandleReply, HandleUdp
      <4>3. ASSUME NEW w \in W
            PROVE  /\ Done(w) \in W /\ Done(w).pings = w.pings /\ Done(w).queries = w.queries
                   /\ Done(w).frames = w.frames
        <5>1. w.entered + 1 \in Nat
          OBVIOUS
        <5>2. Done(w) = [w EXCEPT !.entered = w.entered + 1, !.handled = ring[rxi].n]
          BY DEF Done
        <5>3. QED
          BY <3>4, <5>1, <5>2
      <4> HIDE DEF W
      <4>4. wire' \in W /\ wire'.pings = wire.pings /\ wire'.queries = wire.queries
            /\ wire'.frames = wire.frames
        BY <4>1, <4>2, <4>3
      <4>5. QED
        BY <4>4 DEF W
    <3>7. dns' \in [id : 0..IdMod, port : 0..PortMod, done : Names \cup {0, -1}]
      <4>1. CASE HandleUdp(f)
        <5>1. f.query \in Query
          BY <3>4, <4>1 DEF HandleUdp, AnyFrame
        <5>2. f.query.name \in Names
          BY <5>1 DEF Query
        <5>3. QED
          BY <2>2, <4>1, <5>2 DEF HandleUdp, Shape
      <4>2. QED
        BY <2>2, <3>1, <4>1 DEF HandleArp, HandleEcho, HandleReply, Shape
    <3>8. /\ job' \in [kind : {"none", "ping", "dns"}, name : Names \cup {None},
                       target : {None, Gateway, Onlink}, heard : BOOLEAN]
          /\ job'.kind = job.kind /\ job'.name = job.name
      BY <2>2, <3>1 DEF HandleArp, HandleEcho, HandleReply, HandleUdp, Shape
    <3>9. Shape'
      BY <2>2, <3>1, <3>3, <3>6, <3>7, <3>8 DEF Shape
    <3>10. RingTyped'
      BY <3>3, <3>6, RingTypedGrows
    <3>11. QED
      BY <2>1, <3>5, <3>9, <3>10
  <2>14. QED
    BY <2>4, <2>5, <2>6, <2>7, <2>8, <2>9, <2>10, <2>11, <2>12, <2>13 DEF Next
<1>3. QED
  BY <1>1, <1>2, PTL DEF Spec

(* The frames in the receive ring, the pending call and every other        *)
(* variable keep their types, whoever polls and however deep.              *)
THEOREM TypeCorrect == Spec => []TypeOK
  BY TypeInvariant, PTL DEF TypeInv
-----------------------------------------------------------------------------
(* Every IP packet is sent to the hardware address of the gateway of the   *)
(* profile it is sent under, since net_configure forgets the address with  *)
(* the profile and handle_arp only learns that of the current gateway.     *)
THEOREM ToGateway == Spec => []FramesToGateway
<1>1. Init => GatewayInv /\ FramesToGateway
  BY DEF Init, GatewayInv, FramesToGateway
<1>2. TypeInv /\ GatewayInv /\ FramesToGateway /\ [Next]_vars => (GatewayInv /\ FramesToGateway)'
  <2> SUFFICES ASSUME TypeInv, GatewayInv, FramesToGateway, [Next]_vars
               PROVE  (GatewayInv /\ FramesToGateway)'
    OBVIOUS
  <2> USE DEF GatewayInv, FramesToGateway
  <2>1. wire \in [frames : Nat, handled : Nat, entered : Nat, calls : Nat, lookups : SUBSET Lookup,
                  queries : SUBSET Query, pings : SUBSET Profiles,
                  sent : SUBSET [mac : Profiles \cup {None}, prof : Profiles]]
    BY DEF TypeInv, Shape
  <2>2. ASSUME gwMac # None
        PROVE  OnWire.sent = {[mac |-> prof, prof |-> prof]}
    BY <2>1, <2>2 DEF OnWire
  <2>3. CASE Configure
    BY <2>3 DEF Configure, Forget
  <2>4. CASE SendNow
    <3>1. gwMac # None /\ prof' = prof /\ gwMac' = gwMac
      BY <2>4 DEF SendNow, Reaches, PollFor
    <3>2. wire'.sent = OnWire.sent
      BY <2>1, <2>4 DEF SendNow, OnWire
    <3>3. QED
      BY <2>2, <3>1, <3>2
  <2>5. CASE TakeFrame
    <3> DEFINE f == ring[rxi].f
    <3>1. (HandleArp(f) \/ HandleEcho(f) \/ HandleReply(f) \/ HandleUdp(f)) /\ prof' = prof
      BY <2>5 DEF TakeFrame
    <3>2. GatewayInv'
      BY <3>1 DEF HandleArp, HandleEcho, HandleReply, HandleUdp
    <3>3. wire'.sent = wire.sent \/ (gwMac # None /\ wire'.sent = OnWire.sent)
      <4>1. CASE HandleEcho(f)
        BY <2>1, <4>1 DEF HandleEcho, Reaches, OnWire, Done
      <4>2. QED
        BY <2>1, <3>1, <4>1 DEF HandleArp, HandleReply, HandleUdp, Done
    <3>4. QED
      BY <2>2, <3>2, <3>3
  <2>6. CASE \/ DeviceWrites \/ StartPing \/ StartLookup \/ NestedPoll
    <3>1. UNCHANGED <<prof, gwMac>>
      BY <2>6 DEF DeviceWrites, StartPing, StartLookup, Begin, NestedPoll
    <3>2. wire'.sent = wire.sent
      BY <2>1, <2>6 DEF DeviceWrites, StartPing, StartLookup, NestedPoll
    <3>3. QED
      BY <3>1, <3>2
  <2>7. CASE \/ Tick \/ LookupBadName \/ ResolvePolls \/ ResolveFails \/ IdlePolls \/ LoopPolls
             \/ Resend \/ Return \/ PollReturns \/ Down \/ UNCHANGED vars
    <3>1. UNCHANGED <<prof, gwMac, wire>>
      BY <2>7 DEF Tick, LookupBadName, ResolvePolls, ResolveFails, IdlePolls, LoopPolls, PollFor,
                  Resend, Return, PollReturns, Down, vars
    <3>2. QED
      BY <3>1
  <2>8. QED
    BY <2>3, <2>4, <2>5, <2>6, <2>7 DEF Next
<1>3. QED
  BY <1>1, <1>2, TypeInvariant, PTL DEF Spec
-----------------------------------------------------------------------------
(* dns_lookup returns the address of another name only if a lookup of that *)
(* name had the same number and port, for any answers that come late,      *)
(* twice, or after a lookup that failed.                                   *)
THEOREM AnswersMatch == Spec => []AnswerIsForQuery
<1> DEFINE Inv == AskedInv /\ AnswerIsForQuery
<1>1. Init => Inv
  BY DEF Init, AskedInv, AnswerIsForQuery, NoJob
<1>2. TypeInv /\ Inv /\ [Next]_vars => Inv'
  <2> SUFFICES ASSUME TypeInv, Inv, [Next]_vars
               PROVE  Inv'
    OBVIOUS
  <2> USE DEF AskedInv, AnswerIsForQuery
  <2>1. /\ wire \in [frames : Nat, handled : Nat, entered : Nat, calls : Nat, lookups : SUBSET Lookup,
                     queries : SUBSET Query, pings : SUBSET Profiles,
                     sent : SUBSET [mac : Profiles \cup {None}, prof : Profiles]]
        /\ dns \in [id : 0..IdMod, port : 0..PortMod, done : Names \cup {0, -1}]
        /\ job \in [kind : {"none", "ping", "dns"}, name : Names \cup {None},
                    target : {None, Gateway, Onlink}, heard : BOOLEAN]
    BY DEF TypeInv, Shape
  <2>2. CASE StartLookup
    <3>1. PICK n \in Names, late \in {0, 1} :
            /\ Begin("dns", n, IF prof \in LocalDns THEN Onlink ELSE Gateway)
            /\ dns' = [dns EXCEPT !.id = QueryId, !.port = 1 + ((tick + late) % PortMod), !.done = 0]
            /\ wire' = [wire EXCEPT !.calls = @ + 1,
                          !.lookups = @ \cup {[name |-> n, id |-> dns'.id, port |-> dns'.port]}]
            /\ UNCHANGED reply
      BY <2>2 DEF StartLookup
    <3>2. job'.name = n /\ job'.kind = "dns"
      BY <3>1 DEF Begin
    <3>3. dns'.done = 0
      BY <2>1, <3>1
    <3>4. /\ wire'.queries = wire.queries
          /\ wire'.lookups = wire.lookups \cup {[name |-> n, id |-> dns'.id, port |-> dns'.port]}
      BY <2>1, <3>1
    <3>5. 0 \notin Names
      BY NetAssumption
    <3>6. QED
      BY <3>2, <3>3, <3>4, <3>5
  <2>3. CASE StartPing
    <3>1. wire'.queries = wire.queries /\ wire'.lookups = wire.lookups /\ job'.kind = "ping"
      BY <2>1, <2>3 DEF StartPing, Begin
    <3>2. QED
      BY <3>1
  <2>4. CASE LookupBadName
    <3>1. UNCHANGED <<wire, job>> /\ job.kind = "none"
      BY <2>4 DEF LookupBadName, TypeInv, CallInv
    <3>2. QED
      BY <3>1
  <2>5. CASE Return
    <3>1. wire' = wire /\ job'.kind = "none"
      BY <2>5 DEF Return, NoJob
    <3>2. QED
      BY <3>1
  <2>6. CASE SendNow
    <3>1. UNCHANGED <<job, dns>> /\ job.kind \in {"ping", "dns"}
      BY <2>1, <2>6 DEF SendNow, PollFor, TypeInv, CallInv
    <3> DEFINE q == [name |-> job.name, id |-> dns.id, port |-> dns.port, to |-> prof]
    <3>2. /\ wire'.lookups = wire.lookups
          /\ wire'.queries = IF job.kind = "ping" THEN wire.queries ELSE wire.queries \cup {q}
      BY <2>1, <2>6 DEF SendNow, OnWire
    <3>3. job.kind = "dns" => [name |-> q.name, id |-> q.id, port |-> q.port] \in wire.lookups
      OBVIOUS
    <3> HIDE DEF q
    <3>4. QED
      BY <3>1, <3>2, <3>3
  <2>7. CASE TakeFrame
    <3> DEFINE f == ring[rxi].f
    <3>1. /\ HandleArp(f) \/ HandleEcho(f) \/ HandleReply(f) \/ HandleUdp(f)
          /\ prof' = prof /\ ring[rxi] # None
      BY <2>7 DEF TakeFrame
    <3>2. wire'.lookups = wire.lookups /\ wire'.queries = wire.queries
      BY <2>1, <3>1 DEF HandleArp, HandleEcho, HandleReply, HandleUdp, OnWire, Done
    <3>3. job'.kind = job.kind /\ job'.name = job.name
      BY <2>1, <3>1 DEF HandleArp, HandleEcho, HandleReply, HandleUdp
    <3>4. CASE dns' = dns
      BY <3>2, <3>3, <3>4
    <3>5. CASE HandleUdp(f) /\ dns' # dns
      <4>1. f \in Frames /\ f.kind = "answer"
        BY <3>1, <3>5 DEF TypeInv, TypeOK, HandleUdp
      <4>2. f.query \in wire.queries
        BY <4>1 DEF Frames
      <4>3. /\ dns' = [dns EXCEPT !.done = IF f.ok THEN f.query.name ELSE -1]
            /\ f.query.id = dns.id /\ f.query.port = dns.port
        BY <3>5 DEF HandleUdp, OwnAnswer
      <4>4. dns'.id = dns.id /\ dns'.port = dns.port /\ dns'.done \in {f.query.name, -1}
        BY <2>1, <4>3
      <4>5. [name |-> f.query.name, id |-> dns.id, port |-> dns.port] \in wire.lookups
        BY <4>2, <4>3
      <4>6. -1 \notin Names
        BY NetAssumption
      <4>7. QED
        BY <3>2, <3>3, <4>4, <4>5, <4>6
    <3>6. QED
      BY <3>1, <3>4, <3>5 DEF HandleArp, HandleEcho, HandleReply
  <2>8. CASE DeviceWrites \/ NestedPoll
    <3>1. UNCHANGED <<job, dns>> /\ wire'.lookups = wire.lookups /\ wire'.queries = wire.queries
      BY <2>1, <2>8 DEF DeviceWrites, NestedPoll
    <3>2. QED
      BY <3>1
  <2>9. CASE \/ Tick \/ Configure \/ ResolvePolls \/ ResolveFails \/ IdlePolls \/ LoopPolls
             \/ Resend \/ PollReturns \/ Down \/ UNCHANGED vars
    <3>1. UNCHANGED <<job, dns, wire>>
      BY <2>9 DEF Tick, Configure, ResolvePolls, ResolveFails, IdlePolls, LoopPolls, PollFor,
                  Resend, PollReturns, Down, vars
    <3>2. QED
      BY <3>1
  <2>10. QED
    BY <2>2, <2>3, <2>4, <2>5, <2>6, <2>7, <2>8, <2>9 DEF Next
<1>3. QED
  BY <1>1, <1>2, TypeInvariant, PTL DEF Spec
-----------------------------------------------------------------------------
(* The next position, without the modulus. *)
LEMMA NextSlot ==
  ASSUME NEW i \in Slot
  PROVE  (i + 1) % Slots = IF i = Slots - 1 THEN 0 ELSE i + 1
<1>1. CASE i = Slots - 1
  <2>1. i + 1 = Slots /\ Slots % Slots = 0
    BY <1>1, NetAssumption DEF Slot
  <2>2. QED
    BY <1>1, <2>1
<1>2. CASE i # Slots - 1
  <2>1. i + 1 \in 0..(Slots - 1) /\ Slots \in Nat /\ Slots > 0
    BY <1>2, NetAssumption DEF Slot
  <2>2. (i + 1) % Slots = i + 1
    BY <2>1
  <2>3. QED
    BY <1>2, <2>2
<1>3. QED
  BY <1>1, <1>2

(* The frame at the driver's position, if there is one, is the oldest that *)
(* has not been handled.                                                   *)
LEMMA RingOrdered == Spec => []RingInv
<1>1. Init => RingInv
  BY NetAssumption DEF Init, RingInv, Waiting, Ahead, Slot
<1>2. TypeInv /\ RingInv /\ [Next]_vars => RingInv'
  <2> SUFFICES ASSUME TypeInv, RingInv, [Next]_vars
               PROVE  RingInv'
    OBVIOUS
  <2>1. /\ wire \in [frames : Nat, handled : Nat, entered : Nat, calls : Nat, lookups : SUBSET Lookup,
                     queries : SUBSET Query, pings : SUBSET Profiles,
                     sent : SUBSET [mac : Profiles \cup {None}, prof : Profiles]]
        /\ ring \in [Slot -> {None} \cup [n : Nat, f : AnyFrame]]
        /\ rxi \in Slot /\ head \in Slot /\ tail \in Slot
        /\ Slots \in Nat /\ Slots > 1
    BY NetAssumption DEF TypeInv, Shape, TypeOK, Slot
  <2>2. wire.frames \in Nat /\ wire.handled \in Nat
    BY <2>1
  <2> DEFINE k == Waiting
  <2>3. /\ k \in 0..(Slots - 1) /\ rxi \in 0..(Slots - 1)
        /\ head = (IF rxi + k < Slots THEN rxi + k ELSE rxi + k - Slots)
        /\ tail = (IF rxi = 0 THEN Slots - 1 ELSE rxi - 1)
    BY <2>1 DEF RingInv, Slot
  <2> HIDE DEF k
  <2>4. CASE DeviceWrites
    <3>1. PICK f \in Frames : ring' = [ring EXCEPT ![head] = [n |-> wire.frames + 1, f |-> f]]
      BY <2>4 DEF DeviceWrites
    <3>2. /\ head # tail /\ head' = (head + 1) % Slots /\ rxi' = rxi /\ tail' = tail
          /\ wire' = [wire EXCEPT !.frames = @ + 1]
      BY <2>4 DEF DeviceWrites
    <3>3. wire'.frames = wire.frames + 1 /\ wire'.handled = wire.handled
      BY <2>1, <3>2
    <3>4. head' = IF head = Slots - 1 THEN 0 ELSE head + 1
      BY <2>1, <3>2, NextSlot
    <3>5. \A j \in Slot : /\ j # head => ring'[j] = ring[j]
                          /\ j = head => ring'[j].n = wire.frames + 1
      BY <2>1, <3>1
    <3>6. Waiting' = Waiting + 1 /\ \A j \in Slot : Ahead(j)' = Ahead(j)
      BY <2>2, <3>2, <3>3 DEF Waiting, Ahead
    <3>7. Waiting < Slots - 1 /\ Waiting \in Nat /\ Ahead(head) = Waiting
      <4>1. k < Slots - 1 /\ k \in Nat
        BY <2>1, <2>3, <3>2
      <4>2. (IF head >= rxi THEN head - rxi ELSE head - rxi + Slots) = k
        BY <2>1, <2>3
      <4>3. QED
        BY <4>1, <4>2 DEF k, Ahead
    <3>8. \A j \in Slot : j # head => Ahead(j) # Waiting
      BY <2>1, <3>7 DEF RingInv, Ahead, Slot
    <3>9. \A j \in Slot : Ahead(j) \in Nat
      BY <2>1 DEF Ahead, Slot
    <3>10. wire.frames + 1 = wire.handled + 1 + Waiting
      BY <2>2 DEF Waiting
    <3>11. \A j \in Slot : IF Ahead(j) < Waiting + 1 THEN ring'[j].n = wire.handled + 1 + Ahead(j)
                           ELSE ring'[j] = None
      <4> TAKE j \in Slot
      <4>1. CASE j = head
        BY <2>1, <3>5, <3>7, <3>10, <4>1
      <4>2. CASE j # head
        <5>1. Ahead(j) < Waiting + 1 <=> Ahead(j) < Waiting
          BY <3>7, <3>8, <3>9, <4>2
        <5>2. QED
          BY <3>5, <4>2, <5>1 DEF RingInv
      <4>3. QED
        BY <4>1, <4>2
    <3>12. head' = (IF rxi + (Waiting + 1) < Slots THEN rxi + (Waiting + 1)
                    ELSE rxi + (Waiting + 1) - Slots)
      BY <2>1, <3>4, <3>7 DEF RingInv, Slot
    <3>13. QED
      BY <2>1, <3>2, <3>3, <3>6, <3>7, <3>11, <3>12 DEF RingInv
  <2>5. CASE TakeFrame
    <3>1. /\ ring' = [ring EXCEPT ![rxi] = None] /\ tail' = rxi /\ rxi' = (rxi + 1) % Slots
          /\ head' = head /\ ring[rxi] # None
      BY <2>5 DEF TakeFrame, Released, SlotAfter
    <3>2. wire'.frames = wire.frames /\ wire'.handled = ring[rxi].n
      BY <2>1, <2>5 DEF TakeFrame, HandleArp, HandleEcho, HandleReply, HandleUdp, OnWire, Done
    <3>3. Ahead(rxi) = 0
      BY <2>1 DEF Ahead, Slot
    <3>4. 0 < Waiting /\ Waiting < Slots /\ Waiting \in Nat /\ wire'.handled = wire.handled + 1
      <4>1. Waiting \in Nat /\ Waiting < Slots
        BY <2>1 DEF RingInv
      <4>2. 0 < Waiting
        BY <2>1, <3>1, <3>3 DEF RingInv
      <4>3. ring[rxi].n = wire.handled + 1 + 0
        BY <2>1, <3>3, <4>2 DEF RingInv
      <4>4. QED
        BY <2>2, <3>2, <4>1, <4>2, <4>3
    <3>5. rxi' = IF rxi = Slots - 1 THEN 0 ELSE rxi + 1
      BY <2>1, <3>1, NextSlot
    <3>6. Waiting' = Waiting - 1
      BY <2>2, <3>2, <3>4 DEF Waiting
    <3>7. \A j \in Slot : Ahead(j)' = IF j = rxi THEN Slots - 1 ELSE Ahead(j) - 1
      BY <2>1, <3>5 DEF Ahead, Slot
    <3>8. \A j \in Slot : ring'[j] = IF j = rxi THEN None ELSE ring[j]
      BY <2>1, <3>1
    <3>9. \A j \in Slot : Ahead(j) \in Nat /\ (j # rxi => Ahead(j) > 0)
      BY <2>1 DEF Ahead, Slot
    <3>10. ASSUME NEW j \in Slot
           PROVE  IF Ahead(j)' < Waiting' THEN ring'[j].n = wire'.handled + 1 + Ahead(j)'
                  ELSE ring'[j] = None
      <4>1. CASE j = rxi
        BY <2>1, <3>4, <3>6, <3>7, <3>8, <4>1
      <4>2. CASE j # rxi
        <5>1. Ahead(j)' < Waiting' <=> Ahead(j) < Waiting
          BY <3>4, <3>6, <3>7, <3>9, <4>2
        <5>2. wire'.handled + 1 + Ahead(j)' = wire.handled + 1 + Ahead(j)
          BY <2>2, <3>4, <3>7, <3>9, <4>2
        <5>3. QED
          BY <3>8, <4>2, <5>1, <5>2 DEF RingInv
      <4>3. QED
        BY <4>1, <4>2
    <3>11. head' = IF rxi' + (Waiting - 1) < Slots THEN rxi' + (Waiting - 1)
                   ELSE rxi' + (Waiting - 1) - Slots
      <4>1. 0 < k
        BY <3>4 DEF k
      <4>2. head = IF rxi' + (k - 1) < Slots THEN rxi' + (k - 1) ELSE rxi' + (k - 1) - Slots
        BY <2>1, <2>3, <3>5, <4>1
      <4>3. QED
        BY <3>1, <4>2 DEF k
    <3>12. tail' = IF rxi' = 0 THEN Slots - 1 ELSE rxi' - 1
      BY <2>1, <3>1, <3>5 DEF Slot
    <3>13. Waiting' \in 0..(Slots - 1)
      BY <2>1, <3>4, <3>6
    <3>14. QED
      BY <3>6, <3>10, <3>11, <3>12, <3>13 DEF RingInv
  <2>6. ASSUME UNCHANGED <<ring, rxi, head, tail>>,
               wire'.frames = wire.frames /\ wire'.handled = wire.handled
        PROVE  RingInv'
    BY <2>6 DEF RingInv, Waiting, Ahead
  <2>7. CASE StartPing \/ StartLookup \/ SendNow \/ NestedPoll
    <3>1. UNCHANGED <<ring, rxi, head, tail>>
      BY <2>7 DEF StartPing, StartLookup, Begin, SendNow, PollFor, NestedPoll, ringVars
    <3>2. wire'.frames = wire.frames /\ wire'.handled = wire.handled
      BY <2>1, <2>7 DEF StartPing, StartLookup, SendNow, NestedPoll, OnWire
    <3>3. QED
      BY <2>6, <3>1, <3>2
  <2>8. CASE \/ Tick \/ Configure \/ LookupBadName \/ ResolvePolls \/ ResolveFails \/ IdlePolls
             \/ LoopPolls \/ Resend \/ Return \/ PollReturns \/ Down \/ UNCHANGED vars
    <3>1. UNCHANGED <<ring, rxi, head, tail, wire>>
      BY <2>8 DEF Tick, Configure, LookupBadName, ResolvePolls, ResolveFails, IdlePolls, LoopPolls,
                  PollFor, Resend, Return, PollReturns, Down, vars, ringVars
    <3>2. QED
      BY <2>6, <3>1
  <2>9. QED
    BY <2>4, <2>5, <2>7, <2>8 DEF Next
<1>3. QED
  BY <1>1, <1>2, TypeInvariant, PTL DEF Spec

(* A frame is released and counted as handled by TakeFrame only, and then  *)
(* it is the oldest that waits.                                            *)
LEMMA TakesOldest ==
  ASSUME TypeInv, RingInv, TakeFrame
  PROVE  /\ wire'.handled = wire.handled + 1
         /\ wire'.entered = wire.entered + 1
<1>1. /\ wire \in [frames : Nat, handled : Nat, entered : Nat, calls : Nat, lookups : SUBSET Lookup,
                   queries : SUBSET Query, pings : SUBSET Profiles,
                   sent : SUBSET [mac : Profiles \cup {None}, prof : Profiles]]
      /\ rxi \in Slot /\ Slots \in Nat /\ Slots > 1
  BY NetAssumption DEF TypeInv, Shape, TypeOK, Slot
<1>2. wire'.handled = ring[rxi].n /\ wire'.entered = wire.entered + 1 /\ ring[rxi] # None
  BY <1>1 DEF TakeFrame, HandleArp, HandleEcho, HandleReply, HandleUdp, OnWire, Done
<1>3. Ahead(rxi) = 0 /\ Waiting \in Nat
  BY <1>1 DEF Ahead, Slot, RingInv
<1>4. Ahead(rxi) < Waiting
  BY <1>1, <1>2 DEF RingInv
<1>5. ring[rxi].n = wire.handled + 1 + 0
  BY <1>1, <1>3, <1>4 DEF RingInv
<1>6. QED
  BY <1>1, <1>2, <1>5

(* A poll within a poll stands at the frame of the outer one for ever.     *)
LEMMA NestStuck == Spec => []NestInv
<1>1. Init => NestInv
  BY DEF Init, NestInv
<1>2. TypeInv /\ RingInv /\ NestInv /\ [Next]_vars => NestInv'
  <2> SUFFICES ASSUME TypeInv, RingInv, NestInv, [Next]_vars
               PROVE  NestInv'
    OBVIOUS
  <2>1. /\ wire \in [frames : Nat, handled : Nat, entered : Nat, calls : Nat, lookups : SUBSET Lookup,
                     queries : SUBSET Query, pings : SUBSET Profiles,
                     sent : SUBSET [mac : Profiles \cup {None}, prof : Profiles]]
        /\ ring \in [Slot -> {None} \cup [n : Nat, f : AnyFrame]]
        /\ rxi \in Slot /\ head \in Slot /\ nest \in Nat
        /\ Slots \in Nat /\ Slots > 1
    BY NetAssumption DEF TypeInv, Shape, TypeOK, Slot
  <2>2. CASE DeviceWrites
    <3>1. PICK f \in Frames : ring' = [ring EXCEPT ![head] = [n |-> wire.frames + 1, f |-> f]]
      BY <2>2 DEF DeviceWrites
    <3>2. UNCHANGED <<prof, gwMac, rxi, guard, nest, at>>
          /\ wire'.entered = wire.entered /\ wire'.handled = wire.handled
      BY <2>1, <2>2 DEF DeviceWrites
    <3>3. ring[rxi] # None => head # rxi
      <4>1. Ahead(rxi) = 0 /\ Waiting \in 0..(Slots - 1)
        BY <2>1 DEF Ahead, Slot, RingInv
      <4>2. head = rxi => Waiting = 0
        BY <2>1, <4>1 DEF RingInv, Slot
      <4>3. Waiting = 0 => ring[rxi] = None
        BY <2>1, <4>1 DEF RingInv
      <4>4. QED
        BY <4>2, <4>3
    <3>4. ring[rxi] # None => ring'[rxi'] = ring[rxi]
      BY <2>1, <3>1, <3>2, <3>3
    <3>5. Recalled => Recalled'
      BY <3>2, <3>4 DEF Recalled, Reaches
    <3>6. QED
      BY <3>2, <3>5 DEF NestInv
  <2>3. CASE TakeFrame
    <3>1. nest = 0
      BY <2>1, <2>3 DEF NestInv, Recalled, TakeFrame, HandleArp, HandleEcho, HandleReply, HandleUdp
    <3>2. at = "poll" /\ nest' = nest /\ at' = at
      BY <2>3 DEF TakeFrame
    <3>3. QED
      BY <2>1, <2>3, <3>1, <3>2, TakesOldest DEF NestInv
  <2>4. CASE NestedPoll
    <3>1. at' = "down" \/ Recalled'
      BY <2>4 DEF NestedPoll, Recalled, Reaches
    <3>2. nest' \in Nat /\ (nest' = 0 => at' = "down")
      BY <2>1, <2>4 DEF NestedPoll
    <3>3. QED
      BY <3>1, <3>2 DEF NestInv
  <2>5. CASE PollReturns
    <3>1. nest = 0
      BY <2>1, <2>5 DEF NestInv, Recalled, PollReturns
    <3>2. at = "poll" /\ nest' = nest /\ wire' = wire
      BY <2>5 DEF PollReturns
    <3>3. QED
      BY <3>1, <3>2 DEF NestInv
  <2>6. CASE \/ Configure \/ LookupBadName \/ ResolvePolls \/ ResolveFails \/ IdlePolls
             \/ LoopPolls \/ Resend \/ Return \/ StartPing \/ StartLookup \/ SendNow
    <3>1. at \in {"idle", "send", "loop"} /\ nest' = nest
      BY <2>6 DEF Configure, LookupBadName, ResolvePolls, ResolveFails, IdlePolls, LoopPolls,
                  PollFor, Resend, Return, StartPing, StartLookup, SendNow, Begin
    <3>2. wire'.entered = wire.entered /\ wire'.handled = wire.handled
      <4>1. CASE StartPing \/ StartLookup \/ SendNow
        BY <2>1, <4>1 DEF StartPing, StartLookup, SendNow, OnWire
      <4>2. QED
        BY <2>6, <4>1 DEF Configure, LookupBadName, ResolvePolls, ResolveFails, IdlePolls,
                          LoopPolls, Resend, Return
    <3>3. nest = 0
      BY <2>1, <3>1 DEF NestInv, Recalled
    <3>4. QED
      BY <3>1, <3>2, <3>3 DEF NestInv
  <2>7. CASE Tick \/ Down \/ UNCHANGED vars
    <3>1. UNCHANGED <<prof, gwMac, ring, rxi, guard, nest, at, wire>>
      BY <2>7 DEF Tick, Down, vars, ringVars
    <3>2. QED
      BY <3>1 DEF NestInv, Recalled, Reaches
  <2>8. QED
    BY <2>2, <2>3, <2>4, <2>5, <2>6, <2>7 DEF Next
<1>3. QED
  BY <1>1, <1>2, TypeInvariant, RingOrdered, PTL DEF Spec

(* A frame whose handling returns was given to handle_frame once, as was   *)
(* every one before it, and they are handled in the order in which the     *)
(* device has received them, for rings of any size; a frame that is given  *)
(* to handle_frame once more from within its handling never returns.       *)
THEOREM FramesInOrder == Spec => RxInOrder
<1>1. TypeInv /\ RingInv /\ NestInv /\ NestInv' /\ [Next]_vars
        => [wire'.handled # wire.handled => /\ wire'.handled = wire.handled + 1
                                            /\ wire'.entered = wire'.handled]_vars
  <2> SUFFICES ASSUME TypeInv, RingInv, NestInv, NestInv', [Next]_vars, wire'.handled # wire.handled
               PROVE  wire'.handled = wire.handled + 1 /\ wire'.entered = wire'.handled
    OBVIOUS
  <2>1. wire \in [frames : Nat, handled : Nat, entered : Nat, calls : Nat, lookups : SUBSET Lookup,
                  queries : SUBSET Query, pings : SUBSET Profiles,
                  sent : SUBSET [mac : Profiles \cup {None}, prof : Profiles]]
    BY DEF TypeInv, Shape
  <2>2. TakeFrame
    <3>1. CASE StartPing \/ StartLookup \/ SendNow \/ DeviceWrites \/ NestedPoll
      BY <2>1, <3>1 DEF StartPing, StartLookup, SendNow, DeviceWrites, NestedPoll, OnWire
    <3>2. CASE \/ Tick \/ Configure \/ LookupBadName \/ ResolvePolls \/ ResolveFails \/ IdlePolls
               \/ LoopPolls \/ Resend \/ Return \/ PollReturns \/ Down \/ UNCHANGED vars
      BY <3>2 DEF Tick, Configure, LookupBadName, ResolvePolls, ResolveFails, IdlePolls, LoopPolls,
                  PollFor, Resend, Return, PollReturns, Down, vars
    <3>3. QED
      BY <3>1, <3>2 DEF Next
  <2>3. nest' = nest /\ nest = 0 /\ at' = "poll"
    <3>1. at = "poll" /\ at' = at /\ nest' = nest
      BY <2>2 DEF TakeFrame
    <3>2. nest \in Nat
      BY NetAssumption DEF TypeInv, TypeOK
    <3>3. nest = 0
      BY <2>2, <3>1, <3>2 DEF NestInv, Recalled, TakeFrame, HandleArp, HandleEcho, HandleReply, HandleUdp
    <3>4. QED
      BY <3>1, <3>3
  <2>4. QED
    BY <2>2, <2>3, TakesOldest DEF NestInv
<1>2. QED
  BY <1>1, TypeInvariant, RingOrdered, NestStuck, PTL DEF Spec, RxInOrder
=============================================================================
