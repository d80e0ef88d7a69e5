----------------------------- MODULE DhcpProofs -----------------------------
(* Theorems about Dhcp, for any servers, options, timeouts and bounds. *)
EXTENDS Dhcp, TLAPS

(***************************************************************************)
(* The inductive invariant behind LeaseAgreed.  The lease has one source   *)
(* because a reply of this client carries fields of its sender only, the   *)
(* one REQUEST of the attempt names the server of the accepted offer, and  *)
(* only the server a REQUEST names acknowledges it.                        *)
(***************************************************************************)
OneSource(l, s) == \A f \in Field : l[f] \in {s, None}

WireInv ==
  \A m \in wire : m.mine =>
    /\ OneSource(m.lease, m.from)
    /\ m.type = "ack" => \E b \in bcast : b.type = "request" /\ b.server = m.from

PcInv ==
  /\ pc \in {"boot", "done"} => phase = 0 /\ event = "none"
  /\ pc \in {"loop", "tx", "poll"} => phase \in {1, 2}
  /\ verdict = "none" <=> pc # "done"

RequestInv ==
  \A b \in bcast : b.type = "request" =>
    /\ b.server = offer["server"]
    /\ pc = "done" \/ phase = 2

OfferInv ==
  phase = 2 => \E s \in Servers : offer["server"] = s /\ OneSource(offer, s)

RxInv ==
  /\ event = "offer" => phase = 1 /\ \E s \in Servers : OneSource(rxLease, s)
  /\ event = "ack" =>
       phase = 2 /\ \E m \in wire : m.mine /\ m.type = "ack" /\ m.lease = rxLease

IInv == TypeOK /\ WireInv /\ PcInv /\ RequestInv /\ OfferInv /\ RxInv /\ LeaseAgreed
-----------------------------------------------------------------------------
(* What a server can put in a reply is a lease of its own fields. *)
LEMMA LeaseOfIsLease ==
  ASSUME NEW s \in Servers, NEW opts
  PROVE  LeaseOf(s, opts) \in Lease /\ OneSource(LeaseOf(s, opts), s)
  BY DEF LeaseOf, Lease, OneSource

(* Overlaying one lease on another yields a lease (lease_overlay). *)
LEMMA OverlayIsLease ==
  ASSUME NEW dst \in Lease, NEW src \in Lease
  PROVE  Overlay(dst, src) \in Lease
  BY DEF Overlay, Lease

(* Every variable of the client, the servers and the link keeps its type.  *)
THEOREM TypeCorrect == Spec => []TypeOK
<1>1. Init => TypeOK
  BY ConstantsAssumption DEF Init, TypeOK, EmptyLease, Lease, Profile
<1>2. TypeOK /\ [Next]_vars => TypeOK'
  <2> SUFFICES ASSUME TypeOK, [Next]_vars
               PROVE  TypeOK'
    OBVIOUS
  <2> USE DEF TypeOK, wait, link
  <2>1. CASE Acquire
    BY <2>1 DEF Acquire, EnterWait
  <2>2. CASE LoopTimeout
    BY <2>2 DEF LoopTimeout, Fail
  <2>3. CASE LoopEnter
    BY <2>3 DEF LoopEnter
  <2>4. CASE Transmit
    <3>1. Packet \in Broadcast
      BY DEF Packet, Broadcast, Lease, Field
    <3>2. QED
      BY <2>4, <3>1 DEF Transmit
  <2>5. CASE PollFrame
    BY <2>5 DEF PollFrame, Receive, Reply
  <2>6. CASE PollAgain
    BY <2>6 DEF PollAgain
  <2>7. CASE PollNak
    BY <2>7 DEF PollNak, Fail
  <2>8. CASE TakeOffer
    BY <2>8 DEF TakeOffer, EnterWait, Fail
  <2>9. CASE TakeAck
    <3>1. Overlay(offer, rxLease) \in Lease
      BY OverlayIsLease
    <3>2. [f \in Profile |-> Overlay(offer, rxLease)[f]] \in [Profile -> Servers \cup {None, Static}]
      BY <3>1 DEF Lease, Field
    <3>3. QED
      BY <2>9, <3>2 DEF TakeAck, Fail
  <2>10. CASE NoAdapter
    BY <2>10 DEF NoAdapter
  <2>11. CASE Tick
    BY <2>11 DEF Tick
  <2>12. ASSUME NEW m \in Reply, ServerSends(m)
         PROVE  TypeOK'
    BY <2>12 DEF ServerSends
  <2>13. CASE \E s \in Servers, opts \in OptionSets : ServerOffer(s, opts) \/ ServerAck(s, opts)
    <3>1. PICK s \in Servers, opts \in OptionSets : ServerOffer(s, opts) \/ ServerAck(s, opts)
      BY <2>13
    <3>2. \A t \in {"offer", "ack"} :
            [type |-> t, from |-> s, mine |-> TRUE, lease |-> LeaseOf(s, opts)] \in Reply
      BY LeaseOfIsLease DEF Reply
    <3>3. QED
      BY <2>12, <3>1, <3>2 DEF ServerOffer, ServerAck
  <2>14. CASE \E s \in Servers : ServerNak(s)
    <3>1. PICK s \in Servers : ServerNak(s)
      BY <2>14
    <3>2. [type |-> "nak", from |-> s, mine |-> TRUE, lease |-> EmptyLease] \in Reply
      BY DEF Reply, EmptyLease, Lease
    <3>3. QED
      BY <2>12, <3>1, <3>2 DEF ServerNak
  <2>15. CASE \E s \in Servers, t \in {"offer", "ack", "nak"} : ServerForeign(s, t)
    <3>1. PICK s \in Servers, t \in {"offer", "ack", "nak"} : ServerForeign(s, t)
      BY <2>15
    <3>2. [type |-> t, from |-> s, mine |-> FALSE, lease |-> LeaseOf(s, Field)] \in Reply
      BY LeaseOfIsLease DEF Reply
    <3>3. QED
      BY <2>12, <3>1, <3>2 DEF ServerForeign
  <2>16. CASE Finished \/ UNCHANGED vars
    BY <2>16 DEF Finished, vars
  <2>17. QED
    BY <2>1, <2>2, <2>3, <2>4, <2>5, <2>6, <2>7, <2>8, <2>9, <2>10, <2>11, <2>13,
       <2>14, <2>15, <2>16 DEF Next, Client, Environment
<1>3. QED
  BY <1>1, <1>2, PTL DEF Spec
-----------------------------------------------------------------------------
(* A reply joins the wire: what was known of the older ones stays true. *)
LEMMA ServerStep ==
  ASSUME IInv, TypeOK', NEW m \in Reply, ServerSends(m),
         m.mine => /\ OneSource(m.lease, m.from)
                   /\ m.type = "ack" => \E b \in bcast : b.type = "request" /\ b.server = m.from
  PROVE  IInv'
<1> USE DEF IInv, ServerSends, wait
<1>1. WireInv'
  BY DEF WireInv, OneSource
<1>2. PcInv' /\ RequestInv' /\ OfferInv'
  BY DEF PcInv, RequestInv, OfferInv, OneSource
<1>3. RxInv'
  BY DEF RxInv, OneSource
<1>4. LeaseAgreed'
  BY DEF LeaseAgreed, Answered
<1>5. QED
  BY <1>1, <1>2, <1>3, <1>4

(* A failing exit keeps the configuration and the servers' commitments. *)
LEMMA FailStep ==
  ASSUME IInv, TypeOK', pc # "done", Fail, UNCHANGED <<wire, bcast>>,
         UNCHANGED offer \/ phase # 2
  PROVE  IInv'
<1> USE DEF IInv, Fail
<1>1. WireInv' /\ PcInv'
  BY DEF WireInv, PcInv, OneSource
<1>2. RequestInv'
  BY DEF RequestInv
<1>3. OfferInv' /\ RxInv'
  BY DEF OfferInv, RxInv
<1>4. LeaseAgreed'
  BY DEF LeaseAgreed, PcInv
<1>5. QED
  BY <1>1, <1>2, <1>3, <1>4

(* An acknowledged overlay has one source, the server that acknowledged.   *)
LEMMA AckSource ==
  ASSUME IInv, event = "ack"
  PROVE  \E s \in Servers : /\ Answered(s, "ack")
                            /\ \A f \in Profile : Overlay(offer, rxLease)[f] \in {s, None}
<1>1. PICK m \in wire : m.mine /\ m.type = "ack" /\ m.lease = rxLease
  BY DEF IInv, RxInv
<1>2. m.from \in Servers /\ OneSource(rxLease, m.from) /\ m.from = offer["server"]
  BY <1>1 DEF IInv, WireInv, RequestInv, TypeOK, Reply
<1>3. OneSource(offer, m.from)
  BY <1>2 DEF IInv, OfferInv, RxInv
<1>4. \A f \in Profile : Overlay(offer, rxLease)[f] \in {m.from, None}
  BY <1>2, <1>3 DEF Overlay, OneSource, Field
<1>5. QED
  BY <1>1, <1>2, <1>4 DEF Answered

(* The invariant is inductive. *)
LEMMA InductiveInvariant == Spec => []IInv
<1>1. Init => IInv
  <2>1. Init => TypeOK
    BY ConstantsAssumption DEF Init, TypeOK, EmptyLease, Lease, Profile
  <2>2. QED
    BY <2>1 DEF Init, IInv, WireInv, PcInv, RequestInv, OfferInv, RxInv, LeaseAgreed
<1>2. IInv /\ TypeOK' /\ [Next]_vars => IInv'
  <2> SUFFICES ASSUME IInv, TypeOK', [Next]_vars
               PROVE  IInv'
    OBVIOUS
  <2> USE DEF wait, link
  <2>1. CASE Acquire
    BY <2>1 DEF Acquire, EnterWait, IInv, WireInv, PcInv, RequestInv, OfferInv, RxInv, LeaseAgreed, Answered, OneSource
  <2>2. CASE LoopTimeout
    BY <2>2, FailStep DEF LoopTimeout
  <2>3. CASE LoopEnter
    BY <2>3 DEF LoopEnter, IInv, WireInv, PcInv, RequestInv, OfferInv, RxInv, LeaseAgreed, Answered, OneSource
  <2>4. CASE Transmit
    <3> USE <2>4 DEF Transmit, IInv
    <3>1. RequestInv'
      BY DEF RequestInv, Packet, PcInv
    <3>2. WireInv' /\ PcInv'
      BY DEF WireInv, PcInv, OneSource
    <3>3. OfferInv' /\ RxInv' /\ LeaseAgreed'
      BY DEF OfferInv, RxInv, LeaseAgreed, Answered, OneSource
    <3>4. QED
      BY <3>1, <3>2, <3>3
  <2>5. CASE PollFrame
    <3> USE <2>5 DEF PollFrame, IInv
    <3>1. RxInv'
      <4>1. PICK m \in wire : Receive(m)
        OBVIOUS
      <4>2. phase \in {1, 2}
        BY DEF PcInv
      <4>3. QED
        BY <4>1, <4>2 DEF RxInv, Receive, Parses, Wanted, WireInv, TypeOK, Reply, OneSource
    <3>2. WireInv' /\ PcInv' /\ RequestInv' /\ OfferInv' /\ LeaseAgreed'
      BY DEF WireInv, PcInv, RequestInv, OfferInv, LeaseAgreed, Answered, OneSource
    <3>3. QED
      BY <3>1, <3>2
  <2>6. CASE PollAgain
    BY <2>6 DEF PollAgain, IInv, WireInv, PcInv, RequestInv, OfferInv, RxInv, LeaseAgreed, Answered, OneSource
  <2>7. CASE PollNak
    BY <2>7, FailStep DEF PollNak
  <2>8. CASE TakeOffer
    <3>1. phase = 1
      BY <2>8 DEF TakeOffer, IInv, RxInv
    <3>2. ASSUME Usable(rxLease), EnterWait(2), UNCHANGED <<config, verdict>>
          PROVE  IInv'
      <4> USE <2>8, <3>1, <3>2 DEF TakeOffer, EnterWait, IInv
      <4>1. OfferInv'
        BY DEF OfferInv, RxInv, Usable, OneSource, TypeOK, Lease, Field
      <4>2. WireInv' /\ PcInv' /\ RequestInv' /\ RxInv' /\ LeaseAgreed'
        BY DEF WireInv, PcInv, RequestInv, RxInv, LeaseAgreed, Answered, OneSource
      <4>3. QED
        BY <4>1, <4>2
    <3>3. QED
      BY <2>8, <3>1, <3>2, FailStep DEF TakeOffer
  <2>9. CASE TakeAck
    <3> DEFINE final == Overlay(offer, rxLease)
    <3>1. PICK s \in Servers : Answered(s, "ack") /\ \A f \in Profile : final[f] \in {s, None}
      BY <2>9, AckSource DEF TakeAck
    <3>2. ASSUME Complete(final), config' = [f \in Profile |-> final[f]], verdict' = "leased",
                 pc' = "done", phase' = 0, event' = "none"
          PROVE  IInv'
      <4> USE <2>9, <3>2 DEF TakeAck, IInv
      <4>1. config' = [f \in Profile |-> s]
        BY <3>1 DEF Complete
      <4>2. LeaseAgreed'
        BY <3>1, <4>1 DEF LeaseAgreed, Answered
      <4>3. WireInv' /\ PcInv' /\ RequestInv' /\ OfferInv' /\ RxInv'
        BY DEF WireInv, PcInv, RequestInv, OfferInv, RxInv, OneSource
      <4>4. QED
        BY <4>2, <4>3
    <3>3. QED
      BY <2>9, <3>2, FailStep DEF TakeAck
  <2>10. CASE NoAdapter
    BY <2>10 DEF NoAdapter, IInv, WireInv, PcInv, RequestInv, OfferInv, RxInv, LeaseAgreed, Answered, OneSource
  <2>11. CASE Tick
    BY <2>11 DEF Tick, IInv, WireInv, PcInv, RequestInv, OfferInv, RxInv, LeaseAgreed, Answered, OneSource
  <2>12. CASE \E s \in Servers, opts \in OptionSets : ServerOffer(s, opts) \/ ServerAck(s, opts)
    <3>1. PICK s \in Servers, opts \in OptionSets : ServerOffer(s, opts) \/ ServerAck(s, opts)
      BY <2>12
    <3>2. \A t \in {"offer", "ack"} :
            [type |-> t, from |-> s, mine |-> TRUE, lease |-> LeaseOf(s, opts)] \in Reply
      BY LeaseOfIsLease DEF Reply
    <3>3. QED
      BY <3>1, <3>2, LeaseOfIsLease, ServerStep DEF ServerOffer, ServerAck
  <2>13. CASE \E s \in Servers : ServerNak(s)
    <3>1. PICK s \in Servers : ServerNak(s)
      BY <2>13
    <3>2. [type |-> "nak", from |-> s, mine |-> TRUE, lease |-> EmptyLease] \in Reply
      BY DEF Reply, EmptyLease, Lease
    <3>3. OneSource(EmptyLease, s)
      BY DEF OneSource, EmptyLease
    <3>4. QED
      BY <3>1, <3>2, <3>3, ServerStep DEF ServerNak
  <2>14. CASE \E s \in Servers, t \in {"offer", "ack", "nak"} : ServerForeign(s, t)
    <3>1. PICK s \in Servers, t \in {"offer", "ack", "nak"} : ServerForeign(s, t)
      BY <2>14
    <3>2. [type |-> t, from |-> s, mine |-> FALSE, lease |-> LeaseOf(s, Field)] \in Reply
      BY LeaseOfIsLease DEF Reply
    <3>3. QED
      BY <3>1, <3>2, ServerStep DEF ServerForeign
  <2>15. CASE Finished \/ UNCHANGED vars
    BY <2>15 DEF Finished, vars, IInv, WireInv, PcInv, RequestInv, OfferInv, RxInv, LeaseAgreed, Answered, OneSource
  <2>16. QED
    BY <2>1, <2>2, <2>3, <2>4, <2>5, <2>6, <2>7, <2>8, <2>9, <2>10, <2>11, <2>12, <2>13,
       <2>14, <2>15 DEF Next, Client, Environment
<1>3. QED
  BY <1>1, <1>2, TypeCorrect, PTL DEF Spec

(* The lease the client ends with has one source, and it is a server that  *)
(* acknowledged this client's REQUEST (dhcp_acquire, net_configure).       *)
THEOREM LeaseAgreement == Spec => []LeaseAgreed
<1>1. IInv => LeaseAgreed
  BY DEF IInv
<1>2. QED
  BY <1>1, InductiveInvariant, PTL

(* The exchange implements the atomic lease acquisition: the configuration *)
(* changes in one step, to a whole granted profile, and only before the    *)
(* verdict.                                                                *)
THEOREM Refinement == Spec => ImplementsLeaseAcquire
<1>1. Init => Abstract!Init
  BY DEF Init, Abstract!Init, granted, Answered
<1>2. IInv /\ [Next]_vars => [Abstract!Next]_(Abstract!vars)
  <2> SUFFICES ASSUME IInv, [Next]_vars
               PROVE  [Abstract!Next]_(Abstract!vars)
    OBVIOUS
  <2> USE DEF Abstract!vars, granted, Answered, wait, link
  <2>1. ASSUME pc # "done", Fail, UNCHANGED wire
        PROVE  Abstract!Fallback
    BY <2>1 DEF Fail, Abstract!Fallback, IInv, PcInv
  <2>2. CASE Acquire
    BY <2>2 DEF Acquire
  <2>3. CASE LoopTimeout
    BY <2>1, <2>3 DEF LoopTimeout, Abstract!Next
  <2>4. CASE LoopEnter \/ Transmit \/ PollFrame \/ PollAgain
    BY <2>4 DEF LoopEnter, Transmit, PollFrame, PollAgain
  <2>5. CASE PollNak
    BY <2>1, <2>5 DEF PollNak, Abstract!Next
  <2>6. CASE TakeOffer
    BY <2>1, <2>6 DEF TakeOffer, Abstract!Next
  <2>7. CASE TakeAck
    <3> DEFINE final == Overlay(offer, rxLease)
    <3>1. PICK s \in Servers : Answered(s, "ack") /\ \A f \in Profile : final[f] \in {s, None}
      BY <2>7, AckSource DEF TakeAck
    <3>2. ASSUME Complete(final), config' = [f \in Profile |-> final[f]]
          PROVE  config' = [f \in Profile |-> s]
      BY <3>1, <3>2 DEF Complete
    <3>3. verdict = "none" /\ UNCHANGED granted
      BY <2>7 DEF TakeAck, IInv, PcInv
    <3>4. CASE verdict' = "leased"
      BY <2>7, <3>1, <3>2, <3>3, <3>4 DEF TakeAck, Fail, Abstract!Lease, Abstract!Next
    <3>5. QED
      BY <2>1, <2>7, <3>4 DEF TakeAck, Abstract!Next
  <2>8. CASE NoAdapter
    BY <2>8 DEF NoAdapter, IInv, PcInv, Abstract!Fallback, Abstract!Next
  <2>9. CASE Tick
    BY <2>9 DEF Tick
  <2>10. ASSUME NEW m \in Reply, ServerSends(m)
         PROVE  [Abstract!Next]_(Abstract!vars)
    <3>1. granted' = granted \/ (m.from \in Servers /\ granted' = granted \cup {m.from})
      BY <2>10 DEF ServerSends, Reply
    <3>2. QED
      BY <2>10, <3>1 DEF ServerSends, Abstract!Grant, Abstract!Next
  <2>11. CASE \E s \in Servers, opts \in OptionSets : ServerOffer(s, opts) \/ ServerAck(s, opts)
    <3>1. PICK s \in Servers, opts \in OptionSets : ServerOffer(s, opts) \/ ServerAck(s, opts)
      BY <2>11
    <3>2. \A t \in {"offer", "ack"} :
            [type |-> t, from |-> s, mine |-> TRUE, lease |-> LeaseOf(s, opts)] \in Reply
      BY LeaseOfIsLease DEF Reply
    <3>3. QED
      BY <2>10, <3>1, <3>2 DEF ServerOffer, ServerAck
  <2>12. CASE \E s \in Servers : ServerNak(s)
    <3>1. PICK s \in Servers : ServerNak(s)
      BY <2>12
    <3>2. [type |-> "nak", from |-> s, mine |-> TRUE, lease |-> EmptyLease] \in Reply
      BY DEF Reply, EmptyLease, Lease
    <3>3. QED
      BY <2>10, <3>1, <3>2 DEF ServerNak
  <2>13. CASE \E s \in Servers, t \in {"offer", "ack", "nak"} : ServerForeign(s, t)
    <3>1. PICK s \in Servers, t \in {"offer", "ack", "nak"} : ServerForeign(s, t)
      BY <2>13
    <3>2. [type |-> t, from |-> s, mine |-> FALSE, lease |-> LeaseOf(s, Field)] \in Reply
      BY LeaseOfIsLease DEF Reply
    <3>3. QED
      BY <2>10, <3>1, <3>2 DEF ServerForeign
  <2>14. CASE Finished \/ UNCHANGED vars
    BY <2>14 DEF Finished, vars
  <2>15. QED
    BY <2>2, <2>3, <2>4, <2>5, <2>6, <2>7, <2>8, <2>9, <2>11, <2>12, <2>13, <2>14
       DEF Next, Client, Environment
<1>3. QED
  BY <1>1, <1>2, InductiveInvariant, PTL DEF Spec, ImplementsLeaseAcquire, Abstract!Spec
-----------------------------------------------------------------------------
(***************************************************************************)
(* The invariant behind BoundedRetransmission: transmissions are at least  *)
(* Resend apart, and a pass that got by the loop test found the latest one *)
(* inside the phase.                                                       *)
(***************************************************************************)
TimeInv ==
  /\ start <= now
  /\ lastTx = None => sends = 0
  /\ lastTx # None =>
       /\ sends >= 1
       /\ start + (sends - 1) * Resend <= lastTx
       /\ lastTx <= now
       /\ pc = "tx" => lastTx < start + PhaseTimeout
  /\ BoundedRetransmission

(* However slowly the loop runs, one phase transmits at most               *)
(* ceil(PhaseTimeout / Resend) + 1 times (dhcp_wait).                      *)
THEOREM RetransmissionBound == Spec => []BoundedRetransmission
<1>1. Init => TimeInv
  BY DEF Init, TimeInv, BoundedRetransmission
<1>2. TypeOK /\ TimeInv /\ [Next]_vars => TimeInv'
  <2> SUFFICES ASSUME TypeOK, TimeInv, [Next]_vars
               PROVE  TimeInv'
    OBVIOUS
  <2> USE ConstantsAssumption DEF TimeInv, BoundedRetransmission, wait
  <2>1. ASSUME EnterWait(1) \/ EnterWait(2), UNCHANGED now
        PROVE  TimeInv'
    BY <2>1 DEF EnterWait, TypeOK
  <2>2. ASSUME UNCHANGED <<start, lastTx, sends, now>>, pc' # "tx"
        PROVE  TimeInv'
    BY <2>2
  <2>3. CASE LoopEnter
    BY <2>3 DEF LoopEnter, Elapsed, TypeOK
  <2>4. CASE Transmit
    <3>1. CASE ResendDue /\ lastTx # None /\ lastTx' = now /\ sends' = sends + 1
      <4>1. lastTx \in Nat /\ now \in Nat /\ start \in Nat /\ sends \in Nat /\ Resend \in Nat
        BY <3>1 DEF TypeOK
      <4>2. now >= lastTx + Resend
        BY <3>1, <4>1 DEF ResendDue
      <4>3. sends >= 1 /\ start + (sends - 1) * Resend <= lastTx /\ lastTx < start + PhaseTimeout
        BY <2>4, <3>1 DEF Transmit
      <4>4. (sends' - 1) * Resend = (sends - 1) * Resend + Resend /\ sends' - 2 = sends - 1
        BY <3>1, <4>1
      <4>5. (sends - 1) * Resend \in Nat
        BY <4>1, <4>3
      <4>6. start + (sends' - 1) * Resend <= now /\ (sends' - 2) * Resend < PhaseTimeout
        BY <4>1, <4>2, <4>3, <4>4, <4>5
      <4>7. QED
        BY <2>4, <3>1, <4>1, <4>6 DEF Transmit
    <3>2. CASE lastTx = None /\ lastTx' = now /\ sends' = sends + 1
      BY <2>4, <3>2 DEF Transmit, TypeOK
    <3>3. CASE UNCHANGED <<lastTx, sends>>
      BY <2>2, <2>4, <3>3 DEF Transmit
    <3>4. QED
      BY <2>4, <3>1, <3>2, <3>3 DEF Transmit
  <2>5. CASE Tick
    BY <2>5 DEF Tick, TypeOK
  <2>6. CASE Acquire \/ TakeOffer
    BY <2>1, <2>2, <2>6 DEF Acquire, TakeOffer, Fail
  <2>7. CASE LoopTimeout \/ PollFrame \/ PollAgain \/ PollNak \/ TakeAck \/ NoAdapter
    BY <2>2, <2>7 DEF LoopTimeout, PollFrame, PollAgain, PollNak, TakeAck, Fail, NoAdapter
  <2>8. ASSUME NEW m, ServerSends(m)
        PROVE  TimeInv'
    BY <2>8 DEF ServerSends
  <2>9. CASE Environment /\ ~NoAdapter /\ ~Tick
    BY <2>8, <2>9 DEF Environment, ServerOffer, ServerAck, ServerNak, ServerForeign
  <2>10. CASE Finished \/ UNCHANGED vars
    BY <2>10 DEF Finished, vars
  <2>11. QED
    BY <2>3, <2>4, <2>5, <2>6, <2>7, <2>9, <2>10 DEF Next, Client
<1>3. TimeInv => BoundedRetransmission
  BY DEF TimeInv
<1>4. QED
  BY <1>1, <1>2, <1>3, TypeCorrect, PTL DEF Spec
-----------------------------------------------------------------------------
(* The invariant behind FallbackJustified: an event stands for a reply to  *)
(* this client that a server has really sent, and rxLease for its fields.  *)
EventInv ==
  event # "none" =>
    \E m \in wire : m.mine /\ m.type = event /\ (event # "nak" => m.lease = rxLease)

BootInv == pc = "boot" => start = 0 /\ bcast = {}

Refused == \E m \in wire : m.mine /\ (m.type = "nak" \/ \E f \in Field : m.lease[f] = None)

JInv == EventInv /\ BootInv /\ FallbackJustified

(* An overlay that is not complete lacks a field of the acknowledgement. *)
LEMMA OverlayLacks ==
  ASSUME NEW dst \in Lease, NEW src \in Lease, ~Complete(Overlay(dst, src))
  PROVE  \E f \in Field : src[f] = None
BY DEF Complete, Overlay, Field

(* A failing exit with a reason. *)
LEMMA JustifiedFail ==
  ASSUME JInv, Fail, UNCHANGED <<wire, bcast, now>>, Refused \/ now - start >= PhaseTimeout
  PROVE  JInv'
<1>1. pc' = "done" /\ event' = "none" /\ UNCHANGED start
  BY DEF Fail
<1>2. EventInv' /\ BootInv'
  BY <1>1 DEF EventInv, BootInv
<1>3. FallbackJustified'
  BY <1>1 DEF FallbackJustified, Refused
<1>4. QED
  BY <1>2, <1>3 DEF JInv

(* The client falls back to the static profile for no other reason than a  *)
(* missing adapter, a phase that has run out, a refusal, or a reply that   *)
(* lacks a field (dhcp_acquire, kernel_main).                              *)
THEOREM FallbackReason == Spec => []FallbackJustified
<1>1. Init => JInv
  BY DEF Init, JInv, EventInv, BootInv, FallbackJustified
<1>2. IInv /\ JInv /\ [Next]_vars => JInv'
  <2> SUFFICES ASSUME IInv, JInv, [Next]_vars
               PROVE  JInv'
    OBVIOUS
  <2> USE DEF wait, link
  <2>1. verdict # "static" \/ pc = "done"
    BY DEF IInv, PcInv
  <2>2. rxLease \in Lease /\ offer \in Lease
    BY DEF IInv, TypeOK
  <2>3. ASSUME event # "none", event # "nak", \E f \in Field : rxLease[f] = None
        PROVE  Refused
    BY <2>3 DEF JInv, EventInv, Refused
  <2>4. ASSUME EnterWait(1) \/ EnterWait(2), UNCHANGED verdict, pc # "done"
        PROVE  JInv'
    BY <2>1, <2>4 DEF EnterWait, JInv, EventInv, BootInv, FallbackJustified
  <2>5. CASE Acquire
    BY <2>4, <2>5 DEF Acquire
  <2>6. CASE LoopTimeout
    BY <2>6, JustifiedFail DEF LoopTimeout, Elapsed
  <2>7. CASE LoopEnter \/ PollAgain
    BY <2>7 DEF LoopEnter, PollAgain, JInv, EventInv, BootInv, FallbackJustified
  <2>8. CASE Transmit
    BY <2>1, <2>8 DEF Transmit, JInv, EventInv, BootInv, FallbackJustified
  <2>9. CASE PollFrame
    <3>1. PICK m \in wire : Receive(m)
      BY <2>9 DEF PollFrame
    <3>2. EventInv'
      BY <2>9, <3>1 DEF PollFrame, Receive, Parses, Wanted, JInv, EventInv
    <3>3. QED
      BY <2>9, <3>2 DEF PollFrame, JInv, BootInv, FallbackJustified
  <2>10. CASE PollNak
    <3>1. Refused
      BY <2>10 DEF PollNak, JInv, EventInv, Refused
    <3>2. QED
      BY <2>10, <3>1, JustifiedFail DEF PollNak
  <2>11. CASE TakeOffer
    <3>1. CASE ~Usable(rxLease) /\ Fail
      <4>1. Refused
        <5>1. "ip" \in Field /\ "server" \in Field
          BY DEF Field, Profile
        <5>2. \E f \in Field : rxLease[f] = None
          BY <3>1, <5>1 DEF Usable
        <5>3. QED
          BY <2>3, <2>11, <5>2 DEF TakeOffer
      <4>2. QED
        BY <2>11, <3>1, <4>1, JustifiedFail DEF TakeOffer
    <3>2. QED
      BY <2>4, <2>11, <3>1 DEF TakeOffer
  <2>12. CASE TakeAck
    <3>1. CASE ~Complete(Overlay(offer, rxLease)) /\ Fail
      <4>1. Refused
        BY <2>2, <2>3, <2>12, <3>1, OverlayLacks DEF TakeAck
      <4>2. QED
        BY <2>12, <3>1, <4>1, JustifiedFail DEF TakeAck
    <3>2. CASE verdict' = "leased" /\ pc' = "done" /\ event' = "none"
      BY <3>2 DEF JInv, EventInv, BootInv, FallbackJustified
    <3>3. QED
      BY <2>12, <3>1, <3>2 DEF TakeAck
  <2>13. CASE NoAdapter
    BY <2>13 DEF NoAdapter, JInv, EventInv, BootInv, FallbackJustified
  <2>14. CASE Tick
    BY <2>1, <2>14 DEF Tick, JInv, EventInv, BootInv, FallbackJustified
  <2>15. ASSUME NEW m, ServerSends(m)
         PROVE  JInv'
    <3>1. EventInv' /\ BootInv'
      BY <2>15 DEF ServerSends, JInv, EventInv, BootInv
    <3>2. FallbackJustified'
      BY <2>15 DEF ServerSends, JInv, FallbackJustified
    <3>3. QED
      BY <3>1, <3>2 DEF JInv
  <2>16. CASE Environment /\ ~NoAdapter /\ ~Tick
    BY <2>15, <2>16 DEF Environment, ServerOffer, ServerAck, ServerNak, ServerForeign
  <2>17. CASE Finished \/ UNCHANGED vars
    BY <2>17 DEF Finished, vars, JInv, EventInv, BootInv, FallbackJustified
  <2>18. QED
    BY <2>5, <2>6, <2>7, <2>8, <2>9, <2>10, <2>11, <2>12, <2>13, <2>14, <2>16, <2>17
       DEF Next, Client
<1>3. JInv => FallbackJustified
  BY DEF JInv
<1>4. QED
  BY <1>1, <1>2, <1>3, InductiveInvariant, PTL DEF Spec
=============================================================================
