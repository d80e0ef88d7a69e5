----------------------------- MODULE InputQueues ----------------------------
(***************************************************************************)
(* What the input rings promise: for each device a first-in first-out      *)
(* queue of at most Cap bytes that refuses a byte only when it holds Cap   *)
(* of them.                                                                *)
(***************************************************************************)
EXTENDS Naturals, Sequences

CONSTANTS Device, Byte, Cap
VARIABLES queue, out, dropped

vars == <<queue, out, dropped>>

Init ==
  /\ queue = [d \in Device |-> << >>]
  /\ out = [d \in Device |-> << >>]
  /\ dropped = [d \in Device |-> 0]

Accept(d, b) ==
  /\ Len(queue[d]) < Cap
  /\ queue' = [queue EXCEPT ![d] = Append(@, b)]
  /\ UNCHANGED <<out, dropped>>

Refuse(d) ==
  /\ Len(queue[d]) = Cap
  /\ dropped' = [dropped EXCEPT ![d] = @ + 1]
  /\ UNCHANGED <<queue, out>>

Take(d) ==
  /\ queue[d] # << >>
  /\ out' = [out EXCEPT ![d] = Append(@, Head(queue[d]))]
  /\ queue' = [queue EXCEPT ![d] = Tail(@)]
  /\ UNCHANGED dropped

Next ==
  \E d \in Device : (\E b \in Byte : Accept(d, b)) \/ Refuse(d) \/ Take(d)

Spec == Init /\ [][Next]_vars
=============================================================================
