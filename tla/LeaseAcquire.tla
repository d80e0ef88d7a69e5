---------------------------- MODULE LeaseAcquire ----------------------------
(***************************************************************************)
(* What the boot-time DHCP attempt promises the rest of the kernel         *)
(* (include/dhcp.h, kernel_main): the attempt ends once, either with the   *)
(* whole of one profile that a server has granted, or with the static      *)
(* profile it found.  No state in between is ever visible in the           *)
(* configuration, and nothing changes it after the verdict.                *)
(***************************************************************************)
CONSTANTS Servers, Profile, Static

VARIABLES
  config,     \* the IPv4 configuration: field -> who supplied its value
  granted,    \* the servers that have committed an address to this client
  verdict     \* "none" until the attempt ends

vars == <<config, granted, verdict>>

Init ==
  /\ config = [f \in Profile |-> Static]
  /\ granted = {}
  /\ verdict = "none"

(* A server commits an address; it may do so before or after the verdict. *)
Grant(s) ==
  /\ granted' = granted \cup {s}
  /\ UNCHANGED <<config, verdict>>

Lease(s) ==
  /\ verdict = "none"
  /\ s \in granted
  /\ config' = [f \in Profile |-> s]
  /\ verdict' = "leased"
  /\ UNCHANGED granted

Fallback ==
  /\ verdict = "none"
  /\ verdict' = "static"
  /\ UNCHANGED <<config, granted>>

Next ==
  \/ \E s \in Servers : Grant(s) \/ Lease(s)
  \/ Fallback

Spec == Init /\ [][Next]_vars
=============================================================================
