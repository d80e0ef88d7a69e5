------------------------------- MODULE MCDhcp -------------------------------
(* An instance of Dhcp for TLC. *)
EXTENDS Dhcp

(* A full reply and one without DNS. *)
MCOptionSets == {Field, Field \ {"dns"}}
=============================================================================
