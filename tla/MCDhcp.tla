------------------------------- MODULE MCDhcp -------------------------------
(***************************************************************************)
(* Small instances of Dhcp.                                                *)
(***************************************************************************)
EXTENDS Dhcp

Always == State
Renewing == {"RENEW", "REBIND"}

Everything == {"loss", "nack", "stray", "link"}
LossOrStray == {"loss", "stray"}
Nothing == {}
=============================================================================
